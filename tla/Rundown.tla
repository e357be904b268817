------------------------------- MODULE Rundown -------------------------------
(***************************************************************************)
(* EX_RUNDOWN_REF, the Windows rundown-protection object, as the library   *)
(* uses it: NdfCommGlobals.LibraryRundownProtect and every client's        *)
(* RundownProtect.  It is a reference count and a flag that says that a    *)
(* rundown has begun.  The flag is never cleared: ExRundownCompleted       *)
(* leaves an object on which every later acquisition fails, which is what  *)
(* a begun rundown does too, so it needs no operator of its own.           *)
(***************************************************************************)
EXTENDS Naturals

RundownRef == [active : BOOLEAN, count : Nat]

ExInitializeRundownProtection == [active |-> FALSE, count |-> 0]

\* FAULT: the result of the acquisition is ignored.
AlwaysAcquire(r) == TRUE

\* ExAcquireRundownProtection returns FALSE once a rundown has begun.
CanAcquire(r) == ~r.active

ExAcquireRundownProtection(r) == [r EXCEPT !.count = @ + 1]

\* FAULTS: a release is forgotten, or done twice.
ReleaseForgotten(r) == r
ReleaseTwice(r) == [r EXCEPT !.count = @ - 2]

ExReleaseRundownProtection(r) == [r EXCEPT !.count = @ - 1]

\* ExWaitForRundownProtectionRelease marks the object first ...
BeginRundown(r) == [r EXCEPT !.active = TRUE]

\* FAULT: the wait for the last holder is left out.
RundownBegun(r) == r.active

\* ... and returns when the last holder has released it.
RundownReleased(r) == r.active /\ r.count = 0
=============================================================================
