---------------------------- MODULE UnicodeStrings ----------------------------
(***************************************************************************)
(* NdfCommUtils.c: the counted strings of the kernel library.  A string is *)
(* seen as its three fields, without its characters; lengths are counted   *)
(* in bytes.  Each operator gives the string and the status the function   *)
(* leaves; "memory" says whether the pool has what is asked for.           *)
(***************************************************************************)
EXTENDS Integers

\* The greatest USHORT, and the size of UNICODE_NULL.
UShortMax == 65535
NullSize == 2
UShort == 0 .. UShortMax

UnicodeString == [buffer : BOOLEAN, length : UShort, maximum : UShort]
EmptyString == [buffer |-> FALSE, length |-> 0, maximum |-> 0]
Result(s, st) == [string |-> s, status |-> st]

\* RtlUnicodeStringValidate.
Valid(s) ==
    /\ s.length % 2 = 0 /\ s.maximum % 2 = 0 /\ s.length =< s.maximum
    /\ s.buffer \/ s.maximum = 0

\* NdfCommUnicodeStringAlloc forgets what the string held before.
NdfCommUnicodeStringAlloc(s, n, memory) ==
    IF ~Valid(s) THEN Result(s, "invalid")
    ELSE IF memory
    THEN Result([buffer |-> TRUE, length |-> 0, maximum |-> n], "success")
    ELSE Result(EmptyString, "nomemory")

\* FAULT: the buffer is freed but the string not reset.
FreeWithoutReset(s) == [s EXCEPT !.buffer = FALSE]

NdfCommUnicodeStringFree(s) == IF s.buffer THEN EmptyString ELSE s

\* NdfCommUnicodeStringAssignUnicodeString with a source of n bytes: the
\* buffer is replaced when it has no room for them and a null.
NdfCommUnicodeStringAssignUnicodeString(d, n, memory) ==
    IF n + NullSize > UShortMax THEN Result(d, "overflow")
    ELSE IF n + NullSize =< d.maximum
    THEN Result([d EXCEPT !.length = n], "success")
    ELSE LET a == NdfCommUnicodeStringAlloc(NdfCommUnicodeStringFree(d),
                                            n + NullSize, memory)
         IN  IF a.status = "success"
             THEN Result([a.string EXCEPT !.length = n], "success")
             ELSE a

\* A string the helpers may be called with: one of theirs, whose length may be
\* odd after a source with an odd length was assigned.
WellFormed(s) ==
    /\ s \in UnicodeString
    /\ s.buffer \/ s = EmptyString
    /\ s.length =< s.maximum
=============================================================================
