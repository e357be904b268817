----------------------------- MODULE SharedLemmas -----------------------------
(***************************************************************************)
(* What the proofs about several modules rest on: the rundown reference,   *)
(* and lists from which entries are unlinked.                              *)
(***************************************************************************)
EXTENDS Integers, Sequences, SequencesExt, Rundown, SequenceTheorems, TLAPS

-----------------------------------------------------------------------------
(***************************************************************************)
(* The rundown reference.                                                  *)
(***************************************************************************)
LEMMA RundownInitial ==
    /\ ExInitializeRundownProtection \in RundownRef
    /\ ExInitializeRundownProtection.count = 0
    /\ ExInitializeRundownProtection.active = FALSE
BY DEF ExInitializeRundownProtection, RundownRef

\* An acquisition and a release change the count, the begin of a rundown the
\* flag; a count stays a natural number when only holders release.
LEMMA RundownAcquire ==
    ASSUME NEW r \in RundownRef
    PROVE  /\ ExAcquireRundownProtection(r) \in RundownRef
           /\ ExAcquireRundownProtection(r).count = r.count + 1
           /\ ExAcquireRundownProtection(r).active = r.active
BY DEF RundownRef, ExAcquireRundownProtection

\* A release takes one holder off the count of a reference that has one.
LEMMA RundownRelease ==
    ASSUME NEW r \in RundownRef, r.count > 0
    PROVE  /\ ExReleaseRundownProtection(r) \in RundownRef
           /\ ExReleaseRundownProtection(r).count = r.count - 1
           /\ ExReleaseRundownProtection(r).active = r.active
BY DEF RundownRef, ExReleaseRundownProtection

\* The begin of a rundown changes the flag alone.
LEMMA RundownBegin ==
    ASSUME NEW r \in RundownRef
    PROVE  /\ BeginRundown(r) \in RundownRef
           /\ BeginRundown(r).count = r.count
           /\ BeginRundown(r).active = TRUE
BY DEF RundownRef, BeginRundown

\* The types of the two fields.
LEMMA RundownFields ==
    ASSUME NEW r \in RundownRef
    PROVE  r.count \in Nat /\ r.active \in BOOLEAN
BY DEF RundownRef

-----------------------------------------------------------------------------
(***************************************************************************)
(* Lists.                                                                  *)
(***************************************************************************)
\* What is where after the removal of position m.
LEMMA RemoveAtElements ==
    ASSUME NEW S, NEW q \in Seq(S), NEW m \in 1 .. Len(q)
    PROVE  /\ RemoveAt(q, m) \in Seq(S)
           /\ Len(RemoveAt(q, m)) = Len(q) - 1
           /\ \A k \in 1 .. (Len(q) - 1) :
                 RemoveAt(q, m)[k] = IF k < m THEN q[k] ELSE q[k + 1]
<1> DEFINE r == RemoveAt(q, m)
           a == SubSeq(q, 1, m - 1)
           b == SubSeq(q, m + 1, Len(q))
<1>1. a \in Seq(S) /\ Len(a) = m - 1 /\ \A k \in 1 .. (m - 1) : a[k] = q[k]
  OBVIOUS
<1>2. /\ b \in Seq(S) /\ Len(b) = Len(q) - m
      /\ \A k \in 1 .. (Len(q) - m) : b[k] = q[m + k]
  OBVIOUS
<1>3. r = a \o b
  BY DEF RemoveAt
<1> HIDE DEF a, b, r
<1>4. /\ r \in Seq(S) /\ Len(r) = Len(q) - 1
      /\ \A k \in 1 .. Len(r) : r[k] = IF k < m THEN a[k] ELSE b[k - m + 1]
  <2>1. /\ r \in Seq(S) /\ Len(r) = Len(a) + Len(b)
        /\ \A k \in 1 .. Len(a) + Len(b) :
              r[k] = IF k =< Len(a) THEN a[k] ELSE b[k - Len(a)]
    BY <1>1, <1>2, <1>3, ConcatProperties, Zenon
  <2>2. Len(r) = Len(q) - 1
    BY <1>1, <1>2, <2>1
  <2>3. ASSUME NEW k \in 1 .. Len(r)
        PROVE  r[k] = IF k < m THEN a[k] ELSE b[k - m + 1]
    <3>1. (k =< Len(a)) = (k < m) /\ k - Len(a) = k - m + 1
      BY <1>1, <2>2, <2>3
    <3> QED BY <2>1, <2>2, <2>3, <3>1
  <2> QED BY <2>1, <2>2, <2>3
<1>5. ASSUME NEW k \in 1 .. Len(r), k >= m PROVE b[k - m + 1] = q[k + 1]
  BY <1>2, <1>4, <1>5
<1>6. \A k \in 1 .. (Len(q) - 1) : r[k] = IF k < m THEN q[k] ELSE q[k + 1]
  BY <1>1, <1>4, <1>5
<1> QED BY <1>4, <1>6 DEF r

\* The removal of an entry, wherever it is in the list.
Removed(q, i) == RemoveAt(q, CHOOSE k \in DOMAIN q : q[k] = i)

\* RemoveEntryList on an entry of a list without duplicates leaves a list
\* without duplicates of the other entries.
LEMMA RemoveOnly ==
    ASSUME NEW S, NEW q \in Seq(S), NEW i \in ToSet(q),
           \A j, k \in DOMAIN q : q[j] = q[k] => j = k
    PROVE  /\ Removed(q, i) \in Seq(S)
           /\ ToSet(Removed(q, i)) = ToSet(q) \ {i}
           /\ \A j, k \in DOMAIN Removed(q, i) :
                 Removed(q, i)[j] = Removed(q, i)[k] => j = k
<1> DEFINE m == CHOOSE k \in DOMAIN q : q[k] = i
           r == RemoveAt(q, m)
<1>1. m \in 1 .. Len(q) /\ q[m] = i
  BY DEF ToSet
<1>2. Removed(q, i) = r
  BY DEF Removed
<1> HIDE DEF m
<1>0. /\ DOMAIN q = 1 .. Len(q)
      /\ \A k \in 1 .. Len(q) : q[k] \in ToSet(q) /\ (q[k] = i => k = m)
  BY <1>1 DEF ToSet
<1>3. /\ r \in Seq(S) /\ Len(r) = Len(q) - 1
      /\ \A k \in 1 .. Len(r) : r[k] = IF k < m THEN q[k] ELSE q[k + 1]
  BY <1>1, RemoveAtElements
<1> HIDE DEF r
<1>4. ASSUME NEW x \in ToSet(r) PROVE x \in ToSet(q) \ {i}
  <2>1. PICK k \in 1 .. Len(r) : x = r[k]
    BY <1>3 DEF ToSet
  <2>2. CASE k < m
    BY <1>0, <1>1, <1>3, <2>1, <2>2
  <2>3. CASE k >= m
    BY <1>0, <1>1, <1>3, <2>1, <2>3
  <2> QED BY <1>1, <2>1, <2>2, <2>3
<1>5. ASSUME NEW x \in ToSet(q) \ {i} PROVE x \in ToSet(r)
  <2>1. PICK k \in 1 .. Len(q) : x = q[k]
    BY DEF ToSet
  <2>2. CASE k < m
    BY <1>1, <1>3, <2>1, <2>2 DEF ToSet
  <2>3. CASE k > m
    <3>1. k - 1 \in 1 .. Len(r) /\ r[k - 1] = q[k]
      BY <1>1, <1>3, <2>3
    <3> QED BY <1>3, <2>1, <3>1 DEF ToSet
  <2> QED BY <1>1, <2>1, <2>2, <2>3
<1>6. ASSUME NEW j \in DOMAIN r, NEW k \in DOMAIN r, r[j] = r[k]
      PROVE  j = k
  <2>1. j \in 1 .. Len(r) /\ k \in 1 .. Len(r)
    BY <1>3
  <2> DEFINE up(k0) == IF k0 < m THEN k0 ELSE k0 + 1
  <2>3. /\ up(j) \in 1 .. Len(q) /\ up(k) \in 1 .. Len(q)
        /\ r[j] = q[up(j)] /\ r[k] = q[up(k)]
    BY <1>1, <1>3, <2>1
  <2>4. up(j) = up(k)
    <3> HIDE DEF up
    <3> QED BY <1>0, <1>6, <2>3
  <2> QED BY <1>1, <1>3, <2>1, <2>4
<1> QED BY <1>2, <1>3, <1>4, <1>5, <1>6

\* InsertTailList of an entry that is not linked yet.
LEMMA AppendElement ==
    ASSUME NEW S, NEW q \in Seq(S), NEW i \in S, i \notin ToSet(q),
           \A j, k \in DOMAIN q : q[j] = q[k] => j = k
    PROVE  /\ Append(q, i) \in Seq(S)
           /\ ToSet(Append(q, i)) = ToSet(q) \cup {i}
           /\ \A j, k \in DOMAIN Append(q, i) :
                 Append(q, i)[j] = Append(q, i)[k] => j = k
<1> DEFINE r == Append(q, i)
<1>1. /\ r \in Seq(S) /\ Len(r) = Len(q) + 1
      /\ \A k \in 1 .. Len(q) : r[k] = q[k]
      /\ r[Len(q) + 1] = i
  OBVIOUS
<1> HIDE DEF r
<1>2. \A k \in 1 .. Len(r) : k \in 1 .. Len(q) \/ k = Len(q) + 1
  BY <1>1
<1>3. ToSet(r) = ToSet(q) \cup {i}
  BY <1>1, <1>2 DEF ToSet
<1>4. ASSUME NEW j \in DOMAIN r, NEW k \in DOMAIN r, r[j] = r[k]
      PROVE  j = k
  BY <1>1, <1>2, <1>4 DEF ToSet
<1> QED BY <1>1, <1>3, <1>4 DEF r
=============================================================================
