--------------------------- MODULE TaskIdsProofs ---------------------------
(***************************************************************************)
(* How far apart two equal task ids are, for every clock and any number of *)
(* submissions.                                                            *)
(***************************************************************************)
EXTENDS TaskIds, TLAPS, SequenceTheorems

LEMMA TypeHolds ==
  ASSUME Times \subseteq Nat
  PROVE  Spec => [](now \in Times /\ issuedAt \in Seq(Times))
  <1> DEFINE T == now \in Times /\ issuedAt \in Seq(Times)
  <1>1. Init => T
    BY DEF Init
  <1>2. T /\ [Next]_vars => T'
    BY DEF Next, GenerateTaskId, SetClock, vars
  <1> QED
    BY <1>1, <1>2, PTL DEF Spec

\* Both parts of an id can be read back from it.
LEMMA IdParts ==
  ASSUME NEW s \in Nat, NEW t \in Nat, NEW m \in Nat, NEW n \in Nat,
         TaskId(s, m) = TaskId(t, n)
  PROVE  s % 1000000 = t % 1000000 /\ m % 100 = n % 100
  <1> DEFINE a == s % 1000000
             b == t % 1000000
             k == m % 100
             l == n % 100
  <1>1. a \in Nat /\ b \in Nat /\ k \in 0 .. 99 /\ l \in 0 .. 99
    OBVIOUS
  <1>2. a * 100 + k = b * 100 + l
    BY DEF TaskId
  <1> HIDE DEF a, b, k, l
  <1>3. a = b /\ k = l
    BY <1>1, <1>2
  <1> QED
    BY <1>3 DEF a, b, k, l

\* A hundred successive counter values end in different digits.
LEMMA CounterDigits ==
  ASSUME NEW m \in Nat, NEW n \in Nat, m < n, m % 100 = n % 100
  PROVE  n - m >= 100
  OBVIOUS

\* An id is unique among any hundred submissions in a row, and for 10^6 seconds
\* of the clock unless a hundred come within the same one: a batch of more than a
\* hundred tasks is what breaks the promise of submit_handler.rs:14.
THEOREM IdsRepeatFarApart ==
  ASSUME Times \subseteq Nat
  PROVE  Spec => []RepeatsAreFarApart
  <1>1. issuedAt \in Seq(Times) => RepeatsAreFarApart
    <2> SUFFICES ASSUME issuedAt \in Seq(Times),
                        NEW i \in 1 .. Len(issuedAt), NEW j \in 1 .. Len(issuedAt),
                        i < j, Id(i) = Id(j)
                 PROVE  /\ j - i >= 100
                        /\ issuedAt[i] % 1000000 = issuedAt[j] % 1000000
      BY DEF RepeatsAreFarApart
    <2>0. issuedAt[i] \in Times /\ issuedAt[j] \in Times
      BY ElementOfSeq
    <2>1. issuedAt[i] \in Nat /\ issuedAt[j] \in Nat
      BY <2>0
    <2>2. i \in Nat /\ j \in Nat
      <3>1. Len(issuedAt) \in Nat
        BY LenProperties
      <3> QED
        BY <3>1
    <2>3. issuedAt[i] % 1000000 = issuedAt[j] % 1000000 /\ i % 100 = j % 100
      BY <2>1, <2>2, IdParts DEF Id
    <2> QED
      BY <2>2, <2>3, CounterDigits
  <1> QED
    BY <1>1, TypeHolds, PTL

\* Two seconds that look the same in an id are 10^6 seconds apart.
LEMMA ClockDigits ==
  ASSUME NEW s \in Nat, NEW t \in Nat, s < t, s % 1000000 = t % 1000000
  PROVE  t - s >= 1000000
  BY SMT

\* As long as submissions keep to a hundred a second every id is new, which is what
\* module Gavel assumes of them (submit_handler.rs:14); the run task_ids shows that
\* one submission more in a second is too many.
THEOREM PacedIdsAreUnique ==
  ASSUME Times \subseteq Nat
  PROVE  Spec => [](Paced => UniqueTaskIds)
  <1>1. issuedAt \in Seq(Times) /\ RepeatsAreFarApart => (Paced => UniqueTaskIds)
    <2> SUFFICES ASSUME issuedAt \in Seq(Times), RepeatsAreFarApart, Paced,
                        NEW i \in 1 .. Len(issuedAt), NEW j \in 1 .. Len(issuedAt),
                        i # j, Id(i) = Id(j)
                 PROVE  FALSE
      BY DEF UniqueTaskIds
    <2>1. PICK k \in 1 .. Len(issuedAt), l \in 1 .. Len(issuedAt) : k < l /\ Id(k) = Id(l)
      <3>1. Len(issuedAt) \in Nat
        BY LenProperties
      <3>2. i < j \/ j < i
        BY <3>1, SMT
      <3> QED
        BY <3>2, SMT
    <2>2. l - k >= 100 /\ issuedAt[k] % 1000000 = issuedAt[l] % 1000000
      BY <2>1, SMT DEF RepeatsAreFarApart
    <2>3. k \in Int /\ l \in Int /\ Len(issuedAt) \in Nat
      BY LenProperties
    <2>4. issuedAt[k] \in Times /\ issuedAt[l] \in Times
      BY ElementOfSeq
    <2>5. issuedAt[k] \in Nat /\ issuedAt[l] \in Nat
      BY <2>4
    <2>6. issuedAt[k] < issuedAt[l] /\ issuedAt[l] < issuedAt[k] + 1000000
      BY <2>2, <2>5, SMT DEF Paced
    <2> QED
      BY <2>2, <2>5, <2>6, ClockDigits, SMT
  <1> QED
    BY <1>1, TypeHolds, IdsRepeatFarApart, PTL
=============================================================================
