------------------------- MODULE RecoverySweepProofs -------------------------
(***************************************************************************)
(* The cadence of RecoverySweep, for every number of commands and every    *)
(* length of the clock.                                                    *)
(***************************************************************************)
EXTENDS RecoverySweep, FunctionSums, FiniteSetTheorems

-----------------------------------------------------------------------------
(* How long yielded live ticks can postpone the sweep. *)

\* What the argument needs of the types.
CadenceTypes ==
    /\ minute \in 0..Horizon - 1
    /\ due \in BOOLEAN
    /\ skipped \in {"none", "this", "earlier"}
    /\ postponed \in Nat

\* The clock counts on, or starts again.
LEMMA NextMinute ==
    ASSUME NEW m \in 0..Horizon - 1
    PROVE  /\ (m + 1) % Horizon \in 0..Horizon - 1
           /\ (m + 1) % Horizon = m + 1 \/ (m + 1) % Horizon = 0
<1>0. Horizon \in Nat \ {0}
  BY SweepAssumption, Zenon
<1>1. CASE m + 1 < Horizon
  BY <1>0, <1>1
<1>2. CASE m + 1 = Horizon
  BY <1>0, <1>2
<1> QED
  BY <1>0, <1>1, <1>2

\* A tick that stays in its bucket goes to the bucket's next cycle.
LEMMA CycleOfNextMinute ==
    ASSUME NEW m \in 0..Horizon - 1, ((m + 1) % Horizon) % Cadence # 0
    PROVE  ((m + 1) % Horizon) % Cadence = (m % Cadence) + 1
<1>0. Horizon \in Nat \ {0}
  BY SweepAssumption, Zenon
<1>1. (m + 1) % Horizon = m + 1
  BY <1>0, NextMinute DEF Cadence
<1> QED
  BY <1>0, <1>1 DEF Cadence

\* The invariant is inductive.
LEMMA CadenceStep ==
    ASSUME CadenceTypes, PostponedInv, [Next]_vars
    PROVE  CadenceTypes' /\ PostponedInv'
<1> DEFINE m == minute % Cadence
<1>1. Horizon \in Nat \ {0}
  BY SweepAssumption, Zenon
<1>2. m \in 0..4 /\ Cadence = 5
  BY <1>1 DEF CadenceTypes, Cadence
<1>3. /\ due => CyclesOfBucket = m + 0
      /\ ~due => CyclesOfBucket = m + 1
  BY Zenon DEF CyclesOfBucket
<1>4. CASE Tick
  <2>1. /\ minute' = (minute + 1) % Horizon /\ postponed' = postponed
        /\ ~due /\ due' = TRUE
    BY <1>4, Zenon DEF Tick
  <2>2. minute' \in 0..Horizon - 1
    BY <2>1, NextMinute, Zenon DEF CadenceTypes
  <2>3. CASE minute' % Cadence = 0
    <3>1. skipped' = IF skipped = "none" THEN "none" ELSE "earlier"
      BY <1>4, <2>3, Zenon DEF Tick
    <3>2. postponed <= Cadence /\ (skipped = "none" => postponed = 0)
      <4>1. /\ skipped = "this" => postponed <= m + 1
            /\ skipped = "earlier" => postponed <= Cadence
            /\ skipped = "none" => postponed = 0
        BY <1>3, <2>1, Zenon DEF PostponedInv
      <4> HIDE DEF m
      <4> QED
        BY <1>2, <4>1, SMT DEF CadenceTypes
    <3>3. CadenceTypes'
      BY <2>1, <2>2, <3>1, Zenon DEF CadenceTypes
    <3>4. PostponedInv'
      BY <2>1, <3>1, <3>2, Zenon DEF PostponedInv, Cadence
    <3> QED
      BY <3>3, <3>4, Zenon
  <2>4. CASE minute' % Cadence # 0
    <3>1. skipped' = skipped
      BY <1>4, <2>4, Zenon DEF Tick, bucketVars
    <3>2. minute' % Cadence = m + 1
      BY <2>1, <2>4, CycleOfNextMinute, Zenon DEF CadenceTypes
    <3>3. CyclesOfBucket' = CyclesOfBucket
      <4>1. CyclesOfBucket' = (m + 1) + 0
        BY <2>1, <3>2, Zenon DEF CyclesOfBucket, Cadence
      <4> HIDE DEF m
      <4> QED
        BY <1>2, <1>3, <2>1, <4>1, SMT
    <3>4. CadenceTypes'
      BY <2>1, <2>2, <3>1, Zenon DEF CadenceTypes
    <3>5. PostponedInv'
      BY <2>1, <3>1, <3>3, Zenon DEF PostponedInv, Cadence
    <3> QED
      BY <3>4, <3>5, Zenon
  <2> QED
    BY <2>3, <2>4, Zenon
<1>5. CASE Cycle
  <2>1. due /\ due' = FALSE /\ minute' = minute
    BY <1>5, Zenon DEF Cycle, ReturnEarly, BucketDone, SkipDeferred, DeadlineExhausted,
                       SweepCutShort, FullSweep, Ended
  <2>2. CyclesOfBucket = m + 0 /\ CyclesOfBucket' = m + 1
    BY <1>3, <2>1, Zenon DEF CyclesOfBucket, Cadence
  <2>3. \/ skipped' = skipped /\ postponed' = postponed
        \/ skipped' = "none" /\ postponed' = 0
        \/ skipped # "earlier" /\ skipped' = "this" /\ postponed' = postponed + 1
    BY <1>5, Zenon DEF Cycle, ReturnEarly, BucketDone, SkipDeferred, DeadlineExhausted,
                       SweepCutShort, FullSweep, bucketVars
  <2>4. postponed \in Nat /\ postponed' \in Nat
    BY <2>3 DEF CadenceTypes
  <2>5. CadenceTypes'
    BY <2>1, <2>3, <2>4, Zenon DEF CadenceTypes
  <2>6. PostponedInv'
    <3>1. CASE skipped' = skipped /\ postponed' = postponed
      <4>1. postponed <= CyclesOfBucket => postponed <= CyclesOfBucket'
        <5> HIDE DEF m
        <5> QED
          BY <1>2, <2>2, <2>4, SMT
      <4> QED
        BY <3>1, <4>1, Zenon DEF PostponedInv, Cadence
    <3>2. CASE skipped' = "none" /\ postponed' = 0
      BY <3>2, Zenon DEF PostponedInv
    <3>3. CASE skipped # "earlier" /\ skipped' = "this" /\ postponed' = postponed + 1
      <4>1. postponed = 0 \/ postponed <= m + 0
        BY <2>2, <3>3, Zenon DEF PostponedInv, CadenceTypes
      <4>2. postponed + 1 <= CyclesOfBucket'
        <5> HIDE DEF m
        <5> QED
          BY <1>2, <2>2, <2>4, <4>1, SMT
      <4> QED
        BY <3>3, <4>2, Zenon DEF PostponedInv
    <3> QED
      BY <2>3, <3>1, <3>2, <3>3, Zenon
  <2> QED
    BY <2>5, <2>6, Zenon
<1>6. CASE Restart
  <2>1. /\ minute' = minute /\ due' = FALSE /\ skipped' = "none" /\ postponed' = 0
    BY <1>6, Zenon DEF Restart
  <2> QED
    BY <2>1 DEF CadenceTypes, PostponedInv
<1>7. CASE \/ UNCHANGED vars
           \/ \E kind \in Kinds : Arrive(kind)
           \/ \E p \in Places : ResolvedElsewhere(p)
  <2>1. UNCHANGED <<minute, due, skipped, postponed>>
    BY <1>7, Zenon DEF vars, Arrive, ResolvedElsewhere, bucketVars
  <2> QED
    BY <2>1, Zenon DEF CadenceTypes, PostponedInv, CyclesOfBucket, Cadence
<1> QED
  BY <1>4, <1>5, <1>6, <1>7, Zenon DEF Next

\* It holds initially.
LEMMA CadenceInit ==
    ASSUME Init
    PROVE  CadenceTypes /\ PostponedInv
<1>0. minute \in 0..Cadence - 1 /\ Cadence = 5
  BY Zenon DEF Init, Cadence
<1>1. minute \in 0..4 /\ due = FALSE /\ skipped = "none" /\ postponed = 0
  <2>1. due = FALSE /\ skipped = "none" /\ postponed = 0
    BY Zenon DEF Init
  <2> QED
    BY <1>0, <2>1, SMT
<1>2. 4 < Horizon /\ Horizon \in Nat
  <2>1. Horizon \in Nat \ {0} /\ Horizon % 5 = 0
    BY SweepAssumption, Zenon DEF Cadence
  <2> QED
    BY <2>1, SMT
<1>3. minute \in 0..Horizon - 1 /\ postponed \in Nat
  BY <1>1, <1>2, SMT
<1> QED
  BY <1>1, <1>3, Zenon DEF CadenceTypes, PostponedInv

\* The skip clock and the count of skipped cycles agree in every reachable
\* state: a skip is only counted in the bucket of the first one.
THEOREM PostponedInvariant == Spec => []PostponedInv
BY CadenceInit, CadenceStep, PTL DEF Spec

\* However live ticks yield, cycles return early, the daemon restarts and the
\* bucket boundary falls, no more than one bucket of cycles in a row skips the
\* account-wide sweep.
THEOREM SweepNotStarved == Spec => []PostponedOneBucket
<1>1. CadenceTypes /\ PostponedInv => PostponedOneBucket
  <2> SUFFICES ASSUME CadenceTypes, PostponedInv
               PROVE  postponed <= 5
    BY Zenon DEF PostponedOneBucket, Cadence
  <2> DEFINE m == minute % 5
  <2>1. m \in 0..4
    <3>1. Horizon \in Nat
      BY SweepAssumption, Zenon
    <3> QED
      BY <3>1 DEF CadenceTypes
  <2>2. CyclesOfBucket = m + 0 \/ CyclesOfBucket = m + 1
    BY Zenon DEF CyclesOfBucket, Cadence
  <2>3. postponed = 0 \/ postponed <= CyclesOfBucket \/ postponed <= 5
    BY Zenon DEF CadenceTypes, PostponedInv, Cadence
  <2>4. postponed \in Nat
    BY Zenon DEF CadenceTypes
  <2> HIDE DEF m
  <2> QED
    BY <2>1, <2>2, <2>3, <2>4, SMT
<1> QED
  BY <1>1, CadenceInit, CadenceStep, PTL DEF Spec

-----------------------------------------------------------------------------
(* The rotation: _full_quantum_candidates has a head, of the riskiest class. *)

\* A finite set has an element of the least weight.
LEMMA LeastBy ==
    ASSUME NEW S, IsFiniteSet(S), S # {}, NEW f \in [S -> Int]
    PROVE  \E p \in S : \A q \in S : f[p] <= f[q]
<1> DEFINE Under(p) == {q \in S : f[q] < f[p]}
           T == {Under(p) : p \in S}
<1>1. T \in SUBSET (SUBSET S) /\ T # {}
  <2>1. PICK p \in S : TRUE
    BY Zenon
  <2>2. \A q \in S : Under(q) \subseteq S
    BY Zenon
  <2> HIDE DEF Under
  <2>3. Under(p) \in T /\ \A u \in T : u \subseteq S
    BY <2>2, Zenon
  <2> HIDE DEF T
  <2> QED
    BY <2>3, Zenon
<1>2. PICK t \in T : \A u \in T : u \subseteq t => u = t
  <2>1. Peelable(S)
    BY FiniteIsPeelable, Zenon
  <2> HIDE DEF T
  <2> QED
    BY <1>1, <2>1, Zenon DEF Peelable
<1>3. PICK p \in S : t = Under(p)
  BY Zenon
<1>4. ASSUME NEW q \in S, f[q] < f[p]
      PROVE  FALSE
  <2>1. Under(q) \subseteq t /\ q \in t /\ q \notin Under(q)
    BY <1>3, <1>4, SMT
  <2>2. Under(q) \in T
    BY Zenon
  <2> QED
    BY <1>2, <2>1, <2>2, Zenon
<1>5. \A q \in S : f[p] <= f[q]
  <2>1. \A q \in S : f[q] \in Int
    OBVIOUS
  <2> QED
    BY <1>4, <2>1, SMT
<1> QED
  BY <1>5, Zenon

\* A finite set of places has a last one.
LEMMA LastExists ==
    ASSUME NEW S \in SUBSET Int, IsFiniteSet(S), S # {}
    PROVE  \E m \in S : \A q \in S : q <= m
<1> DEFINE f == [q \in S |-> 0 - q]
<1>1. f \in [S -> Int] /\ \A q \in S : f[q] = 0 - q
  OBVIOUS
<1>2. PICK m \in S : \A q \in S : f[m] <= f[q]
  <2> HIDE DEF f
  <2> QED
    BY <1>1, LeastBy, Zenon
<1> HIDE DEF f
<1>3. \A q \in S : q <= m
  BY <1>1, <1>2, SMT
<1> QED
  BY <1>3, Zenon

\* A finite set of places has one with k of them before it, for every k that is
\* less than their number.
LEMMA RankExists ==
    ASSUME NEW S \in SUBSET Int, IsFiniteSet(S), NEW k \in Nat, k < Cardinality(S)
    PROVE  \E p \in S : Cardinality({q \in S : q < p}) = k
<1> DEFINE Below(p) == {q \in S : q < p}
           upTo(p) == Below(p) \cup {p}
           Far == {p \in S : k <= Cardinality(Below(p))}
           T == {upTo(p) : p \in Far}
<1>1. \A p \in S : IsFiniteSet(Below(p)) /\ Cardinality(Below(p)) \in Nat
  <2> SUFFICES ASSUME NEW p \in S
               PROVE  IsFiniteSet(Below(p)) /\ Cardinality(Below(p)) \in Nat
    BY Zenon
  <2>1. Below(p) \in SUBSET S
    BY Zenon
  <2> HIDE DEF Below
  <2> QED
    BY <2>1, FS_Subset, FS_CardinalityType, Zenon
<1>2. Far # {}
  <2>1. Cardinality(S) \in Nat /\ S # {}
    BY FS_CardinalityType, FS_EmptySet
  <2>2. PICK m \in S : \A q \in S : q <= m
    BY <2>1, LastExists, Zenon
  <2>3. Below(m) = S \ {m}
    <3>1. \A q \in S : q < m <=> q # m
      BY <2>2, SMT
    <3>2. \A x : x \in Below(m) <=> x \in S \ {m}
      BY <3>1, Zenon
    <3> HIDE DEF Below
    <3> QED
      BY <3>2, Zenon
  <2>4. Cardinality(S \ {m}) = Cardinality(S) - 1
    BY FS_RemoveElement, Zenon
  <2>5. k <= Cardinality(Below(m))
    <3> HIDE DEF Below
    <3> QED
      BY <2>1, <2>3, <2>4, SMT
  <2> QED
    BY <2>5, Zenon
<1>3. PICK p \in Far : \A r \in Far : upTo(r) \subseteq upTo(p) => upTo(r) = upTo(p)
  <2>0. \A r \in S : upTo(r) \subseteq S
    BY Zenon
  <2>1. T \in SUBSET (SUBSET S) /\ T # {}
    <3> HIDE DEF upTo, Far
    <3>1. PICK r \in Far : TRUE
      BY <1>2, Zenon
    <3>2. upTo(r) \in T /\ \A u \in T : u \subseteq S
      BY <2>0, Zenon DEF Far
    <3> HIDE DEF T
    <3> QED
      BY <3>2, Zenon
  <2>2. PICK t \in T : \A u \in T : u \subseteq t => u = t
    <3>1. Peelable(S)
      BY FiniteIsPeelable, Zenon
    <3> HIDE DEF T
    <3> QED
      BY <2>1, <3>1, Zenon DEF Peelable
  <2> HIDE DEF upTo, Far
  <2>3. PICK p \in Far : t = upTo(p)
    BY Zenon
  <2>4. \A r \in Far : upTo(r) \in T
    BY Zenon
  <2> HIDE DEF T
  <2> QED
    BY <2>2, <2>3, <2>4, Zenon
<1>4. ASSUME k < Cardinality(Below(p))
      PROVE  FALSE
  <2>1. Below(p) # {}
    <3>1. Cardinality({}) = 0
      BY FS_EmptySet, Zenon
    <3> HIDE DEF Below
    <3>2. CASE Below(p) = {}
      BY <1>4, <3>1, <3>2, SMT
    <3> QED
      BY <3>2, Zenon
  <2>2. Below(p) \in SUBSET Int /\ Below(p) \in SUBSET S
    BY Zenon
  <2>3. PICK m \in Below(p) : \A q \in Below(p) : q <= m
    <3> HIDE DEF Below
    <3> QED
      BY <1>1, <2>1, <2>2, LastExists, Zenon
  <2>4. m \in S /\ m < p /\ m \in Int /\ p \in Int
    BY Zenon
  <2>5. Below(m) = Below(p) \ {m}
    <3>1. \A q \in S : q < p => q <= m
      BY <2>3, Zenon
    <3>2. \A q \in S : q < m <=> q < p /\ q # m
      BY <2>4, <3>1, SMT
    <3>3. \A x : x \in Below(m) <=> x \in Below(p) \ {m}
      BY <3>2, Zenon
    <3> HIDE DEF Below
    <3> QED
      BY <3>3, Zenon
  <2>6. Cardinality(Below(m)) = Cardinality(Below(p)) - 1
    <3> HIDE DEF Below
    <3> QED
      BY <1>1, <2>5, FS_RemoveElement, Zenon
  <2>7. m \in Far
    <3>1. k <= Cardinality(Below(m))
      <4> HIDE DEF Below
      <4> QED
        BY <1>1, <1>4, <2>6, SMT
    <3> QED
      BY <2>4, <3>1, Zenon
  <2>8. upTo(m) = Below(p)
    BY <2>3, <2>5, SMT
  <2>9. p \notin Below(p) /\ p \in upTo(p) /\ Below(p) \subseteq upTo(p)
    BY <2>4, SMT
  <2> QED
    BY <1>3, <2>7, <2>8, <2>9, Zenon
<1>5. p \in S /\ k <= Cardinality(Below(p))
  BY Zenon
<1>6. Cardinality(Below(p)) = k
  <2> HIDE DEF Below
  <2> QED
    BY <1>1, <1>4, <1>5, SMT
<1> QED
  BY <1>5, <1>6, Zenon

\* There are finitely many places.
LEMMA FinitePlaces ==
    ASSUME NEW S, S \subseteq Places
    PROVE  IsFiniteSet(S) /\ S \in SUBSET Int
<1>1. 1 \in Int /\ MaxPlace \in Int
  BY SweepAssumption, SMT
<1>2. IsFiniteSet(1..MaxPlace)
  BY <1>1, FS_Interval, Zenon
<1>3. S \in SUBSET (1..MaxPlace)
  BY Zenon DEF Places
<1>4. IsFiniteSet(S)
  BY <1>2, <1>3, FS_Subset, Zenon
<1>5. \A x \in 1..MaxPlace : x \in Int
  BY <1>1, SMT
<1> QED
  BY <1>3, <1>4, <1>5, Zenon

\* The riskiest class is not empty while commands are unresolved.
LEMMA TopClassExists ==
    ASSUME Unresolved # {}
    PROVE  TopClass # {}
<1> DEFINE U == Unresolved
           f == [p \in U |-> CandidatePriority(rows[p])]
<1>1. IsFiniteSet(U)
  BY FinitePlaces, Zenon DEF Unresolved
<1>2. \A kind : CandidatePriority(kind) \in Int
  BY SMT DEF CandidatePriority
<1>3. f \in [U -> Int] /\ \A p \in U : f[p] = CandidatePriority(rows[p])
  BY <1>2, Zenon
<1>4. PICK p \in U : \A q \in U : f[p] <= f[q]
  <2> HIDE DEF f, U
  <2> QED
    BY <1>1, <1>3, LeastBy, Zenon DEF U
<1> HIDE DEF f
<1>5. p \in TopClass
  BY <1>3, <1>4, Zenon DEF TopClass
<1> QED
  BY <1>5, Zenon

\* _full_quantum_candidates has a head, and it is of the riskiest class.
LEMMA FirstIsTop ==
    ASSUME minute \in 0..Horizon - 1, Unresolved # {}
    PROVE  FirstCandidate \in TopClass
<1> DEFINE n == Cardinality(TopClass)
           k == minute % n
<1>1. TopClass # {} /\ TopClass \in SUBSET Places
  BY TopClassExists, Zenon DEF TopClass, Unresolved
<1>2. IsFiniteSet(TopClass) /\ TopClass \in SUBSET Int
  BY <1>1, FinitePlaces, Zenon
<1>3. n \in Nat /\ n # 0
  BY <1>1, <1>2, FS_CardinalityType, FS_EmptySet, Zenon
<1>4. k \in Nat /\ k < n
  <2>1. minute \in Nat
    <3>1. Horizon \in Nat
      BY SweepAssumption, Zenon
    <3> QED
      BY <3>1, SMT
  <2> HIDE DEF n
  <2> QED
    BY <1>3, <2>1, SMT
<1>5. \E p \in TopClass : Cardinality({q \in TopClass : q < p}) = k
  <2> HIDE DEF k
  <2> QED
    BY <1>2, <1>4, RankExists, Zenon
<1> QED
  BY <1>5, Zenon DEF FirstCandidate, Older

-----------------------------------------------------------------------------
(* Types. *)

\* A place that is given out is new: the rows above the newest are free.
RowTypes ==
    /\ rows \in [Places -> Kinds \cup {NoRow}]
    /\ newest \in Places \cup {None}
    /\ \A p \in Places : p > newest => rows[p] = NoRow

\* Freeing a place keeps the rows in order.
LEMMA FreeKeepsRows ==
    ASSUME RowTypes, NEW p, rows' = [rows EXCEPT ![p] = NoRow], newest' = newest
    PROVE  RowTypes'
BY Zenon DEF RowTypes

\* So does taking the next place.
LEMMA TakeKeepsRows ==
    ASSUME RowTypes, NEW r \in [Places -> Kinds \cup {NoRow}],
           \A p \in Places : p > newest => r[p] = NoRow,
           newest + 1 \in Places, NEW kind \in Kinds,
           newest' = newest + 1, rows' = [r EXCEPT ![newest + 1] = kind]
    PROVE  RowTypes'
<1>1. newest \in Int /\ \A p \in Places : p \in Int
  BY SweepAssumption, SMT DEF RowTypes, Places, None
<1>2. \A p \in Places : p > newest + 1 => p > newest /\ p # newest + 1
  BY <1>1, SMT
<1>3. rows' \in [Places -> Kinds \cup {NoRow}]
  BY Zenon
<1>4. \A p \in Places : p > newest' => rows'[p] = NoRow
  BY <1>2, Zenon
<1> QED
  BY <1>3, <1>4, Zenon DEF RowTypes, Places, None

\* Whatever a quantum makes of its command keeps the rows in order.
LEMMA AppliedKeepsRows ==
    ASSUME RowTypes, NEW p, Applied(p)
    PROVE  RowTypes'
<1>1. CASE UNCHANGED rowVars
  BY <1>1, Zenon DEF RowTypes, rowVars
<1>2. CASE rows' = [rows EXCEPT ![p] = NoRow] /\ UNCHANGED newest
  BY <1>2, FreeKeepsRows, Zenon
<1>3. ASSUME NEW kind \in Kinds, newest + 1 \in Places, newest' = newest + 1,
             rows' = [rows EXCEPT ![p] = NoRow, ![newest + 1] = kind]
      PROVE  RowTypes'
  <2> DEFINE r == [rows EXCEPT ![p] = NoRow]
  <2>1. /\ r \in [Places -> Kinds \cup {NoRow}]
        /\ \A q \in Places : q > newest => r[q] = NoRow
    BY Zenon DEF RowTypes
  <2>2. rows' = [r EXCEPT ![newest + 1] = kind]
    BY <1>3, Zenon
  <2> HIDE DEF r
  <2> QED
    BY <1>3, <2>1, <2>2, TakeKeepsRows, Zenon
<1> QED
  BY <1>1, <1>2, <1>3, Zenon DEF Applied

\* Every step keeps the rows in order.
LEMMA RowTypesStep ==
    ASSUME RowTypes, [Next]_vars
    PROVE  RowTypes'
<1>1. CASE \/ Tick \/ ReturnEarly \/ BucketDone \/ SkipDeferred \/ DeadlineExhausted
           \/ SweepCutShort \/ Restart \/ UNCHANGED vars
  <2>1. UNCHANGED rowVars
    BY <1>1, Zenon DEF Tick, ReturnEarly, BucketDone, SkipDeferred, DeadlineExhausted,
                       SweepCutShort, Restart, vars
  <2> QED
    BY <2>1, Zenon DEF RowTypes, rowVars
<1>2. ASSUME NEW followed \in BOOLEAN, FullSweep(followed)
      PROVE  RowTypes'
  <2>1. UNCHANGED rowVars \/ Applied(FirstCandidate)
    BY <1>2, Zenon DEF FullSweep
  <2> QED
    BY <2>1, AppliedKeepsRows, Zenon DEF Applied
<1>3. ASSUME NEW kind \in Kinds, Arrive(kind)
      PROVE  RowTypes'
  BY <1>3, TakeKeepsRows, Zenon DEF Arrive, RowTypes
<1>4. ASSUME NEW p \in Places, ResolvedElsewhere(p)
      PROVE  RowTypes'
  BY <1>4, FreeKeepsRows, Zenon DEF ResolvedElsewhere
<1> QED
  BY <1>1, <1>2, <1>3, <1>4, Zenon DEF Next, Cycle

\* The marks of the cycle have their types; the quantum is a place.
MarkTypes ==
    /\ lastFull \in BOOLEAN
    /\ well \in BOOLEAN
    /\ quantum \in Places \cup {None}
    /\ restarts \in 0..MaxRestarts

\* No step takes them out of their types.
LEMMA MarkTypesStep ==
    ASSUME MarkTypes, minute \in 0..Horizon - 1, [Next]_vars
    PROVE  MarkTypes'
<1>1. CASE Tick
  BY <1>1, Zenon DEF Tick, MarkTypes, bucketVars
<1>2. CASE ReturnEarly \/ BucketDone \/ SkipDeferred \/ DeadlineExhausted \/ SweepCutShort
  BY <1>2, Zenon DEF ReturnEarly, BucketDone, SkipDeferred, DeadlineExhausted,
                     SweepCutShort, Ended, MarkTypes, bucketVars
<1>3. ASSUME NEW followed \in BOOLEAN, FullSweep(followed)
      PROVE  MarkTypes'
  <2>1. quantum' \in Places \cup {None}
    BY <1>3, FirstIsTop, Zenon DEF FullSweep, TopClass, Unresolved
  <2>2. lastFull' \in BOOLEAN
    BY <1>3, Zenon DEF FullSweep
  <2>3. well' = followed /\ restarts' = restarts
    BY <1>3, Zenon DEF FullSweep, Ended
  <2> QED
    BY <2>1, <2>2, <2>3, Zenon DEF MarkTypes
<1>4. CASE Restart
  <2>1. restarts' \in 0..MaxRestarts
    <3>1. /\ restarts \in 0..MaxRestarts /\ restarts < MaxRestarts
          /\ restarts' = restarts + 1 /\ MaxRestarts \in Nat
      BY <1>4, SweepAssumption, Zenon DEF Restart, MarkTypes
    <3> QED
      BY <3>1, SMT
  <2> QED
    BY <1>4, <2>1, Zenon DEF Restart, MarkTypes
<1>5. CASE \/ UNCHANGED vars
           \/ \E kind \in Kinds : Arrive(kind)
           \/ \E p \in Places : ResolvedElsewhere(p)
  BY <1>5, Zenon DEF vars, Arrive, ResolvedElsewhere, bucketVars, MarkTypes
<1> QED
  BY <1>1, <1>2, <1>3, <1>4, <1>5, Zenon DEF Next, Cycle

\* For any number of commands, clock length and number of restarts: the clock,
\* the marks and the rows keep their types, a command never takes a place that
\* is taken, and every quantum is a place.
THEOREM TypeCorrect == Spec => []TypeOK
<1>1. Init => RowTypes /\ MarkTypes
  <2> SUFFICES ASSUME Init
               PROVE  RowTypes /\ MarkTypes
    OBVIOUS
  <2>1. /\ Backlog \in Places \cup {None} /\ 0 \in 0..MaxRestarts
    BY SweepAssumption, SMT DEF Places, None
  <2>2. RowTypes
    BY <2>1, Zenon DEF Init, RowTypes
  <2>3. MarkTypes
    BY <2>1, Zenon DEF Init, MarkTypes
  <2> QED
    BY <2>2, <2>3, Zenon
<1>2. CadenceTypes /\ MarkTypes /\ [Next]_vars => MarkTypes'
  BY MarkTypesStep, Zenon DEF CadenceTypes
<1>3. CadenceTypes /\ RowTypes /\ MarkTypes => TypeOK
  BY Zenon DEF CadenceTypes, RowTypes, MarkTypes, TypeOK
<1> QED
  BY <1>1, <1>2, <1>3, CadenceInit, CadenceStep, RowTypesStep, PTL DEF Spec

\* A sweep applies a command of the riskiest class that has one, whatever the
\* minute: the rotation never reaches below the class.
THEOREM QuantumIsRiskiest ==
    Spec => [][quantum' # None /\ quantum' # quantum => quantum' \in TopClass]_vars
<1>1. CadenceTypes /\ [Next]_vars =>
        [quantum' # None /\ quantum' # quantum => quantum' \in TopClass]_vars
  <2> SUFFICES ASSUME CadenceTypes, Next, quantum' # None, quantum' # quantum
               PROVE  quantum' \in TopClass
    BY Zenon
  <2>1. PICK followed \in BOOLEAN : FullSweep(followed)
    BY Zenon DEF Next, Cycle, Tick, ReturnEarly, BucketDone, SkipDeferred,
                 DeadlineExhausted, SweepCutShort, Restart, Arrive, ResolvedElsewhere
  <2> QED
    BY <2>1, FirstIsTop, Zenon DEF FullSweep, CadenceTypes
<1> QED
  BY <1>1, CadenceInit, CadenceStep, PTL DEF Spec
==============================================================================
