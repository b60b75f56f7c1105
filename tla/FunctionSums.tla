---------------------------- MODULE FunctionSums ----------------------------
(***************************************************************************)
(* What the proofs need to know of SumFunction, the community modules' sum *)
(* of the values of a function with a finite domain.                       *)
(*                                                                         *)
(* SumFunction peels the elements of the domain one at a time, in an order *)
(* that depends on the domain only.  Two sums over the same domain         *)
(* therefore run in lockstep, and every fact below follows by induction    *)
(* along that order; no fact depends on what the order is.                 *)
(***************************************************************************)
EXTENDS Integers, Sequences, FiniteSets, Functions, WellFoundedInduction, TLAPS

\* The element that the sum takes out of s first.
Pick(s) == CHOOSE x \in s : TRUE

\* r is the table of the sums of f over the subsets of S.
SumTable(f, S, r) ==
    r = [s \in SUBSET S |-> IF s = {} THEN 0 ELSE f[Pick(s)] + r[s \ {Pick(s)}]]

-----------------------------------------------------------------------------
(* Induction along the order in which a sum takes its elements. *)

\* What is taken out of a set was in it.
LEMMA PickIsMember ==
    ASSUME NEW s, s # {}
    PROVE  Pick(s) \in s
  BY Zenon DEF Pick

\* Every family of subsets of S has a minimal member, as when S is finite.
Peelable(S) ==
    \A T \in SUBSET (SUBSET S) : T # {} => \E t \in T : \A u \in T : u \subseteq t => u = t

\* A subset of such a set is such a set.
LEMMA PeelableSubset ==
    ASSUME NEW S, Peelable(S), NEW A, A \subseteq S
    PROVE  Peelable(A)
  <1> SUFFICES ASSUME NEW T \in SUBSET (SUBSET A), T # {}
               PROVE  \E t \in T : \A u \in T : u \subseteq t => u = t
    BY Zenon DEF Peelable
  <1>1. T \in SUBSET (SUBSET S)
    OBVIOUS
  <1> QED
    BY <1>1, Zenon DEF Peelable

\* One more element: the least member without it, if there is one; otherwise the
\* least of what the members are beside it.
LEMMA PeelableWith ==
    ASSUME NEW A, Peelable(A), NEW a
    PROVE  Peelable(A \cup {a})
  <1> SUFFICES ASSUME NEW T \in SUBSET (SUBSET (A \cup {a})), T # {}
               PROVE  \E t \in T : \A u \in T : u \subseteq t => u = t
    BY Zenon DEF Peelable
  <1>1. CASE \E t \in T : a \notin t
    <2> DEFINE T0 == {t \in T : a \notin t}
    <2>1. T0 \in SUBSET (SUBSET A) /\ T0 # {}
      BY <1>1
    <2>2. PICK t \in T0 : \A u \in T0 : u \subseteq t => u = t
      BY <2>1, Zenon DEF Peelable
    <2>3. ASSUME NEW u \in T, u \subseteq t
          PROVE  u = t
      <3>1. u \in T0
        BY <2>3, Zenon
      <3> QED
        BY <2>2, <2>3, <3>1, Zenon
    <2> QED
      BY <2>3, Zenon
  <1>2. CASE \A t \in T : a \in t
    <2> DEFINE T1 == {t \ {a} : t \in T}
    <2>1. T1 \in SUBSET (SUBSET A) /\ T1 # {}
      OBVIOUS
    <2>2. PICK s \in T1 : \A u \in T1 : u \subseteq s => u = s
      BY <2>1, Zenon DEF Peelable
    <2>3. PICK t \in T : s = t \ {a}
      BY Zenon
    <2>4. ASSUME NEW u \in T, u \subseteq t
          PROVE  u = t
      <3>1. u \ {a} \in T1 /\ u \ {a} \subseteq s
        BY <2>3, <2>4, Zenon
      <3>2. u \ {a} = t \ {a}
        BY <2>2, <2>3, <3>1, Zenon
      <3>3. a \in u /\ a \in t
        BY <1>2, Zenon
      <3>4. \A x : x \in u <=> x \in t
        BY <3>2, <3>3, SMT
      <3> QED
        BY <3>4, SMT
    <2> QED
      BY <2>4, Zenon
  <1> QED
    BY <1>1, <1>2, Zenon

\* A finite set is such a set: by induction on the length of an enumeration.
LEMMA FiniteIsPeelable ==
    ASSUME NEW S, IsFiniteSet(S)
    PROVE  Peelable(S)
  <1>1. PICK seq \in Seq(S) : \A s \in S : \E n \in 1..Len(seq) : seq[n] = s
    BY Zenon DEF IsFiniteSet
  <1> DEFINE A(n) == {seq[i] : i \in 1..n}
             Less == {ss \in Nat \X Nat : ss[1] < ss[2]}
             Bad == {n \in Nat : ~ Peelable(A(n))}
  <1>2. Bad = {}
    <2> SUFFICES ASSUME Bad # {}
                 PROVE  FALSE
      BY Zenon
    <2>1. IsWellFoundedOn(Less, Nat)
      BY NatLessThanWellFounded DEF OpToRel
    <2>2. PICK n \in Bad : \A m \in Bad : ~ (<<m, n>> \in Less)
      <3>1. Bad \subseteq Nat
        BY Zenon
      <3> HIDE DEF Bad, Less
      <3> QED
        BY <2>1, <3>1, WFMin, Zenon
    <2>3. CASE n = 0
      <3>1. A(n) = {}
        BY <2>3
      <3>2. Peelable({})
        <4> SUFFICES ASSUME NEW T \in SUBSET (SUBSET {}), T # {}
                     PROVE  \E t \in T : \A w \in T : w \subseteq t => w = t
          BY Zenon DEF Peelable
        <4>1. \A t \in T : t = {}
          BY SMT
        <4>2. PICK t \in T : TRUE
          BY Zenon
        <4>3. \A w \in T : w = t
          BY <4>1, Zenon
        <4> QED
          BY <4>3, Zenon
      <3> QED
        BY <3>1, <3>2, Zenon
    <2>4. CASE n # 0
      <3>1. n - 1 \in Nat /\ <<n - 1, n>> \in Less
        BY <2>4
      <3>2. Peelable(A(n - 1))
        BY <2>2, <3>1, Zenon
      <3>3. A(n) = A(n - 1) \cup {seq[n]}
        BY <2>4
      <3>4. Peelable(A(n - 1) \cup {seq[n]})
        <4> HIDE DEF A
        <4> QED
          BY <3>2, PeelableWith, Zenon
      <3> QED
        BY <3>3, <3>4, Zenon
    <2> QED
      BY <2>3, <2>4, Zenon
  <1>3. Len(seq) \in Nat /\ S \subseteq A(Len(seq))
    BY <1>1
  <1>4. Peelable(A(Len(seq)))
    BY <1>2, <1>3, Zenon
  <1> HIDE DEF A
  <1> QED
    BY <1>3, <1>4, PeelableSubset, Zenon

\* A property that a set has whenever its proper subsets have it, is a property
\* of every subset of S.
LEMMA SubsetInduction ==
    ASSUME NEW S, Peelable(S), NEW P,
           \A t \in SUBSET S : (\A u \in SUBSET t : u # t => u \in P) => t \in P
    PROVE  \A t \in SUBSET S : t \in P
  <1> DEFINE T == {t \in SUBSET S : t \notin P}
  <1> SUFFICES ASSUME T # {}
               PROVE  FALSE
    BY Zenon
  <1>1. PICK t \in T : \A u \in T : u \subseteq t => u = t
    <2>1. T \in SUBSET (SUBSET S)
      BY Zenon
    <2> HIDE DEF T
    <2> QED
      BY <2>1, Zenon DEF Peelable
  <1>2. \A u \in SUBSET t : u # t => u \in P
    BY <1>1
  <1> QED
    BY <1>2, Zenon

\* A property that {} has, and that a set has whenever what Pick leaves of it has
\* it, is a property of every subset of S.
LEMMA PeelInduction ==
    ASSUME NEW S, Peelable(S), NEW P, {} \in P,
           \A s \in SUBSET S : s # {} /\ s \ {Pick(s)} \in P => s \in P
    PROVE  \A s \in SUBSET S : s \in P
  <1>1. ASSUME NEW t \in SUBSET S, \A u \in SUBSET t : u # t => u \in P
        PROVE  t \in P
    <2>1. CASE t = {}
      BY <2>1, Zenon
    <2>2. CASE t # {}
      <3>1. t \ {Pick(t)} \in SUBSET t /\ t \ {Pick(t)} # t
        BY <2>2, PickIsMember
      <3> QED
        BY <1>1, <2>2, <3>1, Zenon
    <2> QED
      BY <2>1, <2>2, Zenon
  <1> QED
    BY <1>1, SubsetInduction, Zenon

-----------------------------------------------------------------------------
(* The table of sums exists, and there is one. *)

\* r sums f over every subset of S, taking the elements one by one.
PeelsInto(f, S, r) ==
    /\ r[{}] = 0
    /\ \A s \in SUBSET S : s # {} => r[s] = f[Pick(s)] + r[s \ {Pick(s)}]

\* A table read at one subset.
LEMMA TableAt ==
    ASSUME NEW f, NEW S, NEW r, SumTable(f, S, r)
    PROVE  PeelsInto(f, S, r)
  <1> DEFINE E(t) == IF t = {} THEN 0 ELSE f[Pick(t)] + r[t \ {Pick(t)}]
  <1>1. r = [t \in SUBSET S |-> E(t)]
    BY Zenon DEF SumTable
  <1>2. r[{}] = 0
    BY <1>1
  <1>3. ASSUME NEW s \in SUBSET S, s # {}
        PROVE  r[s] = f[Pick(s)] + r[s \ {Pick(s)}]
    <2> HIDE DEF E
    <2>1. r[s] = E(s)
      BY <1>1, Zenon
    <2> QED
      BY <1>3, <2>1, Zenon DEF E
  <1> QED
    BY <1>2, <1>3, Zenon DEF PeelsInto

\* There is at most one table.
LEMMA TablesAgree ==
    ASSUME NEW f, NEW S, Peelable(S), NEW S1, NEW S2, NEW r1, NEW r2,
           SumTable(f, S1, r1), SumTable(f, S2, r2), S \subseteq S1, S \subseteq S2
    PROVE  \A s \in SUBSET S : r1[s] = r2[s]
  <1> DEFINE P == {s \in SUBSET S : r1[s] = r2[s]}
  <1>0. PeelsInto(f, S1, r1) /\ PeelsInto(f, S2, r2)
    BY TableAt, Zenon
  <1>1. {} \in P
    BY <1>0, Zenon DEF PeelsInto
  <1>2. ASSUME NEW s \in SUBSET S, s # {}, s \ {Pick(s)} \in P
        PROVE  s \in P
    <2>1. r1[s] = f[Pick(s)] + r1[s \ {Pick(s)}] /\ r2[s] = f[Pick(s)] + r2[s \ {Pick(s)}]
      <3>1. s \in SUBSET S1 /\ s \in SUBSET S2
        BY Zenon
      <3> QED
        BY <1>0, <1>2, <3>1, Zenon DEF PeelsInto
    <2> QED
      BY <1>2, <2>1, Zenon
  <1>3. \A s \in SUBSET S : s \in P
    <2> HIDE DEF P
    <2> QED
      BY <1>1, <1>2, PeelInduction, Zenon
  <1> QED
    BY <1>3, Zenon

\* There is one.
LEMMA TableExists ==
    ASSUME NEW f, NEW S, Peelable(S)
    PROVE  \E r : SumTable(f, S, r)
  <1> DEFINE V(s) == (CHOOSE r : SumTable(f, s, r))[s]
             G(t) == [s \in SUBSET t |-> IF s = {} THEN 0
                                        ELSE f[Pick(s)] + V(s \ {Pick(s)})]
             P == {t \in SUBSET S : \E r : SumTable(f, t, r)}
  <1>1. ASSUME NEW t \in SUBSET S,
               \A s \in SUBSET t : s # {} => \E r : SumTable(f, s \ {Pick(s)}, r)
        PROVE  SumTable(f, t, G(t))
    <2>1. ASSUME NEW s \in SUBSET t, s # {}
          PROVE  V(s \ {Pick(s)}) = G(t)[s \ {Pick(s)}]
      <3> DEFINE u == s \ {Pick(s)}
      <3>1. PICK r : SumTable(f, u, r) /\ V(u) = r[u]
        BY <1>1, <2>1, Zenon
      <3>2. PeelsInto(f, u, r)
        BY <3>1, TableAt, Zenon
      <3>3. CASE u = {}
        <4>1. r[u] = 0
          BY <3>3, <3>2, Zenon DEF PeelsInto
        <4> QED
          BY <3>1, <3>3, <4>1
      <3>4. CASE u # {}
        <4> DEFINE v == u \ {Pick(u)}
        <4>1. /\ u \in SUBSET t /\ u \in SUBSET u /\ v \in SUBSET u /\ v \in SUBSET v
              /\ v \subseteq S
          OBVIOUS
        <4>6. Peelable(v)
          <5> HIDE DEF u, v
          <5> QED
            BY <4>1, PeelableSubset, Zenon
        <4>2. r[u] = f[Pick(u)] + r[v]
          <5> HIDE DEF u
          <5> QED
            BY <3>4, <3>2, <4>1, Zenon DEF PeelsInto
        <4>3. PICK q : SumTable(f, v, q) /\ V(v) = q[v]
          BY <1>1, <3>4, <4>1, Zenon
        <4>4. r[v] = q[v]
          <5> HIDE DEF v, u
          <5> QED
            BY <3>1, <4>1, <4>3, <4>6, TablesAgree
        <4>5. G(t)[u] = f[Pick(u)] + V(v)
          BY <3>4, <4>1, Zenon
        <4> QED
          BY <3>1, <4>2, <4>3, <4>4, <4>5, Zenon
      <3> QED
        BY <3>3, <3>4, Zenon
    <2> DEFINE D(s) == IF s = {} THEN 0 ELSE f[Pick(s)] + V(s \ {Pick(s)})
               E(s) == IF s = {} THEN 0 ELSE f[Pick(s)] + G(t)[s \ {Pick(s)}]
    <2>2. \A s \in SUBSET t : D(s) = E(s)
      <3> HIDE DEF G, V
      <3> QED
        BY <2>1, Zenon
    <2>3. [s \in SUBSET t |-> D(s)] = [s \in SUBSET t |-> E(s)]
      <3> HIDE DEF D, E
      <3> QED
        BY <2>2, Zenon
    <2> QED
      BY <2>3, Zenon DEF SumTable
  <1>2. ASSUME NEW t \in SUBSET S, \A u \in SUBSET t : u # t => u \in P
        PROVE  t \in P
    <2>1. ASSUME NEW s \in SUBSET t, s # {}
          PROVE  s \ {Pick(s)} \in SUBSET t /\ s \ {Pick(s)} # t
      BY <2>1, PickIsMember
    <2>2. \A s \in SUBSET t : s # {} => \E r : SumTable(f, s \ {Pick(s)}, r)
      BY <1>2, <2>1, Zenon
    <2>3. SumTable(f, t, G(t))
      <3> HIDE DEF G
      <3> QED
        BY <1>1, <2>2, Zenon
    <2> QED
      BY <2>3, Zenon
  <1>3. \A t \in SUBSET S : t \in P
    <2> HIDE DEF P
    <2> QED
      BY <1>2, SubsetInduction, Zenon
  <1> QED
    BY <1>3, Zenon

-----------------------------------------------------------------------------
(* Sums. *)

\* The sum of f is the last of the partial sums r, which take the elements of
\* the domain one by one.
Adds(f, S, r) == SumFunction(f) = r[S] /\ PeelsInto(f, S, r)

\* SumFunction reads the table at the whole domain.
LEMMA SumIsTabled ==
    ASSUME NEW S, IsFiniteSet(S), NEW f \in [S -> Int]
    PROVE  \E r : Adds(f, S, r)
  <1>0. DOMAIN f = S
    OBVIOUS
  <1>1. SumFunction(f) = (CHOOSE r : SumTable(f, S, r))[S]
    BY <1>0, Zenon DEF SumFunction, SumFunctionOnSet, FoldFunctionOnSet, MapThenFoldSet,
       SumTable, Pick
  <1>2. PICK r : SumTable(f, S, r) /\ SumFunction(f) = r[S]
    BY <1>1, FiniteIsPeelable, TableExists, Zenon
  <1> QED
    BY <1>2, TableAt, Zenon DEF Adds

\* A sum of integers is an integer, and of natural numbers a natural number.
LEMMA SumIsInt ==
    ASSUME NEW S, IsFiniteSet(S), NEW f \in [S -> Int]
    PROVE  SumFunction(f) \in Int
  <1>1. PICK r : Adds(f, S, r)
    BY SumIsTabled
  <1> DEFINE P == {s \in SUBSET S : r[s] \in Int}
  <1>2. {} \in P
    BY <1>1 DEF Adds, PeelsInto
  <1>3. ASSUME NEW s \in SUBSET S, s # {}, s \ {Pick(s)} \in P
        PROVE  s \in P
    <2>1. r[s] = f[Pick(s)] + r[s \ {Pick(s)}]
      BY <1>1, <1>3, Zenon DEF Adds, PeelsInto
    <2>2. Pick(s) \in S
      BY <1>3, PickIsMember, Zenon
    <2> QED
      BY <1>3, <2>1, <2>2
  <1>4. \A s \in SUBSET S : s \in P
    <2> HIDE DEF P
    <2> QED
      BY <1>2, <1>3, FiniteIsPeelable, PeelInduction, Zenon
  <1> QED
    BY <1>1, <1>4 DEF Adds

\* A sum grows with its terms.
LEMMA SumIsMonotone ==
    ASSUME NEW S, IsFiniteSet(S), NEW f \in [S -> Int], NEW g \in [S -> Int],
           \A x \in S : f[x] <= g[x]
    PROVE  SumFunction(f) <= SumFunction(g)
  <1>1. PICK p : Adds(f, S, p)
    BY SumIsTabled
  <1>2. PICK q : Adds(g, S, q)
    BY SumIsTabled
  <1> DEFINE P == {s \in SUBSET S : p[s] \in Int /\ q[s] \in Int /\ p[s] <= q[s]}
  <1>3. {} \in P
    BY <1>1, <1>2 DEF Adds, PeelsInto
  <1>4. ASSUME NEW s \in SUBSET S, s # {}, s \ {Pick(s)} \in P
        PROVE  s \in P
    <2>1. p[s] = f[Pick(s)] + p[s \ {Pick(s)}]
      BY <1>1, <1>4, Zenon DEF Adds, PeelsInto
    <2>2. q[s] = g[Pick(s)] + q[s \ {Pick(s)}]
      BY <1>2, <1>4, Zenon DEF Adds, PeelsInto
    <2>3. Pick(s) \in S
      BY <1>4, PickIsMember, Zenon
    <2> QED
      BY <1>4, <2>1, <2>2, <2>3
  <1>5. \A s \in SUBSET S : s \in P
    <2> HIDE DEF P
    <2> QED
      BY <1>3, <1>4, FiniteIsPeelable, PeelInduction, Zenon
  <1> QED
    BY <1>1, <1>2, <1>5 DEF Adds

\* The sum of two functions, term by term, is the sum of their sums.
LEMMA SumAdds ==
    ASSUME NEW S, IsFiniteSet(S), NEW f \in [S -> Int], NEW g \in [S -> Int],
           NEW h \in [S -> Int], \A x \in S : h[x] = f[x] + g[x]
    PROVE  SumFunction(h) = SumFunction(f) + SumFunction(g)
  <1>1. PICK p : Adds(f, S, p)
    BY SumIsTabled
  <1>2. PICK q : Adds(g, S, q)
    BY SumIsTabled
  <1>3. PICK r : Adds(h, S, r)
    BY SumIsTabled
  <1> DEFINE P == {s \in SUBSET S : p[s] \in Int /\ q[s] \in Int /\ r[s] = p[s] + q[s]}
  <1>4. {} \in P
    BY <1>1, <1>2, <1>3 DEF Adds, PeelsInto
  <1>5. ASSUME NEW s \in SUBSET S, s # {}, s \ {Pick(s)} \in P
        PROVE  s \in P
    <2>1. p[s] = f[Pick(s)] + p[s \ {Pick(s)}]
      BY <1>1, <1>5, Zenon DEF Adds, PeelsInto
    <2>2. q[s] = g[Pick(s)] + q[s \ {Pick(s)}]
      BY <1>2, <1>5, Zenon DEF Adds, PeelsInto
    <2>3. r[s] = h[Pick(s)] + r[s \ {Pick(s)}]
      BY <1>3, <1>5, Zenon DEF Adds, PeelsInto
    <2>4. Pick(s) \in S
      BY <1>5, PickIsMember, Zenon
    <2> QED
      BY <1>5, <2>1, <2>2, <2>3, <2>4
  <1>6. \A s \in SUBSET S : s \in P
    <2> HIDE DEF P
    <2> QED
      BY <1>4, <1>5, FiniteIsPeelable, PeelInduction, Zenon
  <1> QED
    BY <1>1, <1>2, <1>3, <1>6 DEF Adds

\* A function that is 0 but at one place sums to its value there.
LEMMA SumOfOne ==
    ASSUME NEW S, IsFiniteSet(S), NEW x \in S, NEW f \in [S -> Int],
           \A y \in S : y # x => f[y] = 0
    PROVE  SumFunction(f) = f[x]
  <1>1. PICK r : Adds(f, S, r)
    BY SumIsTabled
  <1> DEFINE P == {s \in SUBSET S : r[s] = IF x \in s THEN f[x] ELSE 0}
  <1>2. {} \in P
    BY <1>1 DEF Adds, PeelsInto
  <1>3. ASSUME NEW s \in SUBSET S, s # {}, s \ {Pick(s)} \in P
        PROVE  s \in P
    <2>1. r[s] = f[Pick(s)] + r[s \ {Pick(s)}]
      BY <1>1, <1>3, Zenon DEF Adds, PeelsInto
    <2>2. Pick(s) \in S /\ Pick(s) \in s
      BY <1>3, PickIsMember, Zenon
    <2> QED
      BY <1>3, <2>1, <2>2
  <1>4. \A s \in SUBSET S : s \in P
    <2> HIDE DEF P
    <2> QED
      BY <1>2, <1>3, FiniteIsPeelable, PeelInduction, Zenon
  <1> QED
    BY <1>1, <1>4 DEF Adds

\* The sum of nothing but zeros.
LEMMA SumOfZeros ==
    ASSUME NEW S, IsFiniteSet(S), NEW f \in [S -> Int], \A y \in S : f[y] = 0
    PROVE  SumFunction(f) = 0
  <1> DEFINE n == SumFunction(f)
  <1>1. n \in Int
    BY SumIsInt, Zenon
  <1>2. n = n + n
    <2>1. \A y \in S : f[y] = f[y] + f[y]
      OBVIOUS
    <2>2. SumFunction(f) = SumFunction(f) + SumFunction(f)
      BY <2>1, SumAdds, Zenon
    <2> QED
      BY <2>2, Zenon
  <1> HIDE DEF n
  <1>3. n = 0
    BY <1>1, <1>2
  <1> QED
    BY <1>3, Zenon DEF n

\* What changes at one place changes the sum by the same amount.
LEMMA SumOfChange ==
    ASSUME NEW S, IsFiniteSet(S), NEW x \in S, NEW f \in [S -> Int], NEW g \in [S -> Int],
           \A y \in S : y # x => g[y] = f[y]
    PROVE  SumFunction(g) = SumFunction(f) + (g[x] - f[x])
  <1> DEFINE d == [y \in S |-> IF y = x THEN g[x] - f[x] ELSE 0]
  <1>1. d \in [S -> Int] /\ d[x] = g[x] - f[x] /\ \A y \in S : y # x => d[y] = 0
    OBVIOUS
  <1> HIDE DEF d
  <1>2. SumFunction(d) = d[x]
    BY <1>1, SumOfOne
  <1>3. \A y \in S : g[y] = f[y] + d[y]
    BY <1>1
  <1>4. SumFunction(g) = SumFunction(f) + SumFunction(d)
    <2>1. d \in [S -> Int]
      BY <1>1, Zenon
    <2> QED
      BY <1>3, <2>1, SumAdds
  <1> QED
    BY <1>1, <1>2, <1>4 DEF Adds
=============================================================================
