----------------------------- MODULE SumTheorems -----------------------------
(***************************************************************************)
(* Sums over finite sets, and induction over the numbers, in a form every  *)
(* prover can use: a set of numbers instead of a predicate, a function     *)
(* instead of an operator.                                                 *)
(***************************************************************************)
EXTENDS Integers, FiniteSetsExt, FiniteSetTheorems, WellFoundedInduction, TLAPS

\* Induction: a set that holds zero and the successor of every number it holds
\* holds every number.
LEMMA NumberInduction ==
    ASSUME NEW T, 0 \in T, \A n \in Nat : n \in T => n + 1 \in T
    PROVE  \A n \in Nat : n \in T
<1> DEFINE R == {n \in Nat : n \notin T}
<1> SUFFICES ASSUME R # {} PROVE FALSE
  OBVIOUS
<1>1. PICK x \in R : \A y \in R : ~(<<y, x>> \in OpToRel(<, Nat))
  BY WFMin, NatLessThanWellFounded
<1>2. \A y \in R : ~(y < x)
  BY <1>1 DEF OpToRel
<1>3. x \in Nat /\ x \notin T
  BY <1>1
<1>4. x - 1 \in Nat /\ (x - 1) + 1 = x
  <2>1. x # 0
    BY <1>3
  <2> QED
    BY <1>3, <2>1
<1>5. x - 1 \in T
  BY <1>2, <1>3, <1>4
<1> QED
  BY <1>3, <1>4, <1>5

-----------------------------------------------------------------------------
(* A sum is the last value of a table of partial sums.                     *)

\* The element a sum takes first.
Pick(s) == CHOOSE x \in s : TRUE

\* The sum of g over a set.
Add(g, S) == MapThenSumSet(LAMBDA x : g[x], S)

\* f is the table of the sums of g over the subsets of S.
IsTable(g, S, f) ==
    f = [s \in SUBSET S |-> IF s = {} THEN 0 ELSE g[Pick(s)] + f[s \ {Pick(s)}]]

Table(g, S) == CHOOSE f : IsTable(g, S, f)

\* A sum is the entry of the whole set.
LEMMA AddIsTable ==
    ASSUME NEW g, NEW S
    PROVE  Add(g, S) = Table(g, S)[S]
BY DEF Add, MapThenSumSet, MapThenFoldSet, Table, IsTable, Pick

\* The element taken first is one of the set.
LEMMA PickIsMember ==
    ASSUME NEW s, s # {}
    PROVE  Pick(s) \in s
BY DEF Pick

\* A table as far as the sets of at most n elements.
IsPart(g, S, n, f) ==
    f = [s \in {u \in SUBSET S : Cardinality(u) <= n} |->
            IF s = {} THEN 0 ELSE g[Pick(s)] + f[s \ {Pick(s)}]]

\* There is a table of the partial sums over the subsets of any size.
LEMMA PartExists ==
    ASSUME NEW g, NEW S, IsFiniteSet(S)
    PROVE  \A n \in Nat : \E f : IsPart(g, S, n, f)
<1> DEFINE Small(n) == {u \in SUBSET S : Cardinality(u) <= n}
           T == {n \in Nat : \E f : IsPart(g, S, n, f)}
<1>0. \A u \in SUBSET S : IsFiniteSet(u) /\ Cardinality(u) \in Nat
  BY FS_Subset, FS_CardinalityType
<1>1. 0 \in T
  <2> DEFINE f == [s \in Small(0) |-> 0]
  <2>1. \A s \in Small(0) : s = {}
    BY <1>0, FS_EmptySet
  <2>2. IsPart(g, S, 0, f)
    BY <2>1 DEF IsPart
  <2> QED
    BY <2>2
<1>2. ASSUME NEW n \in Nat, n \in T PROVE n + 1 \in T
  <2>1. PICK f : IsPart(g, S, n, f)
    BY <1>2
  <2> DEFINE h == [s \in Small(n + 1) |->
                     IF s = {} THEN 0 ELSE g[Pick(s)] + f[s \ {Pick(s)}]]
  <2>2. \A s \in Small(n + 1) : s # {} => s \ {Pick(s)} \in Small(n)
    BY <1>0, PickIsMember, FS_RemoveElement
  <2>3. \A s \in Small(n) : s \in Small(n + 1) /\ h[s] = f[s]
    <3> SUFFICES ASSUME NEW s \in Small(n) PROVE s \in Small(n + 1) /\ h[s] = f[s]
      OBVIOUS
    <3>1. s \in Small(n + 1)
      BY <1>0
    <3>2. f[s] = IF s = {} THEN 0 ELSE g[Pick(s)] + f[s \ {Pick(s)}]
      BY <2>1 DEF IsPart
    <3> QED
      BY <3>1, <3>2
  <2>4. h = [s \in Small(n + 1) |-> IF s = {} THEN 0 ELSE g[Pick(s)] + h[s \ {Pick(s)}]]
    <3> HIDE DEF Small
    <3> QED
      BY <2>2, <2>3
  <2>5. IsPart(g, S, n + 1, h)
    BY <2>4 DEF IsPart
  <2> QED
    BY <2>5
<1> HIDE DEF T
<1>3. \A n \in Nat : n \in T
  BY <1>1, <1>2, NumberInduction
<1> QED
  BY <1>3 DEF T

\* And so one of all subsets.
LEMMA TableExists ==
    ASSUME NEW g, NEW S, IsFiniteSet(S)
    PROVE  IsTable(g, S, Table(g, S))
<1>1. PICK f : IsPart(g, S, Cardinality(S), f)
  BY PartExists, FS_CardinalityType
<1>2. {u \in SUBSET S : Cardinality(u) <= Cardinality(S)} = SUBSET S
  BY FS_Subset
<1>3. IsTable(g, S, f)
  BY <1>1, <1>2 DEF IsPart, IsTable
<1> QED
  BY <1>3 DEF Table

\* Two tables agree on a set if what they sum does.
LEMMA TablesAgree ==
    ASSUME NEW g, NEW S, NEW f, IsTable(g, S, f), NEW g2, NEW S2, NEW f2, IsTable(g2, S2, f2),
           NEW u, u \subseteq S, u \subseteq S2, IsFiniteSet(u), \A x \in u : g[x] = g2[x]
    PROVE  f[u] = f2[u]
<1> DEFINE T == {n \in Nat : \A s \in SUBSET u : Cardinality(s) = n => f[s] = f2[s]}
<1>0. \A s \in SUBSET u : IsFiniteSet(s) /\ Cardinality(s) \in Nat
  BY FS_Subset, FS_CardinalityType
<1>1. \A s \in SUBSET u : s \in SUBSET S /\ s \in SUBSET S2
  OBVIOUS
<1>2. \A s \in SUBSET u : f[s] = IF s = {} THEN 0 ELSE g[Pick(s)] + f[s \ {Pick(s)}]
  BY <1>1 DEF IsTable
<1>3. \A s \in SUBSET u : f2[s] = IF s = {} THEN 0 ELSE g2[Pick(s)] + f2[s \ {Pick(s)}]
  BY <1>1 DEF IsTable
<1>4. 0 \in T
  BY <1>0, <1>2, <1>3, FS_EmptySet
<1>5. ASSUME NEW n \in Nat, n \in T PROVE n + 1 \in T
  <2> SUFFICES ASSUME NEW s \in SUBSET u, Cardinality(s) = n + 1 PROVE f[s] = f2[s]
    OBVIOUS
  <2>1. s # {}
    BY FS_EmptySet
  <2>2. Pick(s) \in s
    BY <2>1, PickIsMember
  <2>3. s \ {Pick(s)} \in SUBSET u /\ Cardinality(s \ {Pick(s)}) = n
    <3>1. Cardinality(s \ {Pick(s)}) = Cardinality(s) - 1
      BY <1>0, <2>2, FS_RemoveElement
    <3> QED
      BY <3>1
  <2>4. f[s \ {Pick(s)}] = f2[s \ {Pick(s)}]
    BY <1>5, <2>3
  <2>5. g[Pick(s)] = g2[Pick(s)]
    BY <2>2
  <2> QED
    BY <1>2, <1>3, <2>1, <2>4, <2>5
<1> HIDE DEF T
<1>6. Cardinality(u) \in T
  BY <1>0, <1>4, <1>5, NumberInduction
<1> QED
  BY <1>6 DEF T

\* What is equal on a set has equal sums over it.
LEMMA AddAgrees ==
    ASSUME NEW S, IsFiniteSet(S), NEW g, NEW g2, \A x \in S : g[x] = g2[x]
    PROVE  Add(g, S) = Add(g2, S)
<1>1. IsTable(g, S, Table(g, S)) /\ IsTable(g2, S, Table(g2, S))
  BY TableExists
<1>2. Table(g, S)[S] = Table(g2, S)[S]
  BY <1>1, TablesAgree
<1> QED
  BY <1>2, AddIsTable

\* A sum is the element taken first and the sum of the rest.
LEMMA AddUnfolds ==
    ASSUME NEW S, IsFiniteSet(S), NEW g
    PROVE  Add(g, S) = IF S = {} THEN 0 ELSE g[Pick(S)] + Add(g, S \ {Pick(S)})
<1>1. CASE S = {}
  <2>1. IsTable(g, S, Table(g, S)) /\ S \in SUBSET S
    BY TableExists
  <2>2. Table(g, S)[S] = 0
    BY <1>1, <2>1 DEF IsTable
  <2> QED
    BY <1>1, <2>2, AddIsTable
<1>2. CASE S # {}
  <2> DEFINE r == S \ {Pick(S)}
  <2>1. IsFiniteSet(r) /\ r \in SUBSET S
    BY FS_RemoveElement
  <2>2. IsTable(g, S, Table(g, S)) /\ IsTable(g, r, Table(g, r))
    BY <2>1, TableExists
  <2>3. Table(g, S)[S] = g[Pick(S)] + Table(g, S)[r]
    BY <1>2, <2>2 DEF IsTable
  <2>4. Table(g, S)[r] = Table(g, r)[r]
    BY <2>1, <2>2, TablesAgree
  <2> QED
    BY <1>2, <2>3, <2>4, AddIsTable
<1> QED
  BY <1>1, <1>2

\* A sum of integers is an integer, and any element may be taken first.
LEMMA AddTakesAny ==
    ASSUME NEW S, IsFiniteSet(S), NEW g, \A x \in S : g[x] \in Int
    PROVE  /\ Add(g, S) \in Int
           /\ \A x \in S : Add(g, S) = g[x] + Add(g, S \ {x})
<1> DEFINE Fine(s) == /\ Add(g, s) \in Int
                      /\ \A x \in s : Add(g, s) = g[x] + Add(g, s \ {x})
           T == {n \in Nat : \A s \in SUBSET S : Cardinality(s) <= n => Fine(s)}
<1>0. \A s \in SUBSET S : IsFiniteSet(s) /\ Cardinality(s) \in Nat
  BY FS_Subset, FS_CardinalityType
<1>1. 0 \in T
  <2> SUFFICES ASSUME NEW s \in SUBSET S, Cardinality(s) <= 0 PROVE Fine(s)
    OBVIOUS
  <2>1. s = {}
    BY <1>0, FS_EmptySet
  <2> QED
    BY <1>0, <2>1, AddUnfolds
<1>2. ASSUME NEW n \in Nat, n \in T PROVE n + 1 \in T
  <2> SUFFICES ASSUME NEW s \in SUBSET S, Cardinality(s) <= n + 1 PROVE Fine(s)
    OBVIOUS
  <2>1. CASE s = {}
    BY <1>0, <2>1, AddUnfolds
  <2>2. CASE s # {}
    <3> DEFINE p == Pick(s)
               r == s \ {p}
    <3>1. p \in s /\ Add(g, s) = g[p] + Add(g, r)
      BY <1>0, <2>2, AddUnfolds, PickIsMember
    <3>2. r \in SUBSET S /\ Cardinality(r) <= n
      BY <1>0, <3>1, FS_RemoveElement
    <3>3. Fine(r)
      BY <1>2, <3>2
    <3>4. g[p] \in Int
      BY <3>1
    <3>5. ASSUME NEW x \in s PROVE Add(g, s) = g[x] + Add(g, s \ {x})
      <4>1. CASE x = p
        BY <3>1, <4>1
      <4>2. CASE x # p
        <5> DEFINE q == s \ {x}
        <5>1. q \in SUBSET S /\ Cardinality(q) <= n
          BY <1>0, FS_RemoveElement
        <5>2. Fine(q) /\ p \in q
          BY <1>2, <3>1, <4>2, <5>1
        <5>3. Add(g, q) = g[p] + Add(g, q \ {p})
          BY <5>2
        <5>4. Add(g, r) = g[x] + Add(g, r \ {x})
          BY <3>3, <4>2
        <5>5. q \ {p} = r \ {x}
          OBVIOUS
        <5>6. r \ {x} \in SUBSET S /\ Cardinality(r \ {x}) <= n
          BY <1>0, <3>2, <4>2, FS_RemoveElement
        <5>7. Add(g, r \ {x}) \in Int /\ g[x] \in Int
          BY <1>2, <5>6
        <5>8. Add(g, q) = g[p] + Add(g, r \ {x})
          BY <5>3, <5>5
        <5>9. \A a, b, c \in Int : a + (b + c) = b + (a + c)
          OBVIOUS
        <5>10. Add(g, s) = g[p] + (g[x] + Add(g, r \ {x}))
          BY <3>1, <5>4
        <5>11. Add(g, s) = g[x] + (g[p] + Add(g, r \ {x}))
          <6> HIDE DEF p, r
          <6> QED
            BY <3>4, <5>7, <5>9, <5>10
        <5> QED
          BY <5>8, <5>11
      <4> QED
        BY <4>1, <4>2
    <3>6. Add(g, s) \in Int
      <4>1. Add(g, r) \in Int
        BY <3>3
      <4> HIDE DEF p, r
      <4> QED
        BY <3>1, <3>4, <4>1
    <3> QED
      BY <3>5, <3>6
  <2> QED
    BY <2>1, <2>2
<1> HIDE DEF T, Fine
<1>3. Cardinality(S) \in T
  BY <1>0, <1>1, <1>2, NumberInduction
<1>4. Fine(S)
  BY <1>0, <1>3 DEF T
<1> QED
  BY <1>4 DEF Fine

\* Adding an element adds its summand.
LEMMA AddGrows ==
    ASSUME NEW S, IsFiniteSet(S), NEW g, NEW x, x \notin S, \A y \in S \cup {x} : g[y] \in Int
    PROVE  Add(g, S \cup {x}) = g[x] + Add(g, S)
<1>1. IsFiniteSet(S \cup {x}) /\ x \in S \cup {x} /\ (S \cup {x}) \ {x} = S
  BY FS_AddElement
<1>2. Add(g, S \cup {x}) = g[x] + Add(g, (S \cup {x}) \ {x})
  BY <1>1, AddTakesAny
<1> QED
  BY <1>1, <1>2

\* Elements that count for nothing may be left out.
LEMMA AddSkipsZeros ==
    ASSUME NEW S, IsFiniteSet(S), NEW g, \A x \in S : g[x] \in Int,
           NEW A \in SUBSET S, \A x \in S \ A : g[x] = 0
    PROVE  Add(g, S) = Add(g, A)
<1> DEFINE T == {n \in Nat : \A s \in SUBSET (S \ A) : Cardinality(s) = n =>
                                Add(g, A \cup s) = Add(g, A)}
<1>0. /\ \A s \in SUBSET S : IsFiniteSet(s) /\ Cardinality(s) \in Nat
      /\ \A s \in SUBSET (S \ A) : s \in SUBSET S
  BY FS_Subset, FS_CardinalityType
<1>1. 0 \in T
  <2> SUFFICES ASSUME NEW s \in SUBSET (S \ A), Cardinality(s) = 0
               PROVE  Add(g, A \cup s) = Add(g, A)
    OBVIOUS
  <2>1. s = {}
    BY <1>0, FS_EmptySet
  <2>2. A \cup s = A
    BY <2>1
  <2> QED
    BY <2>2
<1>2. ASSUME NEW n \in Nat, n \in T PROVE n + 1 \in T
  <2> SUFFICES ASSUME NEW s \in SUBSET (S \ A), Cardinality(s) = n + 1
               PROVE  Add(g, A \cup s) = Add(g, A)
    OBVIOUS
  <2>1. PICK x : x \in s
    BY FS_EmptySet
  <2> DEFINE r == s \ {x}
  <2>2. r \in SUBSET (S \ A) /\ Cardinality(r) = n
    <3>1. Cardinality(r) = Cardinality(s) - 1
      BY <1>0, <2>1, FS_RemoveElement
    <3> QED
      BY <3>1
  <2>3. Add(g, A \cup r) = Add(g, A)
    BY <1>2, <2>2
  <2>4. A \cup r \in SUBSET S /\ x \notin A \cup r /\ A \cup s = (A \cup r) \cup {x} /\ g[x] = 0
    BY <2>1
  <2>5. \A y \in (A \cup r) \cup {x} : g[y] \in Int
    BY <2>1, <2>4
  <2>6. Add(g, A \cup s) = g[x] + Add(g, A \cup r)
    <3> HIDE DEF r
    <3> QED
      BY <1>0, <2>4, <2>5, AddGrows
  <2>7. Add(g, A) \in Int
    BY <1>0, AddTakesAny
  <2> QED
    BY <2>3, <2>4, <2>6, <2>7
<1> HIDE DEF T
<1>3. S \ A \in SUBSET (S \ A) /\ Cardinality(S \ A) \in T /\ A \cup (S \ A) = S
  BY <1>0, <1>1, <1>2, NumberInduction
<1> QED
  BY <1>3 DEF T
==============================================================================
