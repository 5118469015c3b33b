--------------------------- MODULE ListSortProofs ---------------------------
(***************************************************************************)
(* Proofs about ListSort for every list and every number of slots: both    *)
(* sorts are correct when they end, and SortList's slots hold what the     *)
(* comment above them says; and about the recursive sorts of MergeSorts.   *)
(***************************************************************************)
EXTENDS MergeSorts, SequenceTheorems, FiniteSetTheorems, TLAPS

-----------------------------------------------------------------------------
(* Numbers *)

(* A set of natural numbers has a least one: induction without the         *)
(* theorems that take a predicate.                                         *)
LEMMA Least ==
  ASSUME NEW T \in SUBSET Nat, T # {}
  PROVE  \E m \in T : \A k \in T : m <= k
<1>1. IsWellFoundedOn(OpToRel(<, Nat), Nat)
  BY NatLessThanWellFounded
<1>2. PICK x \in T : \A y \in T : ~ (<<y, x>> \in OpToRel(<, Nat))
  BY <1>1, WFMin
<1>3. \A y \in T : ~ (y < x)
  BY <1>2 DEF OpToRel
<1> QED
  BY <1>3

IsIterate(f, a, G, lo, hi) ==
  \A k \in lo..hi : f[k] = IF k = lo THEN a ELSE G[f[k - 1]]

(* A function can be iterated: the recursive definitions define something. *)
LEMMA Iterated ==
  ASSUME NEW S, NEW a \in S, NEW G \in [S -> S], NEW lo \in Nat, NEW hi \in Nat
  PROVE  \E f \in [lo..hi -> S] : IsIterate(f, a, G, lo, hi)
<1> USE DEF IsIterate
<1> DEFINE Defined(m) == \E f \in [lo..m -> S] :
                           \A k \in lo..m : f[k] = IF k = lo THEN a ELSE G[f[k - 1]]
           T == {m \in Nat : ~Defined(m)}
<1>1. SUFFICES ASSUME T # {} PROVE FALSE
  OBVIOUS
<1>2. PICK m \in T : \A k \in T : m <= k
  <2>1. T \in SUBSET Nat
    OBVIOUS
  <2> QED
    BY <1>1, <2>1, Least
<1>3. m \in Nat /\ ~Defined(m)
  OBVIOUS
<1>4. lo < m
  <2>1. lo <= m
    <3> SUFFICES ASSUME m < lo PROVE FALSE
      BY <1>3
    <3>1. PICK f : f = [k \in lo..m |-> a]
      OBVIOUS
    <3>2. lo..m = {}
      BY <1>3
    <3> QED
      BY <1>3, <3>1, <3>2
  <2>2. lo # m
    <3> SUFFICES ASSUME lo = m PROVE FALSE
      OBVIOUS
    <3>1. PICK f : f = [k \in lo..m |-> a]
      OBVIOUS
    <3>2. \A k \in lo..m : k = lo
      OBVIOUS
    <3>3. f \in [lo..m -> S] /\ \A k \in lo..m : f[k] = IF k = lo THEN a ELSE G[f[k - 1]]
      BY <3>1, <3>2
    <3> QED
      BY <1>3, <3>3
  <2> QED
    BY <1>3, <2>1, <2>2
<1>5. m - 1 \in Nat /\ Defined(m - 1)
  <2>1. m - 1 \in Nat /\ ~(m <= m - 1)
    BY <1>3, <1>4
  <2> QED
    BY <1>2, <2>1
<1>6. PICK g \in [lo..(m - 1) -> S] :
        \A k \in lo..(m - 1) : g[k] = IF k = lo THEN a ELSE G[g[k - 1]]
  BY <1>5
<1>7. PICK f : f = [k \in lo..m |-> IF k = m THEN G[g[m - 1]] ELSE g[k]]
  OBVIOUS
<1>8. \A k \in lo..m : k # m => k \in lo..(m - 1)
  BY <1>3
<1>9. m - 1 \in lo..(m - 1) /\ m \in lo..m
  BY <1>3, <1>4
<1>10. f \in [lo..m -> S]
  BY <1>6, <1>7, <1>8, <1>9
<1>11. ASSUME NEW k \in lo..m
       PROVE  f[k] = IF k = lo THEN a ELSE G[f[k - 1]]
  <2>1. k # lo => k - 1 \in lo..(m - 1) /\ k - 1 \in lo..m /\ k - 1 # m
    BY <1>3
  <2>2. CASE k = m
    <3>1. f[k] = G[g[m - 1]] /\ k # lo
      BY <1>4, <1>7, <2>2
    <3>2. f[m - 1] = g[m - 1]
      BY <1>7, <2>1, <2>2, <3>1
    <3> QED
      BY <2>2, <3>1, <3>2
  <2>3. CASE k # m
    <3>1. f[k] = g[k] /\ k \in lo..(m - 1)
      BY <1>7, <1>8, <2>3
    <3>2. k # lo => f[k - 1] = g[k - 1]
      BY <1>7, <2>1
    <3> QED
      BY <1>6, <3>1, <3>2
  <2> QED
    BY <2>2, <2>3
<1>12. Defined(m)
  BY <1>10, <1>11
<1> QED
  BY <1>3, <1>12

LEMMA Counted ==
  ASSUME NEW m \in Nat
  PROVE  IsFiniteSet(1..m) /\ Cardinality(1..m) = m
<1>1. m \in Int /\ 1 \in Int
  OBVIOUS
<1>2. IsFiniteSet(1..m) /\ Cardinality(1..m) = IF 1 > m THEN 0 ELSE m - 1 + 1
  BY <1>1, FS_Interval
<1> QED
  BY <1>2

(* Power2 is what its definition says.                                     *)
LEMMA Powers ==
  /\ Power2 \in [0..NumLists -> Nat]
  /\ Power2[0] = 1
  /\ \A k \in 1..NumLists : Power2[k] = 2 * Power2[k - 1]
  /\ \A k \in 0..NumLists : Power2[k] > 0
<1>0. NumLists \in Nat
  BY ListSortAssumption
<1>1. PICK G : G = [y \in Nat |-> 2 * y]
  OBVIOUS
<1>2. G \in [Nat -> Nat] /\ 1 \in Nat /\ 0 \in Nat
  BY <1>1
<1>3. PICK f \in [0..NumLists -> Nat] :
        \A k \in 0..NumLists : f[k] = IF k = 0 THEN 1 ELSE G[f[k - 1]]
  <2>1. PICK S, lo, a : S = Nat /\ lo = 0 /\ a = 1
    OBVIOUS
  <2>2. a \in S /\ G \in [S -> S] /\ lo \in Nat
    BY <1>2, <2>1
  <2>3. \E f \in [lo..NumLists -> S] : IsIterate(f, a, G, lo, NumLists)
    BY <1>0, <2>2, Iterated
  <2> QED
    BY <2>1, <2>3 DEF IsIterate
<1>4. \A k \in 0..NumLists : k # 0 => k - 1 \in 0..NumLists
  BY <1>0
<1>5. \A k \in 0..NumLists : f[k] = IF k = 0 THEN 1 ELSE 2 * f[k - 1]
  BY <1>1, <1>3, <1>4
<1>6. f = [k \in 0..NumLists |-> IF k = 0 THEN 1 ELSE 2 * f[k - 1]]
  BY <1>3, <1>5
<1>7. Power2 = CHOOSE g : g = [k \in 0..NumLists |-> IF k = 0 THEN 1 ELSE 2 * g[k - 1]]
  BY DEF Power2
<1>8. Power2 = [k \in 0..NumLists |-> IF k = 0 THEN 1 ELSE 2 * Power2[k - 1]]
  BY <1>6, <1>7
<1>9. PICK p : p = Power2
  OBVIOUS
<1>10. \A k \in 0..NumLists : p[k] = IF k = 0 THEN 1 ELSE 2 * p[k - 1]
  BY <1>8, <1>9
<1>11. DOMAIN p = 0..NumLists /\ p = [k \in 0..NumLists |-> p[k]]
  BY <1>8, <1>9
<1>12. \A k \in 0..NumLists : p[k] \in Nat /\ p[k] > 0
  <2> DEFINE T == {k \in 0..NumLists : ~(p[k] \in Nat /\ p[k] > 0)}
  <2> SUFFICES ASSUME T # {} PROVE FALSE
    OBVIOUS
  <2>1. T \in SUBSET Nat
    BY <1>0
  <2>2. PICK m \in T : \A k \in T : m <= k
    BY <2>1, Least
  <2>3. m \in 0..NumLists /\ ~(p[m] \in Nat /\ p[m] > 0)
    OBVIOUS
  <2>4. m # 0
    BY <1>10, <2>3
  <2>5. m - 1 \in 0..NumLists /\ ~(m <= m - 1)
    BY <1>0, <2>3, <2>4
  <2>6. p[m - 1] \in Nat /\ p[m - 1] > 0
    BY <2>2, <2>5
  <2>7. p[m] = 2 * p[m - 1]
    BY <1>10, <2>3, <2>4
  <2> QED
    BY <2>3, <2>6, <2>7
<1>13. 0 \in 0..NumLists /\ \A k \in 1..NumLists : k \in 0..NumLists /\ k # 0
  BY <1>0
<1> QED
  BY <1>9, <1>10, <1>11, <1>12, <1>13

-----------------------------------------------------------------------------
(* The order and the runs *)

\* What a strict order on the nodes is.
StrictOrder ==
  /\ \A x \in Nodes : ~Before(x, x)
  /\ \A x, y \in Nodes : x = y \/ Before(x, y) \/ Before(y, x)
  /\ \A x, y, z \in Nodes : Before(x, y) /\ Before(y, z) => Before(x, z)

LEMMA BeforeIsAnOrder ==
  ASSUME n \in Seq(Nat)
  PROVE  /\ Nodes = 1..Len(n) /\ Len(n) \in Nat
         /\ 0 \notin Nodes
         /\ StrictOrder
<1>1. Nodes = 1..Len(n) /\ Len(n) \in Nat
  BY LenProperties DEF Nodes
<1>2. \A x \in Nodes : n[x] \in Nat /\ x \in Nat
  BY <1>1, ElementOfSeq
<1>3. \A x \in Nodes : ~Before(x, x)
  BY <1>2 DEF Before
<1>4. \A x, y \in Nodes : x = y \/ Before(x, y) \/ Before(y, x)
  BY <1>2 DEF Before
<1>5. \A x, y, z \in Nodes : Before(x, y) /\ Before(y, z) => Before(x, z)
  BY <1>2 DEF Before
<1> QED
  BY <1>1, <1>3, <1>4, <1>5 DEF StrictOrder

(* A run depends on the links of its own nodes only.                       *)
LEMMA SameRun ==
  ASSUME NEW f, NEW g, NEW x, NEW A, IsRun(f, x, A), \A y \in A : g[y] = f[y]
  PROVE  IsRun(g, x, A)
BY DEF IsRun

LEMMA RunBegins ==
  ASSUME 0 \notin Nodes, NEW f, NEW x, NEW A \in SUBSET Nodes, IsRun(f, x, A)
  PROVE  /\ x = 0 <=> A = {}
         /\ x # 0 => x \in A
BY DEF IsRun, IsFirst

(* Behind its first node a run goes on with the rest.                      *)
LEMMA RunGoesOn ==
  ASSUME 0 \notin Nodes, StrictOrder,
         NEW f, NEW x, NEW A \in SUBSET Nodes, IsRun(f, x, A), x # 0
  PROVE  /\ x \in A /\ \A y \in A : y = x \/ Before(x, y)
         /\ IsRun(f, f[x], A \ {x})
<1>1. x \in A /\ \A y \in A : y = x \/ Before(x, y)
  BY DEF IsRun, IsFirst
<1>2. After(x, A) = A \ {x}
  BY <1>1 DEF After, StrictOrder
<1>3. IsFirst(f[x], A \ {x})
  BY <1>1, <1>2 DEF IsRun
<1>4. ASSUME NEW y \in A \ {x}
      PROVE  IsFirst(f[y], After(y, A \ {x}))
  <2>1. ~Before(y, x)
    BY <1>1, <1>4 DEF StrictOrder
  <2>2. After(y, A \ {x}) = After(y, A)
    BY <2>1 DEF After
  <2> QED
    BY <1>4, <2>2 DEF IsRun
<1> QED
  BY <1>1, <1>3, <1>4 DEF IsRun

(* A list that ends at t and goes on with a run behind it.                 *)
LEMMA RunsJoin ==
  ASSUME StrictOrder, NEW A \in SUBSET Nodes, NEW B \in SUBSET Nodes,
         NEW f, NEW d, NEW t \in A, NEW r,
         IsFirst(d, A), \A y \in A \ {t} : IsFirst(f[y], After(y, A)),
         \A y \in A : y = t \/ Before(y, t),
         \A y \in A : \A z \in B : Before(y, z),
         IsRun(f, r, B), f[t] = r
  PROVE  IsRun(f, d, A \cup B)
<1>1. IsFirst(d, A \cup B)
  <2>1. d \in A /\ \A y \in A : y = d \/ Before(d, y)
    BY DEF IsFirst
  <2> QED
    BY <2>1 DEF IsFirst
<1>2. ASSUME NEW y \in B
      PROVE  IsFirst(f[y], After(y, A \cup B))
  <2>1. \A z \in A : ~Before(y, z)
    <3> SUFFICES ASSUME NEW z \in A, Before(y, z) PROVE FALSE
      OBVIOUS
    <3>1. Before(z, y) /\ y \in Nodes /\ z \in Nodes
      BY <1>2
    <3> QED
      BY <3>1 DEF StrictOrder
  <2>2. After(y, A \cup B) = After(y, B)
    BY <2>1 DEF After
  <2> QED
    BY <1>2, <2>2 DEF IsRun
<1>3. IsFirst(f[t], After(t, A \cup B))
  <2>1. \A z \in A : ~Before(t, z)
    BY DEF StrictOrder
  <2>2. After(t, A \cup B) = B
    BY <2>1 DEF After
  <2> QED
    BY <2>2 DEF IsRun
<1>4. ASSUME NEW y \in A \ {t}
      PROVE  IsFirst(f[y], After(y, A \cup B))
  <2>1. t \in After(y, A)
    BY <1>4 DEF After
  <2>2. f[y] \in After(y, A) /\ \A z \in After(y, A) : z = f[y] \/ Before(f[y], z)
    BY <1>4, <2>1 DEF IsFirst
  <2>3. After(y, A \cup B) = After(y, A) \cup B
    BY <1>4 DEF After
  <2>4. \A z \in B : Before(f[y], z)
    BY <2>2 DEF After
  <2> QED
    BY <2>2, <2>3, <2>4 DEF IsFirst
<1> QED
  BY <1>1, <1>2, <1>3, <1>4 DEF IsRun

-----------------------------------------------------------------------------
(* The chain of a list *)

\* at is where the links lead from x, step by step.
Leads(at, links, x) ==
  /\ at \in [1..(Len(n) + 1) -> Nodes \cup {0}]
  /\ at[1] = x
  /\ \A k \in 2..(Len(n) + 1) : at[k] = IF at[k - 1] = 0 THEN 0 ELSE links[at[k - 1]]

LEMMA ChainByLoop ==
  ASSUME n \in Seq(Nat), NEW links \in [Nodes -> Nodes \cup {0}], NEW x \in Nodes \cup {0}
  PROVE  \E at : /\ Leads(at, links, x)
                 /\ ChainIn(links, x) =
                      [k \in 1..Cardinality({k \in 1..(Len(n) + 1) : at[k] # 0}) |-> at[k]]
<1>1. PICK last \in Nat : last = Len(n) + 1 /\ last >= 1
  BY BeforeIsAnOrder
<1>2. PICK S, lo : S = Nodes \cup {0} /\ lo = 1
  OBVIOUS
<1>3. PICK G : G = [y \in S |-> IF y = 0 THEN 0 ELSE links[y]]
  OBVIOUS
<1>4. G \in [S -> S] /\ x \in S /\ lo \in Nat
  BY <1>2, <1>3
<1>5. PICK f \in [lo..last -> S] : IsIterate(f, x, G, lo, last)
  BY <1>1, <1>4, Iterated
<1> DEFINE Turn(g) == [k \in 1..last |-> IF k = 1 THEN x
                         ELSE LET y == g[k - 1] IN IF y = 0 THEN 0 ELSE links[y]]
<1>6. \A k \in 1..last : f[k] = IF k = 1 THEN x ELSE IF f[k - 1] = 0 THEN 0 ELSE links[f[k - 1]]
  <2> SUFFICES ASSUME NEW k \in 1..last
               PROVE  f[k] = IF k = 1 THEN x ELSE IF f[k - 1] = 0 THEN 0 ELSE links[f[k - 1]]
    OBVIOUS
  <2>1. f[k] = IF k = 1 THEN x ELSE G[f[k - 1]]
    BY <1>2, <1>5 DEF IsIterate
  <2>2. k # 1 => k - 1 \in 1..last /\ f[k - 1] \in S
    BY <1>2, <1>5
  <2> QED
    BY <1>3, <2>1, <2>2
<1>7. f = Turn(f)
  <2>1. f = [k \in 1..last |-> f[k]]
    BY <1>2, <1>5
  <2> QED
    BY <1>6, <2>1
<1>8. PICK at : at = CHOOSE g : g = Turn(g)
  OBVIOUS
<1>9. at = Turn(at)
  <2> HIDE DEF Turn
  <2> QED
    BY <1>7, <1>8
<1>10. ChainIn(links, x) = [k \in 1..Cardinality({k \in 1..last : at[k] # 0}) |-> at[k]]
  BY <1>1, <1>8 DEF ChainIn, Reached
<1>11. \A k \in 1..last : at[k] = IF k = 1 THEN x
                                  ELSE IF at[k - 1] = 0 THEN 0 ELSE links[at[k - 1]]
  BY <1>9
<1>12. \A k \in 1..last : at[k] = f[k]
  <2> DEFINE T == {k \in 1..last : at[k] # f[k]}
  <2> SUFFICES ASSUME T # {} PROVE FALSE
    OBVIOUS
  <2>1. T \in SUBSET Nat
    OBVIOUS
  <2>2. PICK m \in T : \A k \in T : m <= k
    BY <2>1, Least
  <2>3. m \in 1..last /\ at[m] # f[m] /\ m \in Nat
    OBVIOUS
  <2>4. m # 1
    BY <1>6, <1>11, <2>3
  <2>5. m - 1 \in 1..last /\ ~(m <= m - 1)
    BY <1>1, <2>3, <2>4
  <2>6. at[m - 1] = f[m - 1]
    BY <2>2, <2>5
  <2>7. at[m] = f[m]
    BY <1>6, <1>11, <2>3, <2>4, <2>6, Zenon
  <2> QED
    BY <2>3, <2>7
<1>13. Leads(at, links, x)
  <2>1. at = [k \in 1..last |-> at[k]]
    BY <1>9
  <2>2. \A k \in 1..last : at[k] \in Nodes \cup {0}
    BY <1>2, <1>5, <1>12
  <2>3. at[1] = x /\ \A k \in 2..last : at[k] = IF at[k - 1] = 0 THEN 0 ELSE links[at[k - 1]]
    <3>1. 1 \in 1..last /\ \A k \in 2..last : k \in 1..last /\ k # 1
      BY <1>1
    <3> QED
      BY <1>11, <3>1
  <2> QED
    BY <1>1, <2>1, <2>2, <2>3 DEF Leads
<1> QED
  BY <1>1, <1>10, <1>13

LEMMA Listed ==
  ASSUME NEW f, NEW m \in Nat, \A k \in 1..m : f[k] \in Nodes
  PROVE  [k \in 1..m |-> f[k]] \in Seq(Nodes) /\ Len([k \in 1..m |-> f[k]]) = m
OBVIOUS

\* The nodes of a walk, as many as there are before the zeros; its first m
\* places; and that the zeros begin after them.
BeforeTheZeros(at) == [k \in 1..Cardinality({k \in 1..(Len(n) + 1) : at[k] # 0}) |-> at[k]]
FirstPlaces(at, m) == [k \in 1..m |-> at[k]]
ZeroAfter(at, m) == \A k \in 1..(Len(n) + 1) : at[k] # 0 <=> k <= m

(* Where the first zero is the chain ends.                                 *)
LEMMA ChainEnds ==
  ASSUME n \in Seq(Nat), NEW at, NEW links, NEW x, Leads(at, links, x),
         NEW m \in 0..Len(n), ZeroAfter(at, m), NEW s, s = BeforeTheZeros(at)
  PROVE  s = FirstPlaces(at, m) /\ s \in Seq(Nodes) /\ Len(s) = m
<1>1. Len(n) \in Nat /\ m \in Nat /\ m <= Len(n)
  BY BeforeIsAnOrder
<1>2. {k \in 1..(Len(n) + 1) : at[k] # 0} = 1..m
  BY <1>1 DEF ZeroAfter
<1>3. Cardinality(1..m) = m
  BY <1>1, Counted
<1>4. s = [k \in 1..m |-> at[k]]
  BY <1>2, <1>3 DEF BeforeTheZeros
<1>5. \A k \in 1..m : at[k] \in Nodes
  <2>1. \A k \in 1..m : k \in 1..(Len(n) + 1) /\ k <= m
    BY <1>1
  <2>2. \A k \in 1..(Len(n) + 1) : at[k] \in Nodes \cup {0}
    BY DEF Leads
  <2>3. \A k \in 1..(Len(n) + 1) : k <= m => at[k] # 0
    BY DEF ZeroAfter
  <2> QED
    BY <2>1, <2>2, <2>3
<1>6. m \in Nat
  BY <1>1
<1>7. s \in Seq(Nodes) /\ Len(s) = m
  <2>1. [k \in 1..m |-> at[k]] \in Seq(Nodes) /\ Len([k \in 1..m |-> at[k]]) = m
    BY <1>5, <1>6, Listed
  <2> QED
    BY <1>4, <2>1
<1> QED
  BY <1>4, <1>7 DEF FirstPlaces

\* s is A in the order.
IsOrdered(s, A) == /\ s \in Seq(Nodes) /\ Len(s) \in Nat
                   /\ Elements(s) = A
                   /\ Len(s) = Cardinality(A)
                   /\ \A j, k \in 1..Len(s) : j < k => Before(s[j], s[k])
                   /\ \A j, k \in 1..Len(s) : s[j] = s[k] => j = k

(* Along the links of a run the nodes come in order, until the end.        *)
LEMMA RunAscends ==
  ASSUME n \in Seq(Nat), NEW links, NEW x, NEW A \in SUBSET Nodes, IsRun(links, x, A),
         NEW at, Leads(at, links, x)
  PROVE  /\ \A k \in 1..(Len(n) + 1) : at[k] # 0 => at[k] \in A
         /\ \A j, k \in 1..(Len(n) + 1) : j < k /\ at[k] # 0 => at[j] # 0 /\ Before(at[j], at[k])
<1>1. PICK last \in Nat : last = Len(n) + 1 /\ last >= 1
  BY BeforeIsAnOrder
<1>2. 0 \notin Nodes /\ StrictOrder
  BY BeforeIsAnOrder
<1>3. /\ at[1] = x
      /\ \A k \in 2..last : at[k] = IF at[k - 1] = 0 THEN 0 ELSE links[at[k - 1]]
  BY <1>1 DEF Leads
<1>4. \A k \in 1..last : at[k] # 0 => at[k] \in A
  <2> DEFINE T == {k \in 1..last : at[k] # 0 /\ at[k] \notin A}
  <2> SUFFICES ASSUME T # {} PROVE FALSE
    OBVIOUS
  <2>1. T \in SUBSET Nat
    OBVIOUS
  <2>2. PICK m \in T : \A k \in T : m <= k
    BY <2>1, Least
  <2>3. m \in 1..last /\ at[m] # 0 /\ at[m] \notin A
    OBVIOUS
  <2>4. m # 1
    BY <1>2, <1>3, <2>3, RunBegins
  <2>5. m - 1 \in 1..last /\ m \in 2..last /\ ~(m <= m - 1)
    BY <1>1, <2>3, <2>4
  <2>6. at[m - 1] # 0 /\ at[m] = links[at[m - 1]]
    BY <1>3, <2>3, <2>5
  <2>7. at[m - 1] \in A
    BY <2>2, <2>5, <2>6
  <2>8. IsFirst(at[m], After(at[m - 1], A))
    BY <2>6, <2>7 DEF IsRun
  <2> QED
    BY <2>3, <2>8 DEF IsFirst, After
<1>5. \A k \in 2..last : at[k] # 0 => at[k - 1] # 0 /\ Before(at[k - 1], at[k])
  <2> SUFFICES ASSUME NEW k \in 2..last, at[k] # 0
               PROVE  at[k - 1] # 0 /\ Before(at[k - 1], at[k])
    OBVIOUS
  <2>1. k - 1 \in 1..last
    BY <1>1
  <2>2. at[k - 1] # 0 /\ at[k] = links[at[k - 1]]
    BY <1>3
  <2>3. IsFirst(at[k], After(at[k - 1], A))
    BY <1>4, <2>1, <2>2 DEF IsRun
  <2> QED
    BY <2>2, <2>3 DEF IsFirst, After
<1>6. \A j, k \in 1..last : j < k /\ at[k] # 0 => at[j] # 0 /\ Before(at[j], at[k])
  <2> SUFFICES ASSUME NEW j \in 1..last
               PROVE  \A k \in 1..last : j < k /\ at[k] # 0 => at[j] # 0 /\ Before(at[j], at[k])
    OBVIOUS
  <2> DEFINE T == {k \in 1..last : j < k /\ at[k] # 0 /\ ~(at[j] # 0 /\ Before(at[j], at[k]))}
  <2> SUFFICES ASSUME T # {} PROVE FALSE
    OBVIOUS
  <2>1. T \in SUBSET Nat
    OBVIOUS
  <2>2. PICK m \in T : \A k \in T : m <= k
    BY <2>1, Least
  <2>3. m \in 1..last /\ j < m /\ at[m] # 0 /\ ~(at[j] # 0 /\ Before(at[j], at[m]))
    OBVIOUS
  <2>4. m \in 2..last /\ m - 1 \in 1..last /\ ~(m <= m - 1) /\ (j = m - 1 \/ j < m - 1)
    BY <1>1, <2>3
  <2>5. at[m - 1] # 0 /\ Before(at[m - 1], at[m])
    BY <1>5, <2>3, <2>4
  <2>6. j # m - 1
    BY <2>3, <2>5
  <2>7. at[j] # 0 /\ Before(at[j], at[m - 1])
    BY <2>2, <2>4, <2>5, <2>6
  <2>8. at[j] \in Nodes /\ at[m - 1] \in Nodes /\ at[m] \in Nodes
    BY <1>4, <2>3, <2>4, <2>5, <2>7
  <2>9. Before(at[j], at[m])
    BY <1>2, <2>5, <2>7, <2>8 DEF StrictOrder
  <2> QED
    BY <2>3, <2>7, <2>9
<1> QED
  BY <1>1, <1>4, <1>6

(* The chain of a run is its nodes in their order.                         *)
LEMMA RunChain ==
  ASSUME n \in Seq(Nat), NEW links \in [Nodes -> Nodes \cup {0}], NEW x,
         NEW A \in SUBSET Nodes, IsRun(links, x, A)
  PROVE  IsOrdered(ChainIn(links, x), A)
<1>1. PICK last \in Nat : last = Len(n) + 1 /\ last >= 1
  BY BeforeIsAnOrder
<1>2. 0 \notin Nodes /\ StrictOrder /\ Nodes = 1..Len(n) /\ Len(n) \in Nat
  BY BeforeIsAnOrder
<1>3. x \in Nodes \cup {0}
  BY <1>2, RunBegins
<1>4. PICK at : /\ Leads(at, links, x)
                /\ ChainIn(links, x) =
                     [k \in 1..Cardinality({k \in 1..(Len(n) + 1) : at[k] # 0}) |-> at[k]]
  BY <1>3, ChainByLoop
<1>5. /\ at[1] = x
      /\ \A k \in 2..last : at[k] = IF at[k - 1] = 0 THEN 0 ELSE links[at[k - 1]]
  BY <1>1, <1>4 DEF Leads
<1>6. /\ \A k \in 1..last : at[k] # 0 => at[k] \in A
      /\ \A j, k \in 1..last : j < k /\ at[k] # 0 => at[j] # 0 /\ Before(at[j], at[k])
  BY <1>1, <1>4, RunAscends
<1>7. \E k \in 1..last : at[k] = 0
  <2> SUFFICES ASSUME \A k \in 1..last : at[k] # 0 PROVE FALSE
    OBVIOUS
  <2>1. PICK f : f = [k \in 1..last |-> at[k]]
    OBVIOUS
  <2>2. \A k \in 1..last : f[k] = at[k] /\ at[k] \in Nodes
    BY <1>6, <2>1
  <2>3. \A j, k \in 1..last : j < k => at[j] # at[k]
    BY <1>2, <1>6, <2>2 DEF StrictOrder
  <2>4. \A j, k \in 1..last : f[j] = f[k] => j = k
    <3> SUFFICES ASSUME NEW j \in 1..last, NEW k \in 1..last, f[j] = f[k], j # k PROVE FALSE
      OBVIOUS
    <3>1. j < k \/ k < j
      OBVIOUS
    <3> QED
      BY <2>2, <2>3, <3>1
  <2>5. f \in Injection(1..last, Nodes)
    BY <2>1, <2>2, <2>4 DEF Injection, IsInjective
  <2>6. /\ IsFiniteSet(1..last) /\ Cardinality(1..last) = last
        /\ IsFiniteSet(Nodes) /\ Cardinality(Nodes) = Len(n)
    BY <1>2, Counted
  <2>7. Cardinality(1..last) <= Cardinality(Nodes)
    BY <2>5, <2>6, FS_Injection
  <2> QED
    BY <1>1, <1>2, <2>6, <2>7
<1>8. PICK z \in 1..last : at[z] = 0 /\ \A k \in 1..last : at[k] = 0 => z <= k
  <2> DEFINE T == {k \in 1..last : at[k] = 0}
  <2>1. T \in SUBSET Nat /\ T # {}
    BY <1>7
  <2>2. PICK m \in T : \A k \in T : m <= k
    BY <2>1, Least
  <2> QED
    BY <2>2
<1>9. PICK m \in 0..Len(n) : m = z - 1
  BY <1>1, <1>2
<1>10. \A k \in 1..last : at[k] # 0 <=> k <= m
  <2> SUFFICES ASSUME NEW k \in 1..last PROVE at[k] # 0 <=> k <= m
    OBVIOUS
  <2>1. CASE k < z
    <3>1. k <= m /\ ~(z <= k)
      BY <1>1, <1>9, <2>1
    <3> QED
      BY <1>8, <3>1
  <2>2. CASE z < k
    <3>1. ~(k <= m)
      BY <1>1, <1>9, <2>2
    <3> QED
      BY <1>6, <1>8, <2>2, <3>1
  <2>3. CASE k = z
    <3>1. ~(k <= m)
      BY <1>1, <1>9, <2>3
    <3> QED
      BY <1>8, <2>3, <3>1
  <2> QED
    BY <1>1, <2>1, <2>2, <2>3
<1>11. PICK s : s = ChainIn(links, x)
  OBVIOUS
<1>12. s = [k \in 1..m |-> at[k]] /\ s \in Seq(Nodes) /\ Len(s) = m /\ m \in Nat
  <2>1. ZeroAfter(at, m)
    BY <1>1, <1>10 DEF ZeroAfter
  <2>2. Leads(at, links, x) /\ m \in 0..Len(n)
    BY <1>4, <1>9
  <2>3. s = BeforeTheZeros(at)
    BY <1>4, <1>11 DEF BeforeTheZeros
  <2>4. s = FirstPlaces(at, m) /\ s \in Seq(Nodes) /\ Len(s) = m
    BY <2>1, <2>2, <2>3, ChainEnds
  <2> QED
    BY <1>2, <2>4 DEF FirstPlaces
<1>13. \A k \in 1..m : s[k] = at[k] /\ k \in 1..last /\ at[k] # 0
  BY <1>1, <1>9, <1>10, <1>12
<1>14. \A j, k \in 1..m : j < k => Before(s[j], s[k])
  BY <1>6, <1>13
<1>15. \A j, k \in 1..m : s[j] = s[k] => j = k
  <2> SUFFICES ASSUME NEW j \in 1..m, NEW k \in 1..m, s[j] = s[k], j # k PROVE FALSE
    OBVIOUS
  <2>1. j < k \/ k < j
    BY <1>12
  <2>2. s[j] \in Nodes
    BY <1>6, <1>13
  <2> QED
    BY <1>2, <1>14, <2>1, <2>2 DEF StrictOrder
<1>16. \A y \in A : \E k \in 1..m : s[k] = y
  <2> SUFFICES ASSUME NEW y \in A, \A k \in 1..m : at[k] # y PROVE FALSE
    BY <1>13
  <2> DEFINE T == {k \in 1..last : at[k] = 0 \/ ~Before(at[k], y)}
  <2>1. T \in SUBSET Nat /\ T # {}
    BY <1>8
  <2>2. PICK p \in T : \A k \in T : p <= k
    BY <2>1, Least
  <2>3. p \in 1..last /\ (at[p] = 0 \/ ~Before(at[p], y)) /\ p <= z
    BY <1>8, <2>2
  <2>4. at[p] # 0 => at[p] # y
    BY <1>1, <1>10, <2>3
  <2>5. p # 1
    <3> SUFFICES ASSUME p = 1 PROVE FALSE
      OBVIOUS
    <3>1. x \in A /\ \A w \in A : w = x \/ Before(x, w)
      BY DEF IsRun, IsFirst
    <3>2. x # 0
      BY <1>2, <3>1
    <3> QED
      BY <1>5, <2>3, <2>4, <3>1, <3>2
  <2>6. p - 1 \in 1..last /\ p \in 2..last /\ ~(p <= p - 1)
    BY <1>1, <2>3, <2>5
  <2>7. at[p - 1] # 0 /\ Before(at[p - 1], y)
    BY <2>2, <2>6
  <2>8. at[p] = links[at[p - 1]] /\ at[p - 1] \in A
    BY <1>5, <1>6, <2>6, <2>7
  <2>9. IsFirst(at[p], After(at[p - 1], A)) /\ y \in After(at[p - 1], A)
    BY <2>7, <2>8 DEF IsRun, After
  <2>10. at[p] \in A /\ (y = at[p] \/ Before(at[p], y))
    BY <2>9 DEF IsFirst, After
  <2> QED
    BY <1>2, <2>3, <2>4, <2>10
<1>17. Elements(s) = A
  <2>1. \A k \in 1..m : s[k] \in A
    BY <1>6, <1>13
  <2> QED
    BY <1>12, <1>16, <2>1 DEF Elements
<1>18. Cardinality(A) = m
  <2>1. IsFiniteSet(1..m) /\ Cardinality(1..m) = m
    BY <1>12, Counted
  <2>2. s \in [1..m -> A]
    BY <1>6, <1>12, <1>13
  <2>3. s \in Bijection(1..m, A)
    BY <1>15, <1>16, <2>2 DEF Bijection, Injection, IsInjective, Surjection
  <2> QED
    BY <2>1, <2>3, FS_Bijection DEF ExistsBijection
<1> QED
  BY <1>11, <1>12, <1>14, <1>15, <1>17, <1>18 DEF IsOrdered

(* The chain of a list that is known is that list.                         *)
LEMMA ListChain ==
  ASSUME n \in Seq(Nat), NEW links \in [Nodes -> Nodes \cup {0}],
         NEW s \in Seq(Nodes), Len(s) <= Len(n),
         \A k \in 1..Len(s) : links[s[k]] = IF k = Len(s) THEN 0 ELSE s[k + 1],
         NEW x, x = IF s = << >> THEN 0 ELSE s[1]
  PROVE  ChainIn(links, x) = s
<1>1. /\ 0 \notin Nodes /\ Len(n) \in Nat
      /\ Len(s) \in Nat /\ (s = << >> <=> Len(s) = 0)
      /\ \A k \in 1..Len(s) : s[k] \in Nodes /\ s[k] # 0
  <2>1. 0 \notin Nodes /\ Len(n) \in Nat
    BY BeforeIsAnOrder
  <2>2. Len(s) \in Nat /\ (s = << >> <=> Len(s) = 0)
    BY LenProperties, EmptySeq
  <2>3. \A k \in 1..Len(s) : s[k] \in Nodes
    BY ElementOfSeq
  <2> QED
    BY <2>1, <2>2, <2>3
<1>2. PICK last \in Nat : last = Len(n) + 1 /\ last >= 1
  BY <1>1
<1>3. x \in Nodes \cup {0}
  BY <1>1
<1>4. PICK at : /\ Leads(at, links, x)
                /\ ChainIn(links, x) =
                     [k \in 1..Cardinality({k \in 1..(Len(n) + 1) : at[k] # 0}) |-> at[k]]
  BY <1>3, ChainByLoop
<1>5. /\ at[1] = x
      /\ \A k \in 2..last : at[k] = IF at[k - 1] = 0 THEN 0 ELSE links[at[k - 1]]
  BY <1>2, <1>4 DEF Leads
<1>6. \A k \in 1..last : at[k] = IF k <= Len(s) THEN s[k] ELSE 0
  <2> DEFINE T == {k \in 1..last : at[k] # IF k <= Len(s) THEN s[k] ELSE 0}
  <2> SUFFICES ASSUME T # {} PROVE FALSE
    OBVIOUS
  <2>1. T \in SUBSET Nat
    OBVIOUS
  <2>2. PICK m \in T : \A k \in T : m <= k
    BY <2>1, Least
  <2>3. m \in 1..last /\ at[m] # IF m <= Len(s) THEN s[m] ELSE 0
    OBVIOUS
  <2>4. m # 1
    BY <1>1, <1>5, <2>3
  <2>5. m - 1 \in 1..last /\ m \in 2..last /\ ~(m <= m - 1)
    BY <1>2, <2>3, <2>4
  <2>6. at[m - 1] = IF m - 1 <= Len(s) THEN s[m - 1] ELSE 0
    BY <2>2, <2>5
  <2>7. CASE m - 1 <= Len(s)
    <3>1. m - 1 \in 1..Len(s) /\ (m - 1) + 1 = m
      BY <1>1, <2>5, <2>7
    <3>2. at[m] = links[s[m - 1]]
      BY <1>1, <1>5, <2>5, <2>6, <2>7, <3>1
    <3>3. links[s[m - 1]] = IF m - 1 = Len(s) THEN 0 ELSE s[m]
      BY <3>1
    <3>4. m - 1 = Len(s) <=> ~(m <= Len(s))
      BY <1>1, <2>5, <2>7
    <3> QED
      BY <2>3, <3>2, <3>3, <3>4
  <2>8. CASE ~(m - 1 <= Len(s))
    <3>1. at[m] = 0
      BY <1>5, <2>5, <2>6, <2>8
    <3>2. ~(m <= Len(s))
      BY <1>1, <2>5, <2>8
    <3> QED
      BY <2>3, <3>1, <3>2
  <2> QED
    BY <2>7, <2>8
<1>7. PICK c : c = ChainIn(links, x)
  OBVIOUS
<1>8. PICK len \in Nat : len = Len(s) /\ len <= Len(n)
  BY <1>1
<1>9. \A k \in 1..len : s[k] # 0 /\ k \in 1..last
  BY <1>1, <1>2, <1>8
<1>10. \A k \in 1..last : at[k] = IF k <= len THEN s[k] ELSE 0
  BY <1>6, <1>8
<1>11. \A k \in 1..last : at[k] # 0 <=> k <= len
  <2> SUFFICES ASSUME NEW k \in 1..last PROVE at[k] # 0 <=> k <= len
    OBVIOUS
  <2>1. k <= len => k \in 1..len
    BY <1>8
  <2> QED
    BY <1>9, <1>10, <2>1
<1>12. c = [k \in 1..len |-> at[k]]
  <2>1. len \in 0..Len(n)
    BY <1>1, <1>8
  <2>2. c = BeforeTheZeros(at)
    BY <1>4, <1>7 DEF BeforeTheZeros
  <2>3. Leads(at, links, x)
    BY <1>4
  <2>4. ZeroAfter(at, len)
    BY <1>2, <1>11 DEF ZeroAfter
  <2>5. c = FirstPlaces(at, len)
    BY <2>1, <2>2, <2>3, <2>4, ChainEnds
  <2> QED
    BY <2>5 DEF FirstPlaces
<1>13. \A k \in 1..len : at[k] = s[k]
  <2>1. \A k \in 1..len : k <= len
    OBVIOUS
  <2> QED
    BY <1>9, <1>10, <2>1, Zenon
<1>14. s = [k \in 1..len |-> s[k]]
  <2>1. s = [k \in 1..Len(s) |-> s[k]]
    BY LenProperties
  <2> QED
    BY <1>8, <2>1, Zenon
<1> QED
  BY <1>7, <1>12, <1>13, <1>14

-----------------------------------------------------------------------------
(* The invariant is kept: SortList *)

LEMMA Setting ==
  ASSUME TypeOK
  PROVE  /\ n \in Seq(Nat) /\ Len(n) \in Nat /\ Nodes = 1..Len(n)
         /\ 0 \notin Nodes /\ StrictOrder
         /\ NumLists \in Nat /\ NumLists >= 1
<1>1. NumLists \in Nat /\ NumLists >= 1 /\ MaxKey \in Nat
  BY ListSortAssumption
<1>2. n \in Seq(Nat)
  <2>1. n \in Seq(0..MaxKey) /\ (0..MaxKey) \subseteq Nat
    BY <1>1 DEF TypeOK
  <2> QED
    BY <2>1, SeqMonotonic
<1> QED
  BY <1>1, <1>2, BeforeIsAnOrder

(* What the bounds say.                                                    *)
LEMMA BoundsFacts ==
  ASSUME TypeOK, NEW b \in Bounds
  PROVE  /\ b \in [0..NumLists -> 0..Len(n)] /\ b[NumLists] = 0
         /\ \A s \in 0..NumLists : b[s] \in Nat /\ b[s] <= Len(n) /\ b[s] <= b[0]
         /\ \A s \in 0..(NumLists - 1) : /\ s \in 0..NumLists /\ s + 1 \in 0..NumLists
                                         /\ b[s + 1] <= b[s]
                                         /\ Part(b, s) \in SUBSET Nodes
                                         /\ \A y \in Part(b, s) : y \in Nat /\ y <= b[0]
<1>1. b \in [0..NumLists -> 0..Len(n)] /\ b[NumLists] = 0
      /\ \A r, s \in 0..NumLists : r <= s => b[s] <= b[r]
  BY DEF Bounds
<1>2. 0 \in 0..NumLists /\ \A s \in 0..NumLists : 0 <= s
  BY Setting
<1>3. \A s \in 0..NumLists : b[s] \in Nat /\ b[s] <= Len(n) /\ b[s] <= b[0]
  BY <1>1, <1>2, Setting
<1>4. \A s \in 0..(NumLists - 1) : s \in 0..NumLists /\ s + 1 \in 0..NumLists /\ s <= s + 1
  BY Setting
<1>5. \A s \in 0..(NumLists - 1) : b[s + 1] <= b[s]
  BY <1>1, <1>4
<1>6. ASSUME NEW s \in 0..(NumLists - 1), NEW y \in Part(b, s)
      PROVE  y \in Nodes /\ y \in Nat /\ y <= b[0]
  <2>1. b[s] \in Nat /\ b[s + 1] \in Nat /\ b[s] <= Len(n) /\ b[s] <= b[0] /\ b[0] \in Nat
    BY <1>2, <1>3, <1>4
  <2>2. PICK high \in Nat, low \in Nat, most \in Nat :
          high = b[s] /\ low = b[s + 1] /\ most = b[0]
    BY <2>1
  <2>3. high <= Len(n) /\ high <= most /\ y \in (low + 1)..high
    BY <2>1, <2>2 DEF Part
  <2>4. y \in Nat /\ 1 <= y /\ y <= high
    BY <2>3
  <2>5. Len(n) \in Nat /\ Nodes = 1..Len(n)
    BY Setting
  <2>6. y \in Nodes
    BY <2>3, <2>4, <2>5
  <2>7. y <= most
    BY <2>3, <2>4
  <2> QED
    BY <2>2, <2>4, <2>6, <2>7
<1> QED
  BY <1>1, <1>3, <1>4, <1>5, <1>6

(* A slot is as it was when it and the links of its nodes are.             *)
LEMMA SlotKept ==
  ASSUME n' = n, NEW b, NEW c, NEW s, SlotOK(b, s), slots'[s] = slots[s],
         c[s] = b[s], c[s + 1] = b[s + 1],
         \A y \in Part(b, s) : next'[y] = next[y]
  PROVE  SlotOK(c, s)'
BY DEF SlotOK, Part, IsRun, IsFirst, After, Before, FullRun, Nodes

(* A slot that is filled.                                                  *)
LEMMA SlotFilled ==
  ASSUME n' = n, NEW b, NEW s, IsRun(next', slots'[s], Part(b, s)),
         slots'[s] = 0 \/ FullRun(s, b[s] - b[s + 1])
  PROVE  SlotOK(b, s)'
BY DEF SlotOK, Part, IsRun, IsFirst, After, Before, FullRun, Nodes

LEMMA RunPrimed ==
  ASSUME n' = n, NEW f, NEW x, NEW A
  PROVE  IsRun(f, x, A)' <=> IsRun(f, x, A)
BY DEF IsRun, IsFirst, After, Before

LEMMA SameNodes ==
  ASSUME n' = n
  PROVE  Nodes' = Nodes /\ Bounds' = Bounds /\ Len(n)' = Len(n)
BY DEF Nodes, Bounds

LEMMA EmptyRun ==
  ASSUME NEW f
  PROVE  IsRun(f, 0, {})
BY DEF IsRun, IsFirst

LEMMA ListOf ==
  ASSUME NEW S, NEW f, NEW m \in Nat, \A k \in 1..m : f[k] \in S
  PROVE  [k \in 1..m |-> f[k]] \in Seq(S) /\ Len([k \in 1..m |-> f[k]]) = m
OBVIOUS

LEMMA InitEstablishes == Init => Inv
<1> SUFFICES ASSUME Init PROVE Inv
  OBVIOUS
<1>1. NumLists \in Nat /\ NumLists >= 1 /\ MaxKey \in Nat
  BY ListSortAssumption
<1>2. PICK length \in Nat : n \in [1..length -> 0..MaxKey]
  <2>1. PICK length \in 0..MaxNodes : n \in [1..length -> 0..MaxKey]
    BY DEF Init
  <2>2. length \in Nat
    BY <2>1, ListSortAssumption
  <2> QED
    BY <2>1, <2>2
<1>3. n \in Seq(0..MaxKey) /\ Len(n) = length /\ Nodes = 1..length
  <2>1. n = [k \in 1..length |-> n[k]] /\ \A k \in 1..length : n[k] \in 0..MaxKey
    BY <1>2
  <2>2. /\ [k \in 1..length |-> n[k]] \in Seq(0..MaxKey)
        /\ Len([k \in 1..length |-> n[k]]) = length
    <3>1. PICK S, f : S = 0..MaxKey /\ f = n
      OBVIOUS
    <3>2. \A k \in 1..length : f[k] \in S
      BY <2>1, <3>1
    <3>3. [k \in 1..length |-> f[k]] \in Seq(S) /\ Len([k \in 1..length |-> f[k]]) = length
      BY <3>2, ListOf
    <3> QED
      BY <3>1, <3>3
  <2> QED
    BY <1>2, <2>1, <2>2 DEF Nodes
<1>4. /\ next = [k \in Nodes |-> IF k = length THEN 0 ELSE k + 1]
      /\ head = IF length = 0 THEN 0 ELSE 1
  <2>1. n = << >> <=> length = 0
    BY <1>3, EmptySeq
  <2> QED
    BY <1>3, <2>1 DEF Init
<1>5. head \in Nodes \cup {0} /\ \A k \in Nodes : next[k] \in Nodes \cup {0}
  BY <1>3, <1>4
<1>6. /\ slots = [s \in 0..NumLists - 1 |-> 0] /\ pNode = head /\ pNext = 0 /\ call = NoCall
      /\ \/ pc = "take"
         \/ pc = "walk" /\ tmp = head /\ head # 0
  BY DEF Init
<1>7. TypeOK
  <2>1. next \in [Nodes -> Nodes \cup {0}]
    BY <1>4, <1>5
  <2> QED
    BY <1>3, <1>5, <1>6, <2>1 DEF TypeOK, NoCall
<1>8. WalkInv
  <2> SUFFICES ASSUME pc = "walk" PROVE WalkInv
    BY DEF WalkInv
  <2>1. PICK s : s = [k \in 1..length |-> k]
    OBVIOUS
  <2>2. s \in Seq(Nodes) /\ Len(s) = length /\ \A k \in 1..length : s[k] = k
    <3>1. [k \in 1..length |-> s[k]] \in Seq(Nodes) /\ Len([k \in 1..length |-> s[k]]) = length
      BY <1>3, <2>1, Listed
    <3> QED
      BY <2>1, <3>1
  <2>3. length # 0 /\ head = 1 /\ tmp = 1 /\ 1 \in 1..length
    BY <1>4, <1>6
  <2>4. s # << >>
    BY <2>2, <2>3
  <2>5. \A k \in 1..Len(s) : next[s[k]] = IF k = Len(s) THEN 0 ELSE s[k + 1]
    <3> SUFFICES ASSUME NEW k \in 1..length PROVE next[k] = IF k = length THEN 0 ELSE s[k + 1]
      BY <2>2
    <3>1. k # length => k + 1 \in 1..length
      OBVIOUS
    <3> QED
      BY <1>3, <1>4, <2>2, <3>1
  <2>6. Chain(head) = s
    <3>1. n \in Seq(Nat) /\ next \in [Nodes -> Nodes \cup {0}] /\ Len(s) <= Len(n)
      BY <1>3, <1>7, <2>2, Setting DEF TypeOK
    <3>2. head = IF s = << >> THEN 0 ELSE s[1]
      BY <2>2, <2>3, <2>4
    <3> QED
      BY <2>2, <2>5, <3>1, <3>2, ListChain DEF Chain
  <2>7. Elements(s) = Nodes
    BY <1>3, <2>2 DEF Elements
  <2>8. /\ head = s[1] /\ Len(s) = Len(n)
        /\ \A j, k \in 1..Len(s) : s[j] = s[k] => j = k
        /\ \A j, k \in 1..Len(s) : j < k /\ n[s[j]] = n[s[k]] => s[j] < s[k]
    BY <1>3, <2>2, <2>3
  <2>9. \E k \in 1..Len(s) : /\ tmp = s[k]
                              /\ \A j \in 1..(k - 1) : n[s[j]] <= n[s[j + 1]]
    <3>1. 1 \in 1..Len(s) /\ tmp = s[1] /\ 1..(1 - 1) = {}
      BY <2>2, <2>3
    <3> QED
      BY <3>1
  <2> QED
    BY <2>2, <2>4, <2>5, <2>6, <2>7, <2>8, <2>9 DEF WalkInv
<1>9. DoneInv
  BY <1>6 DEF DoneInv
<1>10. ASSUME pc = "take" PROVE SlotsInv
  <2>1. PICK b : b = [s \in 0..NumLists |-> 0]
    OBVIOUS
  <2>2. b \in Bounds /\ \A s \in 0..NumLists : b[s] = 0
    BY <1>1, <1>3, <2>1 DEF Bounds
  <2>3. Taken = 0
    BY <1>3, <1>4, <1>6, <1>10 DEF Taken
  <2>4. ASSUME NEW s \in 0..(NumLists - 1) PROVE SlotOK(b, s)
    <3>1. s \in 0..NumLists /\ s + 1 \in 0..NumLists
      BY <1>1
    <3>2. Part(b, s) = {} /\ slots[s] = 0
      BY <1>6, <2>2, <3>1 DEF Part
    <3> QED
      BY <3>2, EmptyRun DEF SlotOK
  <2>5. b[0] = 0
    BY <1>1, <2>2
  <2>6. TakeInv(b)
    BY <1>6, <1>10, <2>3, <2>4, <2>5 DEF TakeInv
  <2> QED
    BY <2>2, <2>3, <2>5, <2>6 DEF SlotsInv
<1>11. UntakenInv
  <2>1. \A x \in Nodes : next[x] = IF x = Len(n) THEN 0 ELSE x + 1
    BY <1>3, <1>4
  <2>2. Taken \in Nat
    <3>1. pNode \in Nat /\ pNode # 0 => pNode - 1 \in Nat
      BY <1>3, <1>5, <1>6
    <3>2. pNode \in Nat /\ pNext = 0 /\ Len(n) \in Nat
      BY <1>3, <1>5, <1>6
    <3> QED
      BY <3>1, <3>2 DEF Taken
  <2>3. \A x \in (Taken + 1)..Len(n) : x \in Nodes
    BY <1>3, <2>2
  <2> QED
    BY <2>1, <2>3 DEF UntakenInv
<1> QED
  BY <1>6, <1>7, <1>8, <1>9, <1>10, <1>11 DEF Inv

LEMMA OneIsFull ==
  ASSUME TypeOK, NEW s \in {0}, Len(n) >= 1
  PROVE  FullRun(s, 1)
<1>1. Power2[0] = 1
  BY Powers
<1>2. NumLists - 1 = 0 => \E c \in 0..Len(n) : 1 = c * Power2[NumLists - 1]
  <2> SUFFICES ASSUME NumLists - 1 = 0 PROVE 1 \in 0..Len(n) /\ 1 = 1 * Power2[NumLists - 1]
    OBVIOUS
  <2> QED
    BY <1>1, Setting
<1>3. s < NumLists - 1 \/ NumLists - 1 = 0
  BY Setting
<1> QED
  BY <1>1, <1>2, <1>3 DEF FullRun

LEMMA TakeNodeKeeps ==
  ASSUME Inv, TakeNode
  PROVE  Inv'
<1>1. /\ TypeOK /\ SlotsInv /\ UntakenInv
      /\ pc = "take" /\ pNode # 0 /\ pNext' = next[pNode] /\ next' = [next EXCEPT ![pNode] = 0]
      /\ i' = 0 /\ pc' = "carry"
      /\ n' = n /\ head' = head /\ slots' = slots /\ pNode' = pNode /\ call' = call /\ tmp' = tmp
  BY DEF Inv, TakeNode
<1>2. /\ n \in Seq(Nat) /\ Len(n) \in Nat /\ Nodes = 1..Len(n) /\ 0 \notin Nodes /\ StrictOrder
      /\ NumLists \in Nat /\ NumLists >= 1
  BY <1>1, Setting
<1>3. Nodes' = Nodes /\ Bounds' = Bounds /\ Len(n)' = Len(n)
  BY <1>1, SameNodes
<1>4. next \in [Nodes -> Nodes \cup {0}] /\ pNode \in Nodes
  BY <1>1 DEF TypeOK
<1>5. PICK b \in Bounds : TakeInv(b)
  BY <1>1 DEF SlotsInv, CarryInv, GatherInv, MergeInv, TakeInv
<1>6. Taken = pNode - 1 /\ b[0] = pNode - 1 /\ pNode \in Nat /\ pNode <= Len(n)
  BY <1>1, <1>2, <1>4, <1>5 DEF TakeInv, Taken
<1>7. next[pNode] = IF pNode = Len(n) THEN 0 ELSE pNode + 1
  <2>1. pNode \in (Taken + 1)..Len(n)
    BY <1>2, <1>6
  <2> QED
    BY <1>1, <2>1 DEF UntakenInv
<1>8. Taken' = pNode
  BY <1>1, <1>2, <1>6, <1>7 DEF Taken
<1>9. next' \in [Nodes -> Nodes \cup {0}] /\ next'[pNode] = 0
      /\ \A y \in Nodes : y # pNode => next'[y] = next[y]
  BY <1>1, <1>4
<1>10. TypeOK'
  BY <1>1, <1>3, <1>4, <1>9 DEF TypeOK
<1>11. ASSUME NEW s \in 0..(NumLists - 1) PROVE SlotOK(b, s)'
  <2>1. \A y \in Part(b, s) : y \in Nodes /\ y # pNode
    BY <1>1, <1>5, <1>6, BoundsFacts
  <2>2. \A y \in Part(b, s) : next'[y] = next[y]
    BY <1>9, <2>1
  <2>3. SlotOK(b, s) /\ slots'[s] = slots[s]
    BY <1>1, <1>5 DEF TakeInv
  <2> QED
    BY <1>1, <2>2, <2>3, SlotKept
<1>12. IsRun(next', pNode, (b[0] + 1)..pNode)
  <2>1. (b[0] + 1)..pNode = {pNode}
    BY <1>6
  <2>2. After(pNode, {pNode}) = {}
    BY <1>2, <1>4 DEF After, StrictOrder
  <2> QED
    BY <1>9, <2>1, <2>2 DEF IsRun, IsFirst
<1>13. FullRun(0, pNode - b[0])
  <2>1. pNode - b[0] = 1 /\ Len(n) >= 1
    BY <1>2, <1>4, <1>6
  <2>2. FullRun(0, 1)
    BY <1>1, <2>1, OneIsFull
  <2> QED
    BY <2>1, <2>2
<1>14. CarryInv(b)'
  <2>1. IsRun(next, pNode, (b[i] + 1)..Taken)'
    BY <1>1, <1>8, <1>12, RunPrimed
  <2>2. FullRun(i, Taken - b[i])'
    BY <1>1, <1>3, <1>8, <1>13 DEF FullRun
  <2>3. i' \in 0..NumLists /\ b[i'] < Taken' /\ 0..(i' - 1) = {}
    BY <1>1, <1>2, <1>6, <1>8
  <2> QED
    BY <1>1, <1>11, <2>1, <2>2, <2>3 DEF CarryInv
<1>15. SlotsInv'
  <2>1. b[0] <= Taken'
    BY <1>6, <1>8
  <2> QED
    BY <1>3, <1>5, <1>14, <2>1 DEF SlotsInv
<1>16. UntakenInv'
  <2> SUFFICES ASSUME NEW x \in (pNode + 1)..Len(n)
               PROVE  next'[x] = IF x = Len(n) THEN 0 ELSE x + 1
    BY <1>3, <1>8 DEF UntakenInv
  <2>1. x \in (Taken + 1)..Len(n) /\ x \in Nodes /\ x # pNode
    BY <1>2, <1>6
  <2> QED
    BY <1>1, <1>9, <2>1 DEF UntakenInv
<1> QED
  BY <1>1, <1>10, <1>15, <1>16 DEF Inv, WalkInv, DoneInv

LEMMA CarryKeeps ==
  ASSUME Inv, Carry
  PROVE  Inv'
<1>1. /\ TypeOK /\ SlotsInv /\ UntakenInv
      /\ pc = "carry" /\ i < NumLists /\ slots[i] # 0
      /\ call' = [from |-> "carry", src1 |-> slots[i], src2 |-> pNode, dst |-> 0, tail |-> 0]
      /\ pc' = "merge"
      /\ n' = n /\ next' = next /\ head' = head /\ slots' = slots /\ pNode' = pNode
      /\ pNext' = pNext /\ i' = i /\ tmp' = tmp
  BY DEF Inv, Carry, MergeLists
<1>2. /\ n \in Seq(Nat) /\ Len(n) \in Nat /\ Nodes = 1..Len(n) /\ 0 \notin Nodes /\ StrictOrder
      /\ NumLists \in Nat /\ NumLists >= 1
  BY <1>1, Setting
<1>3. Nodes' = Nodes /\ Bounds' = Bounds /\ Len(n)' = Len(n)
  BY <1>1, SameNodes
<1>4. PICK b \in Bounds : CarryInv(b) /\ b[0] <= Taken
  BY <1>1 DEF SlotsInv, CarryInv, GatherInv, MergeInv, TakeInv
<1>5. i \in 0..(NumLists - 1) /\ slots[i] \in Nodes \cup {0}
  <2>1. i \in 0..(NumLists - 1)
    BY <1>1, <1>2, <1>4 DEF CarryInv
  <2> QED
    BY <1>1, <2>1 DEF TypeOK
<1>6. Taken' = Taken
  BY <1>1 DEF Taken
<1>7. TypeOK'
  BY <1>1, <1>3, <1>5 DEF TypeOK
<1>8. call'.from = "carry" /\ call'.src1 = slots[i] /\ call'.src2 = pNode
      /\ call'.dst = 0 /\ call'.tail = 0
  BY <1>1
<1>9. ASSUME NEW s \in (i + 1)..(NumLists - 1) PROVE SlotOK(b, s)'
  <2>1. s \in i..(NumLists - 1)
    BY <1>5
  <2> QED
    BY <1>1, <1>4, <2>1, SlotKept DEF CarryInv
<1>10. SlotOK(b, i)
  <2>1. i \in i..(NumLists - 1)
    BY <1>5
  <2> QED
    BY <1>4, <2>1 DEF CarryInv
<1>11. MergeInv(b)'
  <2>1. /\ b[i] < Taken /\ FullRun(i, Taken - b[i]) /\ IsRun(next, pNode, (b[i] + 1)..Taken)
        /\ \A s \in 0..(i - 1) : slots[s] = 0
    BY <1>4 DEF CarryInv
  <2>2. IsRun(next, slots[i], Part(b, i)) /\ FullRun(i, b[i] - b[i + 1])
    BY <1>1, <1>10 DEF SlotOK
  <2>3. FullRun(i, Taken - b[i])' /\ FullRun(i, b[i] - b[i + 1])'
    BY <1>1, <1>3, <1>6, <2>1, <2>2 DEF FullRun
  <2> DEFINE old == Part(b, i)
             new == (b[i] + 1)..Taken
             out == Moved(old \cup new)
  <2>4. out' = {} /\ old' = old /\ new' = new
    BY <1>1, <1>6, <1>8 DEF Moved, Part
  <2>5. IsRun(next, call.src1, old \ out)'
    BY <1>1, <1>8, <2>2, <2>4, RunPrimed
  <2>6. IsRun(next, call.src2, new \ out)'
    BY <1>1, <1>8, <2>1, <2>4, RunPrimed
  <2>7. IsFirst(call.dst, out)'
    BY <1>8, <2>4 DEF IsFirst
  <2> HIDE DEF out, old, new
  <2>8. (\A y \in out \ {call.tail} : IsFirst(next[y], After(y, out)))'
    BY <2>4
  <2> USE DEF out, old, new
  <2> QED
    BY <1>1, <1>5, <1>6, <1>8, <1>9, <2>1, <2>3, <2>5, <2>6, <2>7, <2>8 DEF MergeInv
<1>12. SlotsInv'
  BY <1>3, <1>4, <1>6, <1>11 DEF SlotsInv
<1>13. UntakenInv'
  BY <1>1, <1>6 DEF UntakenInv
<1> QED
  BY <1>1, <1>7, <1>12, <1>13 DEF Inv, WalkInv, DoneInv

LEMMA AllTakenKeeps ==
  ASSUME Inv, AllTaken
  PROVE  Inv'
<1>1. /\ TypeOK /\ SlotsInv
      /\ pc = "take" /\ pNode = 0 /\ i' = 0 /\ pc' = "gather"
      /\ n' = n /\ next' = next /\ head' = head /\ slots' = slots /\ pNode' = pNode
      /\ pNext' = pNext /\ call' = call /\ tmp' = tmp
  BY DEF Inv, AllTaken
<1>2. Len(n) \in Nat /\ Nodes = 1..Len(n) /\ 0 \notin Nodes /\ NumLists \in Nat /\ NumLists >= 1
  BY <1>1, Setting
<1>3. Nodes' = Nodes /\ Bounds' = Bounds /\ Len(n)' = Len(n)
  BY <1>1, SameNodes
<1>4. PICK b \in Bounds : TakeInv(b)
  BY <1>1 DEF SlotsInv, CarryInv, GatherInv, MergeInv, TakeInv
<1>5. pNext = 0 /\ b[0] = Len(n)
  BY <1>1, <1>4 DEF TakeInv, Taken
<1>6. TypeOK'
  BY <1>1, <1>3 DEF TypeOK
<1>7. Taken' = Len(n)
  BY <1>1, <1>3, <1>5 DEF Taken
<1>8. ASSUME NEW s \in 0..(NumLists - 1) PROVE SlotOK(b, s)'
  BY <1>1, <1>4, SlotKept DEF TakeInv
<1>9. IsRun(next, pNode, (b[i] + 1)..Len(n))'
  <2>1. (b[0] + 1)..Len(n) = {}
    BY <1>2, <1>5
  <2>2. IsRun(next, 0, {})
    BY EmptyRun
  <2> QED
    BY <1>1, <1>3, <2>1, <2>2, RunPrimed
<1>10. GatherInv(b)'
  <2>1. i' \in 0..NumLists
    BY <1>1, <1>2
  <2> QED
    BY <1>1, <1>5, <1>8, <1>9, <2>1 DEF GatherInv
<1>11. SlotsInv'
  <2>1. b[0] <= Taken'
    BY <1>2, <1>5, <1>7
  <2> QED
    BY <1>3, <1>4, <1>10, <2>1 DEF SlotsInv
<1> QED
  BY <1>1, <1>6, <1>11 DEF Inv, WalkInv, DoneInv

LEMMA GatherKeeps ==
  ASSUME Inv, Gather
  PROVE  Inv'
<1>1. /\ TypeOK /\ SlotsInv
      /\ pc = "gather" /\ i < NumLists
      /\ call' = [from |-> "gather", src1 |-> slots[i], src2 |-> pNode, dst |-> 0, tail |-> 0]
      /\ pc' = "merge"
      /\ n' = n /\ next' = next /\ head' = head /\ slots' = slots /\ pNode' = pNode
      /\ pNext' = pNext /\ i' = i /\ tmp' = tmp
  BY DEF Inv, Gather, MergeLists
<1>2. /\ n \in Seq(Nat) /\ Len(n) \in Nat /\ Nodes = 1..Len(n) /\ 0 \notin Nodes /\ StrictOrder
      /\ NumLists \in Nat /\ NumLists >= 1
  BY <1>1, Setting
<1>3. Nodes' = Nodes /\ Bounds' = Bounds /\ Len(n)' = Len(n)
  BY <1>1, SameNodes
<1>4. PICK b \in Bounds : GatherInv(b) /\ b[0] <= Taken
  BY <1>1 DEF SlotsInv, CarryInv, GatherInv, MergeInv, TakeInv
<1>5. i \in 0..(NumLists - 1) /\ slots[i] \in Nodes \cup {0}
  <2>1. i \in 0..(NumLists - 1)
    BY <1>1, <1>2, <1>4 DEF GatherInv
  <2> QED
    BY <1>1, <2>1 DEF TypeOK
<1>6. pNext = 0 /\ Taken' = Taken /\ Taken = Len(n)
  BY <1>1, <1>3, <1>4 DEF Taken, GatherInv
<1>7. TypeOK'
  BY <1>1, <1>3, <1>5 DEF TypeOK
<1>8. call'.from = "gather" /\ call'.src1 = slots[i] /\ call'.src2 = pNode
      /\ call'.dst = 0 /\ call'.tail = 0
  BY <1>1
<1>9. ASSUME NEW s \in (i + 1)..(NumLists - 1) PROVE SlotOK(b, s)'
  <2>1. s \in i..(NumLists - 1)
    BY <1>5
  <2> QED
    BY <1>1, <1>4, <2>1, SlotKept DEF GatherInv
<1>10. SlotOK(b, i)
  <2>1. i \in i..(NumLists - 1)
    BY <1>5
  <2> QED
    BY <1>4, <2>1 DEF GatherInv
<1>11. MergeInv(b)'
  <2>1. IsRun(next, pNode, (b[i] + 1)..Taken)
    BY <1>4, <1>6 DEF GatherInv
  <2>2. IsRun(next, slots[i], Part(b, i))
    BY <1>10 DEF SlotOK
  <2> DEFINE old == Part(b, i)
             new == (b[i] + 1)..Taken
             out == Moved(old \cup new)
  <2>4. out' = {} /\ old' = old /\ new' = new
    BY <1>1, <1>6, <1>8 DEF Moved, Part
  <2>5. IsRun(next, call.src1, old \ out)'
    BY <1>1, <1>8, <2>2, <2>4, RunPrimed
  <2>6. IsRun(next, call.src2, new \ out)'
    BY <1>1, <1>8, <2>1, <2>4, RunPrimed
  <2>7. IsFirst(call.dst, out)'
    BY <1>8, <2>4 DEF IsFirst
  <2> HIDE DEF out, old, new
  <2>8. (\A y \in out \ {call.tail} : IsFirst(next[y], After(y, out)))'
    BY <2>4
  <2> USE DEF out, old, new
  <2> QED
    BY <1>1, <1>5, <1>6, <1>8, <1>9, <2>5, <2>6, <2>7, <2>8 DEF MergeInv
<1>12. SlotsInv'
  BY <1>3, <1>4, <1>6, <1>11 DEF SlotsInv
<1>13. UntakenInv'
  <2>1. (Len(n) + 1)..Len(n) = {}
    BY <1>2
  <2> QED
    BY <1>3, <1>6, <2>1 DEF UntakenInv
<1> QED
  BY <1>1, <1>7, <1>12, <1>13 DEF Inv, WalkInv, DoneInv

LEMMA GatheredKeeps ==
  ASSUME Inv, Gathered
  PROVE  Inv'
<1>1. /\ TypeOK /\ SlotsInv
      /\ pc = "gather" /\ i = NumLists /\ head' = pNode /\ pc' = "done"
      /\ n' = n /\ next' = next /\ slots' = slots /\ pNode' = pNode
      /\ pNext' = pNext /\ i' = i /\ call' = call /\ tmp' = tmp
  BY DEF Inv, Gathered
<1>2. Len(n) \in Nat /\ Nodes = 1..Len(n)
  BY <1>1, Setting
<1>3. Nodes' = Nodes
  BY <1>1, SameNodes
<1>4. PICK b \in Bounds : GatherInv(b)
  BY <1>1 DEF SlotsInv, CarryInv, GatherInv, MergeInv, TakeInv
<1>5. TypeOK'
  BY <1>1, <1>3 DEF TypeOK
<1>6. IsRun(next, pNode, Nodes)
  <2>1. b[i] = 0
    BY <1>1, <1>4 DEF Bounds
  <2>2. (b[i] + 1)..Len(n) = Nodes
    BY <1>2, <2>1
  <2> QED
    BY <1>4, <2>2 DEF GatherInv
<1>7. IsRun(next, head, Nodes)'
  BY <1>1, <1>3, <1>6, RunPrimed
<1> QED
  BY <1>1, <1>5, <1>7 DEF Inv, WalkInv, DoneInv

LEMMA StoreKeeps ==
  ASSUME Inv, Store
  PROVE  Inv'
<1>1. /\ TypeOK /\ SlotsInv /\ UntakenInv
      /\ pc = "carry" /\ (i < NumLists => slots[i] = 0)
      /\ i' = (IF i = NumLists THEN i - 1 ELSE i)
      /\ slots' = [slots EXCEPT ![i'] = pNode]
      /\ pNode' = pNext /\ pc' = "take"
      /\ n' = n /\ next' = next /\ head' = head /\ pNext' = pNext /\ call' = call /\ tmp' = tmp
  BY DEF Inv, Store
<1>2. /\ n \in Seq(Nat) /\ Len(n) \in Nat /\ Nodes = 1..Len(n) /\ 0 \notin Nodes
      /\ NumLists \in Nat /\ NumLists >= 1
  BY <1>1, Setting
<1>3. Nodes' = Nodes /\ Bounds' = Bounds /\ Len(n)' = Len(n)
  BY <1>1, SameNodes
<1>4. PICK b \in Bounds : CarryInv(b) /\ b[0] <= Taken
  BY <1>1 DEF SlotsInv, CarryInv, GatherInv, MergeInv, TakeInv
<1>5. /\ Taken' = Taken /\ Taken \in Nat /\ Taken <= Len(n)
  <2>1. Taken' = Taken
    BY <1>1 DEF Taken
  <2>2. Taken = IF pNext = 0 THEN Len(n) ELSE pNext - 1
    BY <1>1 DEF Taken
  <2>3. pNext \in 1..Len(n) \/ pNext = 0
    BY <1>1, <1>2 DEF TypeOK
  <2> QED
    BY <1>2, <2>1, <2>2, <2>3
<1>6. PICK j \in 0..(NumLists - 1) : j = i' /\ (i = j \/ (i = NumLists /\ j = NumLists - 1))
  <2>1. i \in 0..NumLists
    BY <1>4 DEF CarryInv
  <2> QED
    BY <1>1, <1>2, <2>1
<1>6a. j \in Nat /\ j < NumLists /\ NumLists \in Nat
  <2>1. NumLists \in Nat
    BY <1>2
  <2> QED
    BY <2>1
<1>7. /\ slots' \in [0..(NumLists - 1) -> Nodes \cup {0}]
      /\ slots'[j] = pNode
      /\ \A s \in 0..(NumLists - 1) : s # j => slots'[s] = slots[s]
  <2>1. slots \in [0..(NumLists - 1) -> Nodes \cup {0}] /\ pNode \in Nodes \cup {0}
    BY <1>1 DEF TypeOK
  <2> QED
    BY <1>1, <1>6, <2>1
<1>8. TypeOK'
  BY <1>1, <1>3, <1>7 DEF TypeOK
<1>9. /\ b \in [0..NumLists -> 0..Len(n)] /\ b[NumLists] = 0
      /\ \A r, s \in 0..NumLists : r <= s => b[s] <= b[r]
  BY <1>4 DEF Bounds
<1>10. PICK c : c = [r \in 0..NumLists |-> IF r <= j THEN Taken ELSE b[r]]
  OBVIOUS
<1>11. /\ \A r \in 0..j : r \in 0..NumLists /\ c[r] = Taken
       /\ \A r \in (j + 1)..NumLists : r \in 0..NumLists /\ c[r] = b[r]
  <2>1. /\ \A r \in 0..j : r \in 0..NumLists /\ r <= j
        /\ \A r \in (j + 1)..NumLists : r \in 0..NumLists /\ ~(r <= j)
    BY <1>6a
  <2> QED
    BY <1>10, <2>1
<1>12. \A r \in 0..NumLists : b[r] \in Nat /\ b[r] <= Taken /\ b[r] <= Len(n)
  <2>1. \A r \in 0..NumLists : b[r] \in Nat /\ b[r] <= Len(n) /\ b[r] <= b[0]
    BY <1>1, <1>4, BoundsFacts
  <2>2. 0 \in 0..NumLists
    BY <1>2
  <2> QED
    BY <1>4, <1>5, <2>1, <2>2
<1>13. c \in Bounds
  <2>1. c \in [0..NumLists -> 0..Len(n)]
    <3> SUFFICES ASSUME NEW r \in 0..NumLists
                 PROVE  (IF r <= j THEN Taken ELSE b[r]) \in 0..Len(n)
      BY <1>10
    <3> QED
      BY <1>2, <1>5, <1>12
  <2>2. c[NumLists] = 0
    <3>1. NumLists \in (j + 1)..NumLists
      BY <1>6a
    <3> QED
      BY <1>9, <1>11, <3>1
  <2>3. ASSUME NEW r \in 0..NumLists, NEW s \in 0..NumLists, r <= s
        PROVE  c[s] <= c[r]
    <3>1. CASE r <= j
      <4>1. c[r] = Taken /\ (c[s] = Taken \/ c[s] = b[s])
        BY <1>10, <3>1
      <4> QED
        BY <1>5, <1>12, <4>1
    <3>2. CASE ~(r <= j)
      <4>1. ~(s <= j)
        BY <1>2, <1>6, <2>3, <3>2
      <4>2. c[r] = b[r] /\ c[s] = b[s]
        BY <1>10, <3>2, <4>1
      <4> QED
        BY <1>9, <2>3, <4>2
    <3> QED
      BY <3>1, <3>2
  <2> QED
    BY <2>1, <2>2, <2>3 DEF Bounds
<1>14. c[j] = Taken /\ c[j + 1] = b[j + 1] /\ b[j + 1] = b[i]
  <2>1. j \in 0..j /\ j + 1 \in (j + 1)..NumLists
    BY <1>6a
  <2>2. b[j + 1] = b[i]
    <3>1. CASE i = NumLists /\ j = NumLists - 1
      <4>1. j + 1 = i
        BY <1>2, <3>1
      <4> QED
        BY <4>1
    <3>2. CASE i = j
      <4>1. i < NumLists /\ i \in i..(NumLists - 1) /\ i \in 0..(NumLists - 1)
        BY <1>2, <1>6, <3>2
      <4>2. IsRun(next, 0, Part(b, i))
        BY <1>1, <1>4, <4>1 DEF CarryInv, SlotOK
      <4>3. Part(b, i) \in SUBSET Nodes /\ b[i + 1] <= b[i] /\ i + 1 \in 0..NumLists /\ i \in 0..NumLists
        BY <1>1, <1>4, <4>1, BoundsFacts
      <4>4. Part(b, i) = {}
        BY <1>2, <4>2, <4>3, RunBegins
      <4>5. b[i] \in Nat /\ b[i + 1] \in Nat
        BY <1>12, <4>3
      <4>6. ~(b[i + 1] < b[i])
        <5> SUFFICES ASSUME b[i + 1] < b[i] PROVE FALSE
          OBVIOUS
        <5>1. b[i] \in (b[i + 1] + 1)..b[i]
          BY <4>5
        <5> QED
          BY <4>4, <5>1 DEF Part
      <4>7. b[i + 1] = b[i]
        BY <4>3, <4>5, <4>6
      <4> QED
        BY <3>2, <4>7
    <3> QED
      BY <1>6, <3>1, <3>2
  <2> QED
    BY <1>11, <2>1, <2>2
<1>15. SlotOK(c, j)'
  <2>1. IsRun(next, pNode, (b[i] + 1)..Taken) /\ FullRun(i, Taken - b[i])
    BY <1>4 DEF CarryInv
  <2>2. Part(c, j) = (b[i] + 1)..Taken
    BY <1>14 DEF Part
  <2>3. IsRun(next', slots'[j], Part(c, j))
    BY <1>1, <1>7, <2>1, <2>2
  <2>4. FullRun(j, c[j] - c[j + 1])
    <3>1. i < NumLists - 1 <=> j < NumLists - 1
      BY <1>2, <1>6
    <3>2. i < NumLists - 1 => i = j
      BY <1>2, <1>6
    <3> QED
      BY <1>14, <2>1, <3>1, <3>2 DEF FullRun
  <2> QED
    BY <1>1, <2>3, <2>4, SlotFilled
<1>16. ASSUME NEW s \in 0..(NumLists - 1), s < j PROVE SlotOK(c, s)'
  <2>1. s \in 0..(i - 1)
    <3>1. i \in 0..NumLists
      BY <1>4 DEF CarryInv
    <3> QED
      BY <1>2, <1>6, <1>16, <3>1
  <2>2. slots'[s] = 0
    <3>1. slots[s] = 0
      BY <1>4, <2>1 DEF CarryInv
    <3>2. s # j
      BY <1>6, <1>16
    <3> QED
      BY <1>7, <3>1, <3>2
  <2>3. s \in 0..j /\ s + 1 \in 0..j
    BY <1>6a, <1>16
  <2>4. Part(c, s) = {}
    <3>1. c[s] = Taken /\ c[s + 1] = Taken
      BY <1>11, <2>3
    <3> QED
      BY <1>5, <3>1 DEF Part
  <2> QED
    BY <1>1, <2>2, <2>4, EmptyRun, SlotFilled
<1>17. ASSUME NEW s \in 0..(NumLists - 1), j < s PROVE SlotOK(c, s)'
  <2>1. s \in i..(NumLists - 1) /\ s # j
    BY <1>2, <1>6, <1>17
  <2>2. SlotOK(b, s) /\ slots'[s] = slots[s]
    BY <1>4, <1>7, <2>1 DEF CarryInv
  <2>3. s \in (j + 1)..NumLists /\ s + 1 \in (j + 1)..NumLists
    BY <1>6a, <1>17
  <2>4. c[s] = b[s] /\ c[s + 1] = b[s + 1]
    BY <1>11, <2>3
  <2> QED
    BY <1>1, <2>2, <2>4, SlotKept
<1>18. TakeInv(c)'
  <2>1. ASSUME NEW s \in 0..(NumLists - 1) PROVE SlotOK(c, s)'
    <3>1. s = j \/ s < j \/ j < s
      BY <1>2, <1>6
    <3> QED
      BY <1>15, <1>16, <1>17, <3>1
  <2>2. c[0] = Taken'
    <3>1. 0 \in 0..j
      BY <1>6
    <3> QED
      BY <1>5, <1>11, <3>1
  <2> QED
    BY <1>1, <2>1, <2>2 DEF TakeInv
<1>19. SlotsInv'
  <2>1. c[0] <= Taken'
    <3>1. 0 \in 0..j
      BY <1>6
    <3>2. c[0] = Taken
      BY <1>11, <3>1
    <3> QED
      BY <1>5, <3>2
  <2> QED
    BY <1>3, <1>13, <1>18, <2>1 DEF SlotsInv
<1>20. UntakenInv'
  BY <1>1, <1>5 DEF UntakenInv
<1> QED
  BY <1>1, <1>8, <1>19, <1>20 DEF Inv, WalkInv, DoneInv

\* The nodes of A up to t, and the next pointer that t gets.
Upto(A, t) == IF t = 0 THEN {} ELSE {z \in A : z = t \/ Before(z, t)}
Joined(f, t, x) == IF t = 0 THEN f ELSE [f EXCEPT ![t] = x]
Front(d, t, x) == IF t = 0 THEN x ELSE d

\* The destination from d to t holds the nodes of A up to t.
Merging(f, A, d, t) ==
  /\ t # 0 => t \in A
  /\ IsFirst(d, Upto(A, t))
  /\ \A y \in Upto(A, t) \ {t} : IsFirst(f[y], After(y, Upto(A, t)))

\* So it does when x has been appended.
MergingGoesOn(f, A, d, t, x) ==
  /\ Upto(A, x) = Upto(A, t) \cup {x}
  /\ Merging(Joined(f, t, x), A, Front(d, t, x), x)

(* The first of what is not moved yet is appended: the destination is the  *)
(* beginning of the merged run, up to the new tail x.                      *)
LEMMA Appended ==
  ASSUME 0 \notin Nodes, StrictOrder,
         NEW A \in SUBSET Nodes, NEW t, NEW d, NEW f \in [Nodes -> Nodes \cup {0}],
         Merging(f, A, d, t),
         NEW x \in A \ Upto(A, t), \A z \in A \ Upto(A, t) : z = x \/ Before(x, z)
  PROVE  MergingGoesOn(f, A, d, t, x)
<1>a. PICK out, more, g, e : /\ out = Upto(A, t) /\ more = Upto(A, x)
                             /\ g = Joined(f, t, x) /\ e = Front(d, t, x)
  OBVIOUS
<1>b. /\ t # 0 => t \in A
      /\ out = IF t = 0 THEN {} ELSE {z \in A : z = t \/ Before(z, t)}
      /\ x \in A \ out /\ \A z \in A \ out : z = x \/ Before(x, z)
      /\ IsFirst(d, out) /\ \A y \in out \ {t} : IsFirst(f[y], After(y, out))
  BY <1>a DEF Upto, Merging
<1>c. /\ g = IF t = 0 THEN f ELSE [f EXCEPT ![t] = x]
      /\ e = IF t = 0 THEN x ELSE d
      /\ x # 0 /\ more = {z \in A : z = x \/ Before(z, x)}
  BY <1>a, <1>b DEF Upto, Joined, Front
<1>1. \A z \in out : Before(z, x)
  <2> SUFFICES ASSUME NEW z \in out PROVE Before(z, x)
    OBVIOUS
  <2>1. t \in A /\ z \in A /\ (z = t \/ Before(z, t))
    BY <1>b
  <2>2. Before(t, x)
    BY <1>b, <2>1 DEF StrictOrder
  <2> QED
    BY <1>b, <1>c, <2>1, <2>2 DEF StrictOrder
<1>2. more = out \cup {x}
  <2>1. \A z \in A \ out : Before(z, x) => z = x
    BY <1>b, <1>c DEF StrictOrder
  <2>2. out \in SUBSET A
    BY <1>b, <1>c
  <2> QED
    BY <1>b, <1>c, <1>1, <2>1, <2>2
<1>3. IsFirst(e, more)
  <2>1. CASE t = 0
    BY <1>b, <1>c, <1>2, <2>1 DEF IsFirst
  <2>2. CASE t # 0
    <3>1. t \in out
      BY <1>b, <1>c, <2>2
    <3>2. d \in out /\ \A y \in out : y = d \/ Before(d, y)
      BY <1>b, <1>c, <3>1 DEF IsFirst
    <3> QED
      BY <1>b, <1>c, <1>1, <1>2, <2>2, <3>2 DEF IsFirst
  <2> QED
    BY <1>b, <1>c, <2>1, <2>2
<1>4. ASSUME NEW y \in more \ {x}
      PROVE  IsFirst(g[y], After(y, more))
  <2>1. y \in out /\ t # 0 /\ t \in out /\ y \in Nodes /\ t \in Nodes
    BY <1>b, <1>c, <1>2, <1>4
  <2>2. After(y, more) = After(y, out) \cup {x}
    BY <1>b, <1>c, <1>1, <1>2, <2>1 DEF After
  <2>3. CASE y = t
    <3>1. g[y] = x
      BY <1>b, <1>c, <2>1, <2>3
    <3>2. After(y, out) = {}
      <4>1. \A z \in out : z = t \/ Before(z, t)
        BY <1>b, <1>c, <2>1
      <4>2. \A z \in out : z \in Nodes
        BY <1>b, <1>c
      <4> QED
        BY <1>b, <1>c, <2>1, <2>3, <4>1, <4>2 DEF After, StrictOrder
    <3> QED
      BY <1>b, <1>c, <2>2, <3>1, <3>2 DEF IsFirst
  <2>4. CASE y # t
    <3>1. g[y] = f[y]
      BY <1>b, <1>c, <2>1, <2>4
    <3>2. Before(y, t)
      BY <1>b, <1>c, <2>1, <2>4
    <3>3. f[y] \in After(y, out) /\ \A z \in After(y, out) : z = f[y] \/ Before(f[y], z)
      BY <1>b, <1>c, <2>1, <2>4, <3>2 DEF IsFirst, After
    <3>4. Before(f[y], x)
      BY <1>b, <1>c, <1>1, <3>3 DEF After
    <3> QED
      BY <1>b, <1>c, <2>2, <3>1, <3>3, <3>4 DEF IsFirst
  <2> QED
    BY <1>b, <1>c, <2>3, <2>4
<1>5. Upto(A, x) = Upto(A, t) \cup {x}
  BY <1>a, <1>2
<1>6. Merging(g, A, e, x)
  BY <1>a, <1>b, <1>3, <1>4 DEF Merging
<1> QED
  BY <1>a, <1>5, <1>6 DEF MergingGoesOn

(* What is left of one source, when the other is empty, follows the tail.  *)
LEMMA RestFollows ==
  ASSUME 0 \notin Nodes, StrictOrder,
         NEW A \in SUBSET Nodes, NEW t, NEW d, NEW f \in [Nodes -> Nodes \cup {0}],
         Merging(f, A, d, t),
         NEW r, IsRun(f, r, A \ Upto(A, t))
  PROVE  IsRun(Joined(f, t, r), Front(d, t, r), A)
<1>a. PICK out, g, e : out = Upto(A, t) /\ g = Joined(f, t, r) /\ e = Front(d, t, r)
  OBVIOUS
<1>b. /\ t # 0 => t \in A
      /\ out = IF t = 0 THEN {} ELSE {z \in A : z = t \/ Before(z, t)}
      /\ IsFirst(d, out) /\ \A y \in out \ {t} : IsFirst(f[y], After(y, out))
      /\ IsRun(f, r, A \ out)
  BY <1>a DEF Upto, Merging
<1>c. /\ g = IF t = 0 THEN f ELSE [f EXCEPT ![t] = r]
      /\ e = IF t = 0 THEN r ELSE d
  BY <1>a DEF Joined, Front
<1>1. ASSUME t = 0 PROVE IsRun(g, e, A)
  <2>1. A \ out = A
    BY <1>b, <1>c, <1>1
  <2> QED
    BY <1>b, <1>c, <1>1, <2>1
<1>2. ASSUME t # 0 PROVE IsRun(g, e, A)
  <2>1. t \in out /\ out \in SUBSET Nodes /\ A \ out \in SUBSET Nodes /\ t \in Nodes
    BY <1>b, <1>c, <1>2
  <2>2. g[t] = r /\ \A y \in Nodes \ {t} : g[y] = f[y]
    BY <1>b, <1>c, <1>2, <2>1
  <2>3. \A y \in out \ {t} : IsFirst(g[y], After(y, out))
    BY <1>b, <1>c, <2>1, <2>2
  <2>4. \A y \in out : y = t \/ Before(y, t)
    BY <1>b, <1>c, <1>2
  <2>5. ASSUME NEW y \in out, NEW z \in A \ out PROVE Before(y, z)
    <3>1. Before(t, z)
      BY <1>b, <1>c, <1>2, <2>5 DEF StrictOrder
    <3> QED
      BY <1>b, <1>c, <2>1, <2>4, <2>5, <3>1 DEF StrictOrder
  <2>6. IsRun(g, r, A \ out)
    <3>1. \A y \in A \ out : g[y] = f[y]
      BY <1>b, <1>c, <2>1, <2>2
    <3> QED
      BY <1>b, <1>c, <3>1, SameRun
  <2>7. PICK B \in SUBSET Nodes : B = A \ out
    BY <1>b, <1>c, <2>1
  <2>8. IsRun(g, d, out \cup B)
    BY <1>b, <1>c, <2>1, <2>2, <2>3, <2>4, <2>5, <2>6, <2>7, RunsJoin
  <2>9. out \cup B = A
    BY <1>b, <1>c, <1>2, <2>7
  <2> QED
    BY <1>b, <1>c, <1>2, <2>8, <2>9
<1>3. IsRun(g, e, A)
  BY <1>1, <1>2
<1> QED
  BY <1>a, <1>3

LEMMA TakenFacts ==
  ASSUME TypeOK
  PROVE  Taken \in Nat /\ Taken <= Len(n)
<1>1. Len(n) \in Nat /\ Nodes = 1..Len(n)
  BY Setting
<1>2. pNode \in Nodes \cup {0} /\ pNext \in Nodes \cup {0}
  BY DEF TypeOK
<1>3. PICK rest \in Nodes \cup {0} : Taken = IF rest = 0 THEN Len(n) ELSE rest - 1
  BY <1>2 DEF Taken
<1> QED
  BY <1>1, <1>3

\* The nodes of two runs that are merged, of slot k and of those above.
TwoRuns(b, k, w) ==
  LET old == Part(b, k)
      new == (b[k] + 1)..w
  IN  /\ old \cup new = (b[k + 1] + 1)..w
      /\ old \cup new \in SUBSET Nodes
      /\ \A x \in old \cup new : x \in Nat /\ b[k + 1] < x /\ x <= w
      /\ \A x \in old, y \in new : x \in Nat /\ y \in Nat /\ x < y
      /\ b[k] \in Nat /\ b[k + 1] \in Nat /\ b[k + 1] <= b[k] /\ b[k] <= w
      /\ k + 1 \in 0..NumLists

LEMMA TwoRunsAreMerged ==
  ASSUME TypeOK, NEW b \in Bounds, b[0] <= Taken, NEW k \in 0..(NumLists - 1)
  PROVE  TwoRuns(b, k, Taken)
<1>1. k \in 0..NumLists /\ k + 1 \in 0..NumLists /\ 0 \in 0..NumLists
  BY Setting
<1>2. /\ b[k] \in Nat /\ b[k + 1] \in Nat /\ b[0] \in Nat
      /\ b[k + 1] <= b[k] /\ b[k] <= b[0] /\ b[k] <= Len(n)
  BY <1>1, BoundsFacts
<1>3. Taken \in Nat /\ Taken <= Len(n) /\ Len(n) \in Nat /\ Nodes = 1..Len(n)
  BY Setting, TakenFacts
<1>4. b[k] <= Taken
  BY <1>2, <1>3
<1>5. PICK p \in Nat, q \in Nat, w \in Nat :
        /\ p = b[k + 1] /\ q = b[k] /\ w = Taken
        /\ p <= q /\ q <= w
  BY <1>2, <1>3, <1>4
<1>6. PICK old, new : old = (p + 1)..q /\ new = (q + 1)..w
  OBVIOUS
<1>7. /\ old \cup new = (p + 1)..w
      /\ \A x \in old \cup new : x \in Nat /\ p < x /\ x <= w
      /\ \A x \in old, y \in new : x \in Nat /\ y \in Nat /\ x < y
  <2>1. p \in Nat /\ q \in Nat /\ w \in Nat /\ p <= q /\ q <= w
    BY <1>5
  <2>2. \A x \in old \cup new : x \in Nat /\ p < x /\ x <= w
    BY <1>6, <2>1
  <2>3. \A x \in old, y \in new : x \in Nat /\ y \in Nat /\ x < y
    BY <1>6, <2>1
  <2>4. \A x \in (p + 1)..w : x \in old \cup new
    BY <1>6, <2>1
  <2>5. \A x \in old \cup new : x \in (p + 1)..w
    BY <2>1, <2>2
  <2> QED
    BY <2>2, <2>3, <2>4, <2>5, Zenon
<1>8. (p + 1)..w \in SUBSET Nodes
  <2>1. Len(n) \in Nat /\ w <= Len(n)
    BY <1>3, <1>5
  <2> QED
    BY <1>3, <2>1
<1>9. old = Part(b, k) /\ new = (b[k] + 1)..Taken
  BY <1>5, <1>6 DEF Part
<1> QED
  BY <1>1, <1>2, <1>4, <1>5, <1>7, <1>8, <1>9, Zenon DEF TwoRuns

LEMMA MergeStepKeeps ==
  ASSUME Inv, MergeStep
  PROVE  Inv'
<1> DEFINE x == IF SecondFirst(call.src1, call.src2) THEN call.src2 ELSE call.src1
<1>1. /\ TypeOK /\ SlotsInv /\ UntakenInv
      /\ pc = "merge" /\ call.src1 # 0 /\ call.src2 # 0
      /\ next' = Linked(x)
      /\ call' = [call EXCEPT !.dst = Destination(x), !.tail = x,
                              !.src1 = IF x = @ THEN next[x] ELSE @,
                              !.src2 = IF x = @ THEN next[x] ELSE @]
      /\ n' = n /\ pc' = pc /\ head' = head /\ slots' = slots /\ pNode' = pNode
      /\ pNext' = pNext /\ i' = i /\ tmp' = tmp
  BY DEF Inv, MergeStep
<1>2. /\ n \in Seq(Nat) /\ Len(n) \in Nat /\ Nodes = 1..Len(n) /\ 0 \notin Nodes /\ StrictOrder
      /\ NumLists \in Nat /\ NumLists >= 1
  BY <1>1, Setting
<1>3. Nodes' = Nodes /\ Bounds' = Bounds /\ Len(n)' = Len(n)
  BY <1>1, SameNodes
<1>4. PICK b \in Bounds : MergeInv(b) /\ b[0] <= Taken
  BY <1>1 DEF SlotsInv, CarryInv, GatherInv, MergeInv, TakeInv
<1>5. /\ next \in [Nodes -> Nodes \cup {0}]
      /\ call \in [from : {"none", "carry", "gather"}, src1 : Nodes \cup {0},
                   src2 : Nodes \cup {0}, dst : Nodes \cup {0}, tail : Nodes \cup {0}]
  BY <1>1 DEF TypeOK
<1>6. Taken' = Taken
  BY <1>1 DEF Taken
<1>7. PICK old, new, A, out, t, d, a, c :
        /\ old = Part(b, i) /\ new = (b[i] + 1)..Taken /\ A = old \cup new /\ out = Moved(A)
        /\ t = call.tail /\ d = call.dst /\ a = call.src1 /\ c = call.src2
  OBVIOUS
<1>8. /\ i \in 0..(NumLists - 1)
      /\ IsRun(next, a, old \ out) /\ IsRun(next, c, new \ out)
      /\ IsFirst(d, out) /\ (t # 0 => t \in out)
      /\ \A y \in out \ {t} : IsFirst(next[y], After(y, out))
      /\ \A s \in (i + 1)..(NumLists - 1) : SlotOK(b, s)
  BY <1>4, <1>7, Zenon DEF MergeInv
<1>9. /\ A = (b[i + 1] + 1)..Taken /\ A \in SUBSET Nodes
      /\ \A y \in A : y \in Nat /\ b[i + 1] < y /\ y <= Taken
      /\ \A y \in old, z \in new : y \in Nat /\ z \in Nat /\ y < z
      /\ b[i] \in Nat /\ b[i + 1] \in Nat /\ b[i + 1] <= b[i] /\ i + 1 \in 0..NumLists
  <2>1. TwoRuns(b, i, Taken)
    BY <1>1, <1>4, <1>8, TwoRunsAreMerged
  <2> QED
    BY <1>7, <2>1, Zenon DEF TwoRuns
<1>10. out = Upto(A, t)
  BY <1>7 DEF Moved, Upto
<1>11. t # 0 => t \in A
  BY <1>8, <1>10 DEF Upto
<1>12. /\ a \in old \ out /\ \A y \in old \ out : y = a \/ Before(a, y)
       /\ IsRun(next, next[a], (old \ out) \ {a})
  <2>1. old \ out \in SUBSET Nodes /\ a # 0
    BY <1>1, <1>7, <1>9
  <2> QED
    BY <1>2, <1>8, <2>1, RunGoesOn
<1>13. /\ c \in new \ out /\ \A y \in new \ out : y = c \/ Before(c, y)
       /\ IsRun(next, next[c], (new \ out) \ {c})
  <2>1. new \ out \in SUBSET Nodes /\ c # 0
    BY <1>1, <1>7, <1>9
  <2> QED
    BY <1>2, <1>8, <2>1, RunGoesOn
<1>14. a \in Nodes /\ c \in Nodes /\ a # c /\ a \notin new /\ c \notin old
  <2>1. a \in A /\ c \in A /\ a \in old /\ c \in new
    BY <1>7, <1>12, <1>13
  <2>2. \A y \in new : y # a
    BY <1>9, <2>1
  <2>3. \A y \in old : y # c
    BY <1>9, <2>1
  <2> QED
    BY <1>9, <2>1, <2>2, <2>3
<1>15. PICK v : v = x
  OBVIOUS
<1>16. \/ v = a /\ Before(a, c)
       \/ v = c /\ Before(c, a)
  <2>1. n[a] \in Nat /\ n[c] \in Nat /\ a \in Nat /\ c \in Nat /\ a < c
    <3>1. a \in old /\ c \in new
      BY <1>12, <1>13
    <3> QED
      BY <1>2, <1>9, <1>14, <3>1, ElementOfSeq
  <2>2. SecondFirst(a, c) <=> n[c] < n[a]
    BY DEF SecondFirst
  <2>3. v = IF SecondFirst(a, c) THEN c ELSE a
    BY <1>7, <1>15
  <2> QED
    BY <2>1, <2>2, <2>3 DEF Before
<1>17. v \in A \ out /\ v \in Nodes /\ \A z \in A \ out : z = v \/ Before(v, z)
  <2>1. v \in A \ out /\ v \in Nodes
    BY <1>7, <1>12, <1>13, <1>14, <1>16
  <2>2. ASSUME NEW z \in A \ out PROVE z = v \/ Before(v, z)
    <3>1. z \in Nodes
      BY <1>9, <2>2
    <3>2. z \in old \ out \/ z \in new \ out
      BY <1>7, <2>2
    <3>3. (z = a \/ Before(a, z)) \/ (z = c \/ Before(c, z))
      BY <1>12, <1>13, <3>2
    <3> QED
      BY <1>2, <1>12, <1>13, <1>14, <1>16, <3>1, <3>2 DEF StrictOrder
  <2> QED
    BY <2>1, <2>2
<1> HIDE DEF x
<1>18. PICK g, e : /\ next' = g /\ g = Joined(next, t, v)
                   /\ e = Front(d, t, v) /\ e = Destination(v)
  BY <1>1, <1>7, <1>15 DEF Linked, Joined, Front, Destination
<1>19. /\ g = IF t = 0 THEN next ELSE [next EXCEPT ![t] = v]
       /\ e = IF t = 0 THEN v ELSE d
  BY <1>18 DEF Joined, Front
<1>20. /\ call'.from = call.from /\ call'.dst = e /\ call'.tail = v
       /\ call'.src1 = IF v = a THEN next[v] ELSE a
       /\ call'.src2 = IF v = c THEN next[v] ELSE c
  BY <1>1, <1>5, <1>7, <1>15, <1>18
<1>21. /\ g \in [Nodes -> Nodes \cup {0}]
       /\ \A y \in Nodes : y # t => g[y] = next[y]
  BY <1>5, <1>17, <1>19
<1>22. PICK more : more = Upto(A, v)
  OBVIOUS
<1>23. /\ more = out \cup {v} /\ IsFirst(e, more)
       /\ \A y \in more \ {v} : IsFirst(g[y], After(y, more))
  <2>1. /\ 0 \notin Nodes /\ StrictOrder /\ A \in SUBSET Nodes
        /\ next \in [Nodes -> Nodes \cup {0}]
    BY <1>2, <1>5, <1>9
  <2>2. Merging(next, A, d, t)
    BY <1>8, <1>10, <1>11 DEF Merging
  <2>3. v \in A \ Upto(A, t) /\ \A z \in A \ Upto(A, t) : z = v \/ Before(v, z)
    BY <1>10, <1>17
  <2>4. MergingGoesOn(next, A, d, t, v)
    BY <2>1, <2>2, <2>3, Appended
  <2>5. Upto(A, v) = Upto(A, t) \cup {v} /\ Merging(g, A, e, v)
    BY <1>18, <2>4 DEF MergingGoesOn
  <2> QED
    BY <1>10, <1>22, <2>5 DEF Merging
<1>24. TypeOK'
  <2>1. next[v] \in Nodes \cup {0} /\ e \in Nodes \cup {0}
    BY <1>5, <1>7, <1>17, <1>19
  <2>2. call' \in [from : {"none", "carry", "gather"}, src1 : Nodes \cup {0},
                   src2 : Nodes \cup {0}, dst : Nodes \cup {0}, tail : Nodes \cup {0}]
    BY <1>1, <1>5, <1>7, <1>15, <1>17, <1>18, <2>1
  <2> QED
    BY <1>1, <1>3, <1>18, <1>21, <2>2 DEF TypeOK
<1>25. IsRun(g, call'.src1, old \ more) /\ IsRun(g, call'.src2, new \ more)
  <2>1. IsRun(next, call'.src1, old \ more)
    <3>1. CASE v = a
      <4>1. old \ more = (old \ out) \ {a}
        BY <1>23, <3>1
      <4> QED
        BY <1>12, <1>20, <3>1, <4>1
    <3>2. CASE v = c
      <4>1. old \ more = old \ out
        BY <1>14, <1>23, <3>2
      <4> QED
        BY <1>8, <1>14, <1>20, <3>2, <4>1
    <3> QED
      BY <1>16, <3>1, <3>2
  <2>2. IsRun(next, call'.src2, new \ more)
    <3>1. CASE v = c
      <4>1. new \ more = (new \ out) \ {c}
        BY <1>23, <3>1
      <4> QED
        BY <1>13, <1>20, <3>1, <4>1
    <3>2. CASE v = a
      <4>1. new \ more = new \ out
        BY <1>14, <1>23, <3>2
      <4> QED
        BY <1>8, <1>14, <1>20, <3>2, <4>1
    <3> QED
      BY <1>16, <3>1, <3>2
  <2>3. \A y \in A \ more : g[y] = next[y]
    <3>1. \A y \in A \ more : y \in Nodes /\ y # t
      <4>1. t # 0 => t \in more
        BY <1>8, <1>23
      <4> QED
        BY <1>2, <1>9, <4>1
    <3> QED
      BY <1>21, <3>1
  <2>4. old \ more \in SUBSET (A \ more) /\ new \ more \in SUBSET (A \ more)
    BY <1>7
  <2> QED
    BY <2>1, <2>2, <2>3, <2>4, SameRun
<1>26. ASSUME NEW s \in (i + 1)..(NumLists - 1) PROVE SlotOK(b, s)'
  <2>1. \A y \in Part(b, s) : y \in Nodes /\ y # t
    <3>1. s \in 0..(NumLists - 1) /\ s \in 0..NumLists /\ i + 1 <= s /\ i + 1 \in 0..NumLists
      BY <1>2, <1>8, <1>26
    <3>2. b[s] <= b[i + 1] /\ b[s] \in Nat /\ b[s + 1] \in Nat
      BY <1>1, <1>4, <3>1, BoundsFacts DEF Bounds
    <3>3. \A y \in Part(b, s) : y \in Nodes /\ y \in Nat /\ y <= b[s]
      BY <1>1, <1>4, <3>1, <3>2, BoundsFacts DEF Part
    <3>4. t # 0 => b[i + 1] < t /\ t \in Nat
      BY <1>9, <1>11
    <3> QED
      BY <1>2, <1>9, <3>2, <3>3, <3>4
  <2>2. \A y \in Part(b, s) : next'[y] = next[y]
    BY <1>18, <1>21, <2>1
  <2> QED
    BY <1>1, <1>8, <1>26, <2>2, SlotKept
<1>27. MergeInv(b)'
  <2>1. /\ call.from \in {"carry", "gather"}
        /\ call.from = "gather" => pNext = 0
        /\ call.from = "carry" =>
             /\ b[i] < Taken /\ slots[i] # 0
             /\ FullRun(i, Taken - b[i]) /\ FullRun(i, b[i] - b[i + 1])
             /\ \A s \in 0..(i - 1) : slots[s] = 0
    BY <1>4 DEF MergeInv
  <2>2. (FullRun(i, Taken - b[i])' <=> FullRun(i, Taken - b[i]))
        /\ (FullRun(i, b[i] - b[i + 1])' <=> FullRun(i, b[i] - b[i + 1]))
    BY <1>1, <1>3, <1>6 DEF FullRun
  <2>3. /\ call'.from \in {"carry", "gather"}
        /\ call'.from = "gather" => pNext' = 0
        /\ call'.from = "carry" =>
             /\ b[i'] < Taken' /\ slots'[i'] # 0
             /\ FullRun(i, Taken - b[i])' /\ FullRun(i, b[i] - b[i + 1])'
             /\ \A s \in 0..(i' - 1) : slots'[s] = 0
    BY <1>1, <1>6, <1>20, <2>1, <2>2
  <2> DEFINE old2 == Part(b, i)
             new2 == (b[i] + 1)..Taken
             out2 == Moved(old2 \cup new2)
  <2>4. out2' = more /\ old2' = old /\ new2' = new
    <3>1. old2' = old /\ new2' = new
      BY <1>1, <1>6, <1>7 DEF Part
    <3>2. Moved(old2 \cup new2)' = Upto(A, v)
      BY <1>1, <1>2, <1>7, <1>17, <1>20, <3>1 DEF Moved, Upto, Before
    <3> QED
      BY <1>22, <3>1, <3>2
  <2>5. IsRun(next, call.src1, old2 \ out2)'
    BY <1>1, <1>18, <1>25, <2>4, RunPrimed
  <2>6. IsRun(next, call.src2, new2 \ out2)'
    BY <1>1, <1>18, <1>25, <2>4, RunPrimed
  <2>7. IsFirst(call.dst, out2)'
    <3> HIDE DEF out2
    <3> QED
      BY <1>1, <1>20, <1>23, <2>4 DEF IsFirst, Before
  <2>8. (\A y \in out2 \ {call.tail} : IsFirst(next[y], After(y, out2)))'
    <3> HIDE DEF out2
    <3>1. \A y : After(y, out2)' = After(y, more)
      BY <1>1, <2>4 DEF After, Before
    <3>2. \A y, B : IsFirst(y, B)' <=> IsFirst(y, B)
      BY <1>1 DEF IsFirst, Before
    <3> QED
      BY <1>18, <1>20, <1>23, <2>4, <3>1, <3>2
  <2>9. (call.tail # 0 => call.tail \in out2)'
    BY <1>20, <1>23, <2>4
  <2> QED
    BY <1>1, <1>8, <1>26, <2>3, <2>5, <2>6, <2>7, <2>8, <2>9 DEF MergeInv
<1>28. SlotsInv'
  BY <1>3, <1>4, <1>6, <1>27 DEF SlotsInv
<1>29. UntakenInv'
  <2> SUFFICES ASSUME NEW y \in (Taken + 1)..Len(n)
               PROVE  g[y] = IF y = Len(n) THEN 0 ELSE y + 1
    BY <1>3, <1>6, <1>18 DEF UntakenInv
  <2>1. Taken \in Nat /\ Taken <= Len(n)
    BY <1>1, TakenFacts
  <2>2. y \in Nodes /\ ~(y <= Taken)
    BY <1>2, <2>1
  <2>3. y # t
    BY <1>2, <1>9, <1>11, <2>2
  <2>4. next[y] = IF y = Len(n) THEN 0 ELSE y + 1
    BY <1>1 DEF UntakenInv
  <2> QED
    BY <1>21, <2>2, <2>3, <2>4
<1> QED
  BY <1>1, <1>24, <1>28, <1>29 DEF Inv, WalkInv, DoneInv

LEMMA Multiples ==
  ASSUME NEW c \in Nat, NEW P \in Nat, P > 0
  PROVE  c * P \in Nat /\ c <= c * P
<1>1. PICK q \in Nat : P = q + 1
  <2>1. P - 1 \in Nat /\ P = (P - 1) + 1
    OBVIOUS
  <2> QED
    BY <2>1
<1>2. c * P = c * q + c
  BY <1>1
<1>3. c * q \in Nat
  OBVIOUS
<1> QED
  BY <1>2, <1>3

LEMMA Distributed ==
  ASSUME NEW c \in Nat, NEW d \in Nat, NEW P \in Nat
  PROVE  (c + d) * P = c * P + d * P
OBVIOUS

(* Two runs that fill slot k are a run for the next.                       *)
LEMMA RunsAdd ==
  ASSUME TypeOK, NEW k \in 0..(NumLists - 1), NEW u \in Nat, NEW v \in Nat,
         FullRun(k, u), FullRun(k, v), u + v <= Len(n), u > 0
  PROVE  FullRun(k + 1, u + v)
<1>1. Len(n) \in Nat /\ NumLists \in Nat /\ NumLists >= 1
  BY Setting
<1>2. /\ k \in 0..NumLists /\ k + 1 \in 1..NumLists /\ (k + 1) - 1 = k
      /\ NumLists - 1 \in 0..NumLists
  BY <1>1
<1>3. PICK P \in Nat : P = Power2[NumLists - 1] /\ P > 0
  BY <1>2, Powers
<1>4. CASE k < NumLists - 1
  <2>1. u = Power2[k] /\ v = Power2[k]
    BY <1>4 DEF FullRun
  <2>2. Power2[k + 1] = 2 * Power2[k]
    BY <1>2, Powers
  <2>3. u + v = Power2[k + 1]
    BY <2>1, <2>2
  <2>4. CASE k + 1 < NumLists - 1
    BY <2>3, <2>4 DEF FullRun
  <2>5. CASE ~(k + 1 < NumLists - 1)
    <3>1. k + 1 = NumLists - 1
      BY <1>1, <1>4, <2>5
    <3>2. u + v = 1 * P /\ 1 \in 0..Len(n)
      BY <1>1, <1>3, <2>3, <3>1
    <3> QED
      BY <1>3, <2>5, <3>2 DEF FullRun
  <2> QED
    BY <2>4, <2>5
<1>5. CASE ~(k < NumLists - 1)
  <2>1. PICK c \in 0..Len(n), d \in 0..Len(n) : u = c * P /\ v = d * P
    BY <1>3, <1>5 DEF FullRun
  <2>2. c \in Nat /\ d \in Nat /\ c + d \in Nat
    BY <1>1
  <2>3. u + v = (c + d) * P
    BY <1>3, <2>1, <2>2, Distributed
  <2>4. c + d <= (c + d) * P
    BY <1>3, <2>2, Multiples
  <2>5. c + d \in 0..Len(n)
    BY <1>1, <2>2, <2>3, <2>4
  <2>6. ~(k + 1 < NumLists - 1)
    BY <1>1, <1>5
  <2> QED
    BY <1>3, <2>3, <2>5, <2>6 DEF FullRun
<1> QED
  BY <1>4, <1>5

LEMMA MergeReturnsKeeps ==
  ASSUME Inv, MergeReturns
  PROVE  Inv'
<1> DEFINE rest == IF call.src1 = 0 THEN call.src2 ELSE call.src1
<1>1. /\ TypeOK /\ SlotsInv /\ UntakenInv
      /\ pc = "merge" /\ (call.src1 = 0 \/ call.src2 = 0)
      /\ next' = Linked(rest) /\ pNode' = Destination(rest)
      /\ slots' = (IF call.from = "carry" THEN [slots EXCEPT ![i] = 0] ELSE slots)
      /\ i' = i + 1 /\ pc' = call.from /\ call' = NoCall
      /\ n' = n /\ head' = head /\ pNext' = pNext /\ tmp' = tmp
  BY DEF Inv, MergeReturns
<1>2. /\ n \in Seq(Nat) /\ Len(n) \in Nat /\ Nodes = 1..Len(n) /\ 0 \notin Nodes /\ StrictOrder
      /\ NumLists \in Nat /\ NumLists >= 1
  BY <1>1, Setting
<1>3. Nodes' = Nodes /\ Bounds' = Bounds /\ Len(n)' = Len(n)
  BY <1>1, SameNodes
<1>4. PICK b \in Bounds : MergeInv(b) /\ b[0] <= Taken
  BY <1>1 DEF SlotsInv, CarryInv, GatherInv, MergeInv, TakeInv
<1>5. /\ next \in [Nodes -> Nodes \cup {0}] /\ slots \in [0..(NumLists - 1) -> Nodes \cup {0}]
      /\ call \in [from : {"none", "carry", "gather"}, src1 : Nodes \cup {0},
                   src2 : Nodes \cup {0}, dst : Nodes \cup {0}, tail : Nodes \cup {0}]
  BY <1>1 DEF TypeOK
<1>6. /\ i \in 0..(NumLists - 1) /\ call.from \in {"carry", "gather"}
      /\ call.from = "gather" => pNext = 0
      /\ call.from = "carry" =>
           /\ b[i] < Taken /\ slots[i] # 0
           /\ FullRun(i, Taken - b[i]) /\ FullRun(i, b[i] - b[i + 1])
           /\ \A s \in 0..(i - 1) : slots[s] = 0
  BY <1>4 DEF MergeInv
<1>7. Taken' = Taken
  BY <1>1, <1>6 DEF Taken
<1>8. PICK old, new, A, out, t, d, a, c, r :
        /\ old = Part(b, i) /\ new = (b[i] + 1)..Taken /\ A = old \cup new /\ out = Moved(A)
        /\ t = call.tail /\ d = call.dst /\ a = call.src1 /\ c = call.src2 /\ r = rest
  OBVIOUS
<1>9. /\ IsRun(next, a, old \ out) /\ IsRun(next, c, new \ out)
      /\ IsFirst(d, out) /\ (t # 0 => t \in out)
      /\ \A y \in out \ {t} : IsFirst(next[y], After(y, out))
      /\ \A s \in (i + 1)..(NumLists - 1) : SlotOK(b, s)
  BY <1>4, <1>8, Zenon DEF MergeInv
<1>10. /\ A = (b[i + 1] + 1)..Taken /\ A \in SUBSET Nodes
       /\ \A y \in A : y \in Nat /\ b[i + 1] < y /\ y <= Taken
       /\ b[i] \in Nat /\ b[i + 1] \in Nat /\ b[i + 1] <= b[i] /\ b[i] <= Taken
       /\ i + 1 \in 0..NumLists
  <2>1. TwoRuns(b, i, Taken)
    BY <1>1, <1>4, <1>6, TwoRunsAreMerged
  <2> QED
    BY <1>8, <2>1, Zenon DEF TwoRuns
<1>11. out = Upto(A, t) /\ (t # 0 => t \in A)
  <2>1. out = Upto(A, t)
    BY <1>8 DEF Moved, Upto
  <2> QED
    BY <1>9, <2>1 DEF Upto
<1>12. IsRun(next, r, A \ out)
  <2>1. old \ out \in SUBSET Nodes /\ new \ out \in SUBSET Nodes
    BY <1>8, <1>10
  <2>2. CASE a = 0
    <3>1. old \ out = {}
      BY <1>2, <1>9, <2>1, <2>2, RunBegins
    <3>2. A \ out = new \ out
      BY <1>8, <3>1
    <3> QED
      BY <1>8, <1>9, <2>2, <3>2
  <2>3. CASE a # 0
    <3>1. c = 0
      BY <1>1, <1>8, <2>3
    <3>2. new \ out = {}
      BY <1>2, <1>9, <2>1, <3>1, RunBegins
    <3>3. A \ out = old \ out
      BY <1>8, <3>2
    <3> QED
      BY <1>8, <1>9, <2>3, <3>3
  <2> QED
    BY <2>2, <2>3
<1>13. PICK g, e : /\ next' = g /\ g = Joined(next, t, r)
                   /\ pNode' = e /\ e = Front(d, t, r)
  BY <1>1, <1>8 DEF Linked, Joined, Front, Destination
<1>14. IsRun(g, e, A)
  <2>1. Merging(next, A, d, t)
    BY <1>9, <1>11 DEF Merging
  <2>2. IsRun(next, r, A \ Upto(A, t))
    BY <1>11, <1>12
  <2>3. IsRun(Joined(next, t, r), Front(d, t, r), A)
    BY <1>2, <1>5, <1>10, <2>1, <2>2, RestFollows
  <2> QED
    BY <1>13, <2>3
<1>15. r \in Nodes \cup {0} /\ e \in Nodes \cup {0} /\ t \in Nodes \cup {0}
  <2>1. a \in Nodes \cup {0} /\ c \in Nodes \cup {0} /\ d \in Nodes \cup {0} /\ t \in Nodes \cup {0}
    BY <1>5, <1>8
  <2>2. r = a \/ r = c
    BY <1>8
  <2> QED
    BY <1>13, <2>1, <2>2 DEF Front
<1>16. /\ g \in [Nodes -> Nodes \cup {0}]
       /\ \A y \in Nodes : y # t => g[y] = next[y]
  <2>1. g = IF t = 0 THEN next ELSE [next EXCEPT ![t] = r]
    BY <1>13 DEF Joined
  <2> QED
    BY <1>5, <1>15, <2>1
<1> HIDE DEF rest
<1>17. /\ slots' \in [0..(NumLists - 1) -> Nodes \cup {0}]
       /\ \A s \in 0..(NumLists - 1) : s # i => slots'[s] = slots[s]
       /\ call.from = "carry" => slots'[i] = 0
  BY <1>1, <1>5, <1>6
<1>18. TypeOK'
  BY <1>1, <1>3, <1>6, <1>13, <1>15, <1>16, <1>17 DEF TypeOK, NoCall
<1>19. ASSUME NEW s \in (i + 1)..(NumLists - 1) PROVE SlotOK(b, s)'
  <2>1. s \in 0..(NumLists - 1) /\ s \in 0..NumLists /\ i + 1 <= s /\ s # i
    BY <1>2, <1>6, <1>19
  <2>2. \A y \in Part(b, s) : y \in Nodes /\ y # t
    <3>1. b[s] <= b[i + 1] /\ b[s] \in Nat /\ b[s + 1] \in Nat
      BY <1>1, <1>4, <1>10, <2>1, BoundsFacts DEF Bounds
    <3>2. \A y \in Part(b, s) : y \in Nodes /\ y \in Nat /\ y <= b[s]
      BY <1>1, <1>4, <2>1, <3>1, BoundsFacts DEF Part
    <3>3. t # 0 => b[i + 1] < t /\ t \in Nat
      BY <1>10, <1>11
    <3> QED
      BY <1>2, <1>10, <3>1, <3>2, <3>3
  <2>3. \A y \in Part(b, s) : next'[y] = next[y]
    BY <1>13, <1>16, <2>2
  <2> QED
    BY <1>1, <1>9, <1>17, <1>19, <2>1, <2>3, SlotKept
<1>20. IsRun(next, pNode, (b[i] + 1)..Taken)'
  <2>1. IsRun(g, e, (b[i + 1] + 1)..Taken)
    BY <1>10, <1>14
  <2> QED
    BY <1>1, <1>7, <1>13, <2>1, RunPrimed
<1>21. CASE call.from = "carry"
  <2>1. b[i + 1] < Taken
    <3>1. Taken \in Nat /\ b[i] < Taken
      BY <1>1, <1>6, <1>21, TakenFacts
    <3> QED
      BY <1>10, <3>1
  <2>2. FullRun(i + 1, Taken - b[i + 1])
    <3>1. PICK w \in Nat, p \in Nat, q \in Nat, m \in Nat :
            /\ w = Taken /\ p = b[i] /\ q = b[i + 1] /\ m = Len(n)
            /\ p < w /\ q <= p /\ w <= m
      BY <1>1, <1>2, <1>6, <1>10, <1>21, TakenFacts
    <3>1a. p < w /\ q <= p /\ w <= m
      BY <3>1
    <3>2. FullRun(i, w - p) /\ FullRun(i, p - q)
      BY <1>6, <1>21, <3>1
    <3>3. w - p \in Nat /\ w - p > 0 /\ p - q \in Nat /\ (w - p) + (p - q) = w - q
      BY <3>1a
    <3>3a. (w - p) + (p - q) <= m
      BY <3>1a
    <3>4. (w - p) + (p - q) <= Len(n)
      BY <3>1, <3>3a, Zenon
    <3>5. FullRun(i + 1, (w - p) + (p - q))
      BY <1>1, <1>6, <3>2, <3>3, <3>4, RunsAdd
    <3> QED
      BY <3>1, <3>3, <3>5
  <2>3. FullRun(i, Taken - b[i])'
    BY <1>1, <1>3, <1>7, <2>2 DEF FullRun
  <2>4. ASSUME NEW s \in 0..((i + 1) - 1) PROVE slots'[s] = 0
    <3>1. s = i \/ (s \in 0..(i - 1) /\ s # i /\ s \in 0..(NumLists - 1))
      BY <1>2, <1>6, <2>4
    <3> QED
      BY <1>6, <1>17, <1>21, <3>1
  <2>5. CarryInv(b)'
    BY <1>1, <1>7, <1>10, <1>19, <1>20, <1>21, <2>1, <2>3, <2>4 DEF CarryInv
  <2>6. SlotsInv'
    BY <1>3, <1>4, <1>7, <2>5 DEF SlotsInv
  <2>7. UntakenInv'
    <3> SUFFICES ASSUME NEW y \in (Taken + 1)..Len(n)
                 PROVE  g[y] = IF y = Len(n) THEN 0 ELSE y + 1
      BY <1>3, <1>7, <1>13 DEF UntakenInv
    <3>1. Taken \in Nat /\ Taken <= Len(n)
      BY <1>1, TakenFacts
    <3>2. y \in Nodes /\ ~(y <= Taken)
      BY <1>2, <3>1
    <3>3. y # t
      BY <1>2, <1>10, <1>11, <3>2
    <3>4. next[y] = IF y = Len(n) THEN 0 ELSE y + 1
      BY <1>1 DEF UntakenInv
    <3> QED
      BY <1>16, <3>2, <3>3, <3>4
  <2> QED
    BY <1>1, <1>18, <1>21, <2>6, <2>7 DEF Inv, WalkInv, DoneInv
<1>22. CASE call.from = "gather"
  <2>1. pNext' = 0 /\ Taken' = Len(n) /\ Taken = Len(n)
    BY <1>1, <1>3, <1>6, <1>7, <1>22 DEF Taken
  <2>2. IsRun(next, pNode, (b[i] + 1)..Len(n))'
    BY <1>3, <1>20, <2>1
  <2>3. GatherInv(b)'
    BY <1>1, <1>10, <1>19, <1>22, <2>1, <2>2 DEF GatherInv
  <2>4. SlotsInv'
    BY <1>3, <1>4, <1>7, <2>3 DEF SlotsInv
  <2> QED
    BY <1>1, <1>18, <1>22, <2>4 DEF Inv, WalkInv, DoneInv
<1> QED
  BY <1>6, <1>21, <1>22

-----------------------------------------------------------------------------
(* The invariant is kept: SortTree *)

\* The list from h is s: every node, equal numbers as they stood.
IsListing(f, h, s) ==
  /\ s \in Seq(Nodes) /\ s # << >> /\ h = s[1]
  /\ Elements(s) = Nodes /\ Len(s) = Len(n)
  /\ \A j, k \in 1..Len(s) : s[j] = s[k] => j = k
  /\ \A k \in 1..Len(s) : f[s[k]] = IF k = Len(s) THEN 0 ELSE s[k + 1]
  /\ \A j, k \in 1..Len(s) : j < k /\ n[s[j]] = n[s[k]] => s[j] < s[k]

\* Up to x nothing descends.
Ascends(s, x) == \E k \in 1..Len(s) : /\ x = s[k]
                                     /\ \A j \in 1..(k - 1) : n[s[j]] <= n[s[j + 1]]

LEMMA ListingIsChain ==
  ASSUME TypeOK, NEW f \in [Nodes -> Nodes \cup {0}], NEW h, NEW s, IsListing(f, h, s)
  PROVE  ChainIn(f, h) = s
<1>1. n \in Seq(Nat) /\ Len(n) \in Nat
  BY Setting
<1>2. /\ s \in Seq(Nodes) /\ Len(s) <= Len(n) /\ h = IF s = << >> THEN 0 ELSE s[1]
      /\ \A k \in 1..Len(s) : f[s[k]] = IF k = Len(s) THEN 0 ELSE s[k + 1]
  BY <1>1 DEF IsListing
<1> QED
  BY <1>1, <1>2, ListChain

LEMMA WalkSeen ==
  ASSUME TypeOK, pc = "walk", WalkInv
  PROVE  \E s : IsListing(next, head, s) /\ Ascends(s, tmp)
<1>1. PICK s : s = Chain(head)
  OBVIOUS
<1> QED
  BY <1>1, Zenon DEF WalkInv, IsListing, Ascends

LEMMA WalkShown ==
  ASSUME TypeOK, n' = n, next' \in [Nodes -> Nodes \cup {0}], NEW s,
         IsListing(next', head', s), Ascends(s, tmp')
  PROVE  WalkInv'
<1>1. ChainIn(next', head') = s
  BY ListingIsChain
<1>2. Chain(head)' = s
  <2>1. Chain(head)' = Reached(next', head', Len(n') + 1)
    BY DEF Chain, ChainIn
  <2>2. ChainIn(next', head') = Reached(next', head', Len(n) + 1)
    BY DEF ChainIn
  <2> QED
    BY <1>1, <2>1, <2>2
<1>3. Nodes' = Nodes
  BY SameNodes
<1> QED
  BY <1>2, <1>3 DEF WalkInv, IsListing, Ascends

LEMMA ListingFacts ==
  ASSUME TypeOK, NEW f, NEW h, NEW s, IsListing(f, h, s)
  PROVE  /\ Len(s) = Len(n) /\ Len(s) \in Nat /\ Len(s) >= 1
         /\ \A k \in 1..Len(s) : s[k] \in Nodes /\ s[k] # 0 /\ s[k] \in Nat /\ n[s[k]] \in Nat
         /\ \A y \in Nodes : \E k \in 1..Len(s) : y = s[k]
<1>1. /\ n \in Seq(Nat) /\ Len(n) \in Nat /\ Nodes = 1..Len(n) /\ 0 \notin Nodes
  BY Setting
<1>2. s \in Seq(Nodes) /\ s # << >> /\ Elements(s) = Nodes /\ Len(s) = Len(n)
  BY DEF IsListing
<1>3. Len(s) # 0
  BY <1>2, EmptySeq
<1>4. \A k \in 1..Len(s) : s[k] \in Nodes
  BY <1>2, ElementOfSeq
<1>5. \A y \in Nodes : y \in Nat /\ y # 0 /\ n[y] \in Nat
  BY <1>1, ElementOfSeq
<1>6. Len(s) \in Nat /\ Len(s) >= 1
  BY <1>1, <1>2, <1>3
<1> QED
  BY <1>2, <1>4, <1>5, <1>6 DEF Elements

LEMMA WalkKeeps ==
  ASSUME Inv, Walk
  PROVE  Inv'
<1>1. /\ TypeOK /\ WalkInv
      /\ pc = "walk" /\ next[tmp] # 0 /\ ~Descending /\ tmp' = next[tmp]
      /\ n' = n /\ next' = next /\ pc' = pc /\ head' = head /\ slots' = slots
      /\ pNode' = pNode /\ pNext' = pNext /\ i' = i /\ call' = call
  BY DEF Inv, Walk
<1>2. Nodes' = Nodes
  BY <1>1, SameNodes
<1>3. TypeOK'
  BY <1>1, <1>2 DEF TypeOK
<1>4. PICK s : IsListing(next, head, s) /\ Ascends(s, tmp)
  BY <1>1, WalkSeen
<1>5. PICK k \in 1..Len(s) : /\ tmp = s[k]
                             /\ \A j \in 1..(k - 1) : n[s[j]] <= n[s[j + 1]]
  BY <1>4 DEF Ascends
<1>6. Len(s) \in Nat /\ \A j \in 1..Len(s) : s[j] \in Nodes /\ n[s[j]] \in Nat
  BY <1>1, <1>4, ListingFacts
<1>7. k # Len(s) /\ tmp' = s[k + 1]
  BY <1>1, <1>4, <1>5 DEF IsListing
<1>8. k + 1 \in 1..Len(s) /\ (k + 1) - 1 = k
  BY <1>6, <1>7
<1>9. n[s[k]] <= n[s[k + 1]]
  <2>1. ~(n[s[k]] > n[s[k + 1]])
    BY <1>1, <1>5, <1>7 DEF Descending
  <2> QED
    BY <1>6, <1>8, <2>1
<1>10. \A j \in 1..k : n[s[j]] <= n[s[j + 1]]
  <2>1. \A j \in 1..k : j = k \/ j \in 1..(k - 1)
    OBVIOUS
  <2> QED
    BY <1>5, <1>9, <2>1
<1>11. Ascends(s, tmp')
  <2>1. \A j \in 1..((k + 1) - 1) : n[s[j]] <= n[s[j + 1]]
    BY <1>8, <1>10
  <2> QED
    BY <1>7, <1>8, <2>1 DEF Ascends
<1>12. WalkInv'
  <2>1. next \in [Nodes -> Nodes \cup {0}]
    BY <1>1 DEF TypeOK
  <2> QED
    BY <1>1, <1>4, <1>11, <2>1, WalkShown
<1> QED
  BY <1>1, <1>3, <1>12 DEF Inv, DoneInv

\* The links and the head when the nodes k and k + 1 of s change places.
SwappedLinks(f, s, k) ==
  LET through == IF k = 1 THEN f ELSE [f EXCEPT ![s[k - 1]] = s[k + 1]]
  IN  [through EXCEPT ![s[k + 1]] = s[k], ![s[k]] = f[s[k + 1]]]
SwappedHead(h, s, k) == IF k = 1 THEN s[k + 1] ELSE h
Exchanged(s, k) ==
  [j \in 1..Len(s) |-> IF j = k THEN s[k + 1] ELSE IF j = k + 1 THEN s[k] ELSE s[j]]

SwapIsListed(f, h, s, k) ==
  /\ SwappedLinks(f, s, k) \in [Nodes -> Nodes \cup {0}]
  /\ IsListing(SwappedLinks(f, s, k), SwappedHead(h, s, k), Exchanged(s, k))

(* Two neighbours change places.                                           *)
LEMMA Swapped ==
  ASSUME TypeOK, NEW f \in [Nodes -> Nodes \cup {0}], NEW h, NEW s, IsListing(f, h, s),
         NEW k \in 1..Len(s), k # Len(s), n[s[k]] > n[s[k + 1]]
  PROVE  SwapIsListed(f, h, s, k)
<1>a. PICK through, g, l :
        /\ through = IF k = 1 THEN f ELSE [f EXCEPT ![s[k - 1]] = s[k + 1]]
        /\ g = SwappedLinks(f, s, k)
        /\ l = SwappedHead(h, s, k)
  OBVIOUS
<1>b. /\ through = IF k = 1 THEN f ELSE [f EXCEPT ![s[k - 1]] = s[k + 1]]
      /\ g = [through EXCEPT ![s[k + 1]] = s[k], ![s[k]] = f[s[k + 1]]]
      /\ l = IF k = 1 THEN s[k + 1] ELSE h
  BY <1>a DEF SwappedLinks, SwappedHead
<1>1. PICK m \in Nat : m = Len(s) /\ m = Len(n) /\ m >= 1
  BY ListingFacts
<1>2. /\ \A j \in 1..m : s[j] \in Nodes /\ s[j] # 0 /\ s[j] \in Nat /\ n[s[j]] \in Nat
      /\ \A y \in Nodes : \E j \in 1..m : y = s[j]
  BY <1>1, ListingFacts
<1>3. /\ h = s[1]
      /\ \A j, c \in 1..m : s[j] = s[c] => j = c
      /\ \A j \in 1..m : f[s[j]] = IF j = m THEN 0 ELSE s[j + 1]
      /\ \A j, c \in 1..m : j < c /\ n[s[j]] = n[s[c]] => s[j] < s[c]
  BY <1>1 DEF IsListing
<1>4. /\ k \in 1..m /\ k + 1 \in 1..m /\ k # m /\ k # k + 1
      /\ k # 1 => k - 1 \in 1..m /\ k - 1 # k /\ k - 1 # k + 1 /\ k - 1 # m /\ (k - 1) + 1 = k
  BY <1>1
<1>5. PICK z : /\ z = Exchanged(s, k)
               /\ z = [j \in 1..m |-> IF j = k THEN s[k + 1]
                                     ELSE IF j = k + 1 THEN s[k] ELSE s[j]]
  BY <1>1 DEF Exchanged
<1>6. /\ z[k] = s[k + 1] /\ z[k + 1] = s[k]
      /\ \A j \in 1..m : j # k /\ j # k + 1 => z[j] = s[j]
  BY <1>4, <1>5
<1>7. z \in Seq(Nodes) /\ Len(z) = m
  <2>1. \A j \in 1..m : z[j] \in Nodes
    BY <1>2, <1>4, <1>5
  <2>2. [j \in 1..m |-> z[j]] \in Seq(Nodes) /\ Len([j \in 1..m |-> z[j]]) = m
    BY <2>1, Listed
  <2>3. z = [j \in 1..m |-> z[j]]
    BY <1>5
  <2> QED
    BY <2>2, <2>3
<1>8. \A j \in 1..m : \E c \in 1..m : z[c] = s[j]
  BY <1>4, <1>6
<1>9. Elements(z) = Nodes
  <2>1. \A j \in 1..m : z[j] \in Nodes
    BY <1>2, <1>4, <1>5
  <2>2. \A y \in Nodes : \E c \in 1..m : z[c] = y
    <3> SUFFICES ASSUME NEW y \in Nodes PROVE \E c \in 1..m : z[c] = y
      OBVIOUS
    <3>1. PICK j \in 1..m : y = s[j]
      BY <1>2
    <3>2. PICK c \in 1..m : z[c] = s[j]
      BY <1>8
    <3> QED
      BY <3>1, <3>2
  <2> QED
    BY <1>7, <2>1, <2>2 DEF Elements
<1>10. \A j, c \in 1..m : z[j] = z[c] => j = c
  <2> SUFFICES ASSUME NEW j \in 1..m, NEW c \in 1..m, z[j] = z[c] PROVE j = c
    OBVIOUS
  <2> QED
    BY <1>3, <1>4, <1>6
<1>11. /\ s[k] \in Nodes /\ s[k + 1] \in Nodes /\ s[k] # s[k + 1]
       /\ k # 1 => s[k - 1] \in Nodes /\ s[k - 1] # s[k] /\ s[k - 1] # s[k + 1]
  BY <1>2, <1>3, <1>4
<1>12. through \in [Nodes -> Nodes \cup {0}]
  BY <1>b, <1>11
<1>13. /\ g \in [Nodes -> Nodes \cup {0}]
       /\ g[s[k]] = f[s[k + 1]] /\ g[s[k + 1]] = s[k]
       /\ \A y \in Nodes : y # s[k] /\ y # s[k + 1] => g[y] = through[y]
  BY <1>b, <1>11, <1>12
<1>14. /\ k # 1 => g[s[k - 1]] = s[k + 1]
       /\ \A y \in Nodes : y # s[k] /\ y # s[k + 1] /\ (k # 1 => y # s[k - 1]) => g[y] = f[y]
  BY <1>b, <1>11, <1>12, <1>13
<1>15. ASSUME NEW j \in 1..m
       PROVE  g[z[j]] = IF j = m THEN 0 ELSE z[j + 1]
  <2>1. CASE j = k
    BY <1>4, <1>6, <1>13, <2>1
  <2>2. CASE j = k + 1
    <3>1. g[z[j]] = f[s[k + 1]]
      BY <1>6, <1>13, <2>2
    <3>2. f[s[j]] = IF j = m THEN 0 ELSE s[j + 1]
      BY <1>3
    <3>3. j # m => j + 1 \in 1..m /\ j + 1 # k /\ j + 1 # k + 1
      BY <1>1, <2>2
    <3>4. j # m => z[j + 1] = s[j + 1]
      BY <1>6, <3>3
    <3> QED
      BY <2>2, <3>1, <3>2, <3>4
  <2>3. CASE k # 1 /\ j = k - 1
    <3>1. z[j] = s[j] /\ z[j + 1] = s[k + 1] /\ j # m
      BY <1>4, <1>6, <2>3
    <3> QED
      BY <1>14, <2>3, <3>1
  <2>4. CASE j # k /\ j # k + 1 /\ (k # 1 => j # k - 1)
    <3>1. z[j] = s[j] /\ s[j] \in Nodes
      BY <1>2, <1>6, <2>4
    <3>2. s[j] # s[k] /\ s[j] # s[k + 1] /\ (k # 1 => s[j] # s[k - 1])
      BY <1>3, <1>4, <2>4
    <3>3. g[z[j]] = f[s[j]]
      BY <1>14, <3>1, <3>2
    <3>4. f[s[j]] = IF j = m THEN 0 ELSE s[j + 1]
      BY <1>3
    <3>5. j # m => j + 1 \in 1..m /\ j + 1 # k /\ j + 1 # k + 1
      <4>1. j \in Nat /\ k \in Nat /\ j >= 1 /\ k >= 1 /\ (j + 1 = k => k # 1 /\ j = k - 1)
        BY <1>4
      <4> QED
        BY <1>1, <2>4, <4>1
    <3>6. j # m => z[j + 1] = s[j + 1]
      BY <1>6, <3>5
    <3> QED
      BY <3>3, <3>4, <3>6
  <2> QED
    BY <2>1, <2>2, <2>3, <2>4
<1>16. ASSUME NEW j \in 1..m, NEW c \in 1..m, j < c, n[z[j]] = n[z[c]]
       PROVE  z[j] < z[c]
  <2>1. n[s[k]] # n[s[k + 1]]
    BY <1>2, <1>4
  <2>2. CASE j = k /\ c = k + 1
    BY <1>6, <1>16, <2>1, <2>2
  <2>3. CASE ~(j = k /\ c = k + 1)
    <3>1. PICK p \in 1..m : p = IF j = k THEN k + 1 ELSE IF j = k + 1 THEN k ELSE j
      BY <1>4
    <3>2. PICK q \in 1..m : q = IF c = k THEN k + 1 ELSE IF c = k + 1 THEN k ELSE c
      BY <1>4
    <3>3. z[j] = s[p] /\ z[c] = s[q]
      BY <1>6, <3>1, <3>2
    <3>4. p < q
      <4>1. j \in Int /\ c \in Int /\ k \in Int /\ j < c
        BY <1>16
      <4> QED
        BY <2>3, <3>1, <3>2, <4>1
    <3> QED
      BY <1>3, <1>16, <3>3, <3>4
  <2> QED
    BY <2>2, <2>3
<1>17. l = z[1]
  <2>1. 1 \in 1..m
    BY <1>1
  <2>2. CASE k = 1
    BY <1>b, <1>6, <2>2
  <2>3. CASE k # 1
    <3>1. 1 # k /\ 1 # k + 1
      BY <1>4, <2>3
    <3> QED
      BY <1>b, <1>3, <1>6, <2>1, <2>3, <3>1
  <2> QED
    BY <2>2, <2>3
<1>18. z # << >>
  BY <1>1, <1>7, EmptySeq
<1>19. IsListing(g, l, z)
  BY <1>1, <1>7, <1>9, <1>10, <1>15, <1>16, <1>17, <1>18 DEF IsListing
<1> QED
  BY <1>a, <1>5, <1>13, <1>19 DEF SwapIsListed

\* What swap does, seen on the whole list.
SwapOf(s, k) ==
  /\ IsListing(next, head, s)
  /\ k \in 1..Len(s) /\ k # Len(s) /\ n[s[k]] > n[s[k + 1]]
  /\ next' \in [Nodes -> Nodes \cup {0}]
  /\ IsListing(next', head', Exchanged(s, k))

LEMMA SwapSeen ==
  ASSUME Inv, Swap
  PROVE  \E s, k : SwapOf(s, k)
<1> DEFINE through == IF tmp = head THEN next ELSE [next EXCEPT ![Previous(tmp)] = next[tmp]]
<1>1. /\ TypeOK /\ WalkInv
      /\ pc = "walk" /\ Descending
      /\ head' = (IF tmp = head THEN next[tmp] ELSE head)
      /\ next' = [through EXCEPT ![next[tmp]] = tmp, ![tmp] = next[next[tmp]]]
  BY DEF Inv, Swap
<1>2. next \in [Nodes -> Nodes \cup {0}]
  BY <1>1 DEF TypeOK
<1>3. PICK s : IsListing(next, head, s) /\ Ascends(s, tmp)
  BY <1>1, WalkSeen
<1>4. PICK k \in 1..Len(s) : tmp = s[k]
  BY <1>3 DEF Ascends
<1>5. PICK m \in Nat : m = Len(s) /\ m >= 1
  BY <1>1, <1>3, ListingFacts
<1>6. /\ \A j \in 1..m : s[j] \in Nodes
      /\ \A y \in Nodes : \E j \in 1..m : y = s[j]
  BY <1>1, <1>3, <1>5, ListingFacts
<1>7. /\ head = s[1]
      /\ \A j, c \in 1..m : s[j] = s[c] => j = c
      /\ \A j \in 1..m : next[s[j]] = IF j = m THEN 0 ELSE s[j + 1]
  BY <1>3, <1>5 DEF IsListing
<1>8. k \in 1..m /\ k # m /\ next[tmp] = s[k + 1] /\ n[s[k]] > n[s[k + 1]]
  <2>1. next[tmp] # 0 /\ n[tmp] > n[next[tmp]]
    BY <1>1 DEF Descending
  <2>2. k \in 1..m
    BY <1>5
  <2>3. next[tmp] = IF k = m THEN 0 ELSE s[k + 1]
    BY <1>4, <1>7, <2>2
  <2>4. k # m /\ next[tmp] = s[k + 1]
    BY <2>1, <2>3
  <2> QED
    BY <1>4, <2>1, <2>2, <2>4
<1>9. tmp = head <=> k = 1
  <2>1. 1 \in 1..m
    BY <1>5
  <2> QED
    BY <1>4, <1>7, <1>8, <2>1
<1>10. ASSUME k # 1 PROVE Previous(tmp) = s[k - 1]
  <2>1. k - 1 \in 1..m /\ (k - 1) + 1 = k /\ k - 1 # m
    BY <1>5, <1>8, <1>10
  <2>2. s[k - 1] \in Nodes /\ next[s[k - 1]] = tmp
    BY <1>4, <1>6, <1>7, <2>1
  <2>3. ASSUME NEW p \in Nodes, next[p] = tmp PROVE p = s[k - 1]
    <3>1. PICK j \in 1..m : p = s[j]
      BY <1>6
    <3>2. tmp # 0
      <4>1. 0 \notin Nodes /\ tmp \in Nodes
        BY <1>1, <1>4, <1>6, <1>8, Setting
      <4> QED
        BY <4>1
    <3>3. j # m /\ s[j + 1] = s[k]
      BY <1>4, <1>7, <2>3, <3>1, <3>2
    <3>4. j + 1 \in 1..m
      BY <1>5, <3>3
    <3>5. j + 1 = k
      BY <1>7, <1>8, <3>3, <3>4
    <3>6. j = k - 1
      BY <3>5
    <3> QED
      BY <3>1, <3>6
  <2>4. tmp # head
    BY <1>9, <1>10
  <2>5. Previous(tmp) = CHOOSE p \in Nodes : next[p] = tmp
    BY <2>4 DEF Previous
  <2> QED
    BY <2>2, <2>3, <2>5
<1>11. through = IF k = 1 THEN next ELSE [next EXCEPT ![s[k - 1]] = s[k + 1]]
  BY <1>8, <1>9, <1>10
<1>12. next' = SwappedLinks(next, s, k)
  <2>1. next' = [through EXCEPT ![s[k + 1]] = s[k], ![s[k]] = next[s[k + 1]]]
    BY <1>1, <1>4, <1>8
  <2> HIDE DEF through
  <2> QED
    BY <1>11, <2>1 DEF SwappedLinks
<1> HIDE DEF through
<1>13. head' = SwappedHead(head, s, k)
  BY <1>1, <1>8, <1>9 DEF SwappedHead
<1>14. SwapIsListed(next, head, s, k)
  <2>1. k \in 1..Len(s) /\ k # Len(s)
    BY <1>5, <1>8
  <2> QED
    BY <1>1, <1>2, <1>3, <1>8, <2>1, Swapped
<1>15. SwapOf(s, k)
  BY <1>3, <1>5, <1>8, <1>12, <1>13, <1>14 DEF SwapOf, SwapIsListed
<1> QED
  BY <1>15

LEMMA SwapKeeps ==
  ASSUME Inv, Swap
  PROVE  Inv'
<1>1. /\ TypeOK /\ pc = "walk" /\ tmp' = head'
      /\ n' = n /\ pc' = pc /\ slots' = slots
      /\ pNode' = pNode /\ pNext' = pNext /\ i' = i /\ call' = call
  BY DEF Inv, Swap
<1>2. Nodes' = Nodes
  BY <1>1, SameNodes
<1>3. PICK s, k : SwapOf(s, k)
  BY SwapSeen
<1>4. PICK z : next' \in [Nodes -> Nodes \cup {0}] /\ IsListing(next', head', z)
  BY <1>3 DEF SwapOf
<1>5. Ascends(z, tmp')
  <2>1. Len(z) \in Nat /\ Len(z) >= 1
    BY <1>1, <1>4, ListingFacts
  <2>2. 1 \in 1..Len(z) /\ 1..(1 - 1) = {}
    BY <2>1
  <2>3. tmp' = z[1]
    BY <1>1, <1>4 DEF IsListing
  <2> QED
    BY <2>2, <2>3 DEF Ascends
<1>6. WalkInv'
  BY <1>1, <1>4, <1>5, WalkShown
<1>7. TypeOK'
  BY <1>1, <1>2, <1>4 DEF TypeOK
<1> QED
  BY <1>1, <1>6, <1>7 DEF Inv, DoneInv

(* A list of which nothing descends is sorted.                             *)
LEMMA NothingDescends ==
  ASSUME TypeOK, NEW f, NEW h, NEW s, IsListing(f, h, s),
         \A j \in 1..(Len(s) - 1) : n[s[j]] <= n[s[j + 1]]
  PROVE  IsRun(f, h, Nodes)
<1>1. PICK m \in Nat : m = Len(s) /\ m >= 1
  BY ListingFacts
<1>2. /\ \A j \in 1..m : s[j] \in Nodes /\ n[s[j]] \in Nat
      /\ \A y \in Nodes : \E j \in 1..m : y = s[j]
  BY <1>1, ListingFacts
<1>3. /\ h = s[1]
      /\ \A j \in 1..m : f[s[j]] = IF j = m THEN 0 ELSE s[j + 1]
      /\ \A j, c \in 1..m : j < c /\ n[s[j]] = n[s[c]] => s[j] < s[c]
  BY <1>1 DEF IsListing
<1>4. StrictOrder /\ 0 \notin Nodes
  BY Setting
<1>5. ASSUME NEW j \in 1..m PROVE \A c \in 1..m : j < c => n[s[j]] <= n[s[c]]
  <2> DEFINE T == {c \in 1..m : j < c /\ ~(n[s[j]] <= n[s[c]])}
  <2> SUFFICES ASSUME T # {} PROVE FALSE
    OBVIOUS
  <2>1. T \in SUBSET Nat
    OBVIOUS
  <2>2. PICK c \in T : \A d \in T : c <= d
    BY <2>1, Least
  <2>3. c \in 1..m /\ j < c /\ ~(n[s[j]] <= n[s[c]])
    OBVIOUS
  <2>4. c - 1 \in 1..m /\ c - 1 \in 1..(m - 1) /\ (c - 1) + 1 = c /\ ~(c <= c - 1)
        /\ (j = c - 1 \/ j < c - 1)
    BY <2>3
  <2>5. n[s[c - 1]] <= n[s[c]]
    BY <1>1, <2>4
  <2>6. n[s[j]] <= n[s[c - 1]]
    <3>1. c - 1 \notin T
      BY <2>2, <2>4
    <3>2. CASE j = c - 1
      BY <1>2, <2>4, <3>2
    <3>3. CASE j < c - 1
      BY <2>4, <3>1, <3>3
    <3> QED
      BY <2>4, <3>2, <3>3
  <2>7. n[s[j]] \in Nat /\ n[s[c]] \in Nat /\ n[s[c - 1]] \in Nat
    BY <1>2, <1>5, <2>3, <2>4
  <2>8. PICK x \in Nat, y \in Nat, z \in Nat : x = n[s[j]] /\ y = n[s[c - 1]] /\ z = n[s[c]]
    BY <2>7
  <2>9. x <= y /\ y <= z /\ ~(x <= z)
    BY <2>3, <2>5, <2>6, <2>8
  <2> QED
    BY <2>9
<1>6. \A j, c \in 1..m : j < c => Before(s[j], s[c])
  <2> SUFFICES ASSUME NEW j \in 1..m, NEW c \in 1..m, j < c PROVE Before(s[j], s[c])
    OBVIOUS
  <2>1. n[s[j]] <= n[s[c]] /\ n[s[j]] \in Nat /\ n[s[c]] \in Nat
    BY <1>2, <1>5
  <2>2. CASE n[s[j]] = n[s[c]]
    BY <1>3, <2>2 DEF Before
  <2>3. CASE n[s[j]] # n[s[c]]
    BY <2>1, <2>3 DEF Before
  <2> QED
    BY <2>2, <2>3
<1>7. IsFirst(h, Nodes)
  <2>1. 1 \in 1..m /\ \A j \in 1..m : j = 1 \/ 1 < j
    BY <1>1
  <2>2. h \in Nodes
    BY <1>2, <1>3, <2>1
  <2>3. ASSUME NEW y \in Nodes PROVE y = h \/ Before(h, y)
    <3>1. PICK j \in 1..m : y = s[j]
      BY <1>2
    <3> QED
      BY <1>3, <1>6, <2>1, <3>1
  <2> QED
    BY <2>2, <2>3 DEF IsFirst
<1>8. ASSUME NEW y \in Nodes PROVE IsFirst(f[y], After(y, Nodes))
  <2>1. PICK j \in 1..m : y = s[j]
    BY <1>2
  <2>2. \A c \in 1..m : Before(s[j], s[c]) => j < c
    <3> SUFFICES ASSUME NEW c \in 1..m, Before(s[j], s[c]), ~(j < c) PROVE FALSE
      OBVIOUS
    <3>1. c = j \/ c < j
      OBVIOUS
    <3>2. s[j] \in Nodes /\ s[c] \in Nodes
      BY <1>2
    <3>3. c = j => Before(s[j], s[j])
      OBVIOUS
    <3>4. c < j => Before(s[c], s[j])
      BY <1>6
    <3> QED
      BY <1>4, <3>1, <3>2, <3>3, <3>4 DEF StrictOrder
  <2>3. CASE j = m
    <3>1. f[y] = 0
      BY <1>3, <2>1, <2>3
    <3>2. After(y, Nodes) = {}
      <4> SUFFICES ASSUME NEW z \in Nodes, Before(y, z) PROVE FALSE
        BY DEF After
      <4>1. PICK c \in 1..m : z = s[c]
        BY <1>2
      <4>2. j < c
        BY <2>1, <2>2, <4>1
      <4> QED
        BY <2>3, <4>2
    <3> QED
      BY <3>1, <3>2 DEF IsFirst
  <2>4. CASE j # m
    <3>1. j + 1 \in 1..m /\ j < j + 1
      BY <2>4
    <3>2. f[y] = s[j + 1] /\ s[j + 1] \in Nodes /\ Before(y, s[j + 1])
      BY <1>2, <1>3, <1>6, <2>1, <2>4, <3>1
    <3>3. ASSUME NEW z \in Nodes, Before(y, z) PROVE z = f[y] \/ Before(f[y], z)
      <4>1. PICK c \in 1..m : z = s[c]
        BY <1>2
      <4>2. j < c
        BY <2>1, <2>2, <3>3, <4>1
      <4>3. c = j + 1 \/ j + 1 < c
        BY <4>2
      <4> QED
        BY <1>6, <3>1, <3>2, <4>1, <4>3
    <3> QED
      BY <3>2, <3>3 DEF IsFirst, After
  <2> QED
    BY <2>3, <2>4
<1> QED
  BY <1>7, <1>8 DEF IsRun

LEMMA NothingSwappedKeeps ==
  ASSUME Inv, NothingSwapped
  PROVE  Inv'
<1>1. /\ TypeOK /\ WalkInv
      /\ pc = "walk" /\ next[tmp] = 0 /\ pc' = "done"
      /\ n' = n /\ next' = next /\ head' = head /\ slots' = slots /\ tmp' = tmp
      /\ pNode' = pNode /\ pNext' = pNext /\ i' = i /\ call' = call
  BY DEF Inv, NothingSwapped
<1>2. Nodes' = Nodes
  BY <1>1, SameNodes
<1>3. TypeOK'
  BY <1>1, <1>2 DEF TypeOK
<1>4. PICK s : IsListing(next, head, s) /\ Ascends(s, tmp)
  BY <1>1, WalkSeen
<1>5. PICK k \in 1..Len(s) : /\ tmp = s[k]
                             /\ \A j \in 1..(k - 1) : n[s[j]] <= n[s[j + 1]]
  BY <1>4 DEF Ascends
<1>6. k = Len(s)
  <2> SUFFICES ASSUME k # Len(s) PROVE FALSE
    OBVIOUS
  <2>1. Len(s) \in Nat /\ \A j \in 1..Len(s) : s[j] # 0
    BY <1>1, <1>4, ListingFacts
  <2>2. next[tmp] = s[k + 1]
    BY <1>4, <1>5 DEF IsListing
  <2>3. k + 1 \in 1..Len(s)
    BY <2>1
  <2> QED
    BY <1>1, <2>1, <2>2, <2>3
<1>7. IsRun(next, head, Nodes)
  <2>1. \A j \in 1..(Len(s) - 1) : n[s[j]] <= n[s[j + 1]]
    BY <1>5, <1>6
  <2> QED
    BY <1>1, <1>4, <2>1, NothingDescends
<1>8. IsRun(next, head, Nodes)'
  BY <1>1, <1>2, <1>7, RunPrimed
<1> QED
  BY <1>1, <1>3, <1>8 DEF Inv, WalkInv, DoneInv

LEMMA StutterKeeps ==
  ASSUME Inv, UNCHANGED vars
  PROVE  Inv'
<1>1. /\ n' = n /\ next' = next /\ pc' = pc /\ head' = head /\ slots' = slots
      /\ pNode' = pNode /\ pNext' = pNext /\ i' = i /\ call' = call /\ tmp' = tmp
  BY DEF vars
<1>2. Nodes' = Nodes /\ Bounds' = Bounds /\ Len(n)' = Len(n)
  BY <1>1, SameNodes
<1>3. TypeOK'
  BY <1>1, <1>2 DEF Inv, TypeOK
<1>4. WalkInv'
  <2>1. CASE pc # "walk"
    BY <1>1, <2>1 DEF WalkInv
  <2>2. CASE pc = "walk"
    <3>1. PICK s : IsListing(next, head, s) /\ Ascends(s, tmp)
      BY <2>2, WalkSeen DEF Inv
    <3>2. TypeOK /\ next' \in [Nodes -> Nodes \cup {0}]
      BY <1>1 DEF Inv, TypeOK
    <3> QED
      BY <1>1, <3>1, <3>2, WalkShown
  <2> QED
    BY <2>1, <2>2
<1>5. DoneInv'
  BY <1>1, <1>2, RunPrimed DEF Inv, DoneInv
<1>6. Taken' = Taken
  BY <1>1 DEF Taken
<1>7. \A b, s : SlotOK(b, s) => SlotOK(b, s)'
  BY <1>1, SlotKept
<1>8. \A f, x, A : IsRun(f, x, A)' <=> IsRun(f, x, A)
  BY <1>1, RunPrimed
<1>9. \A s, size : FullRun(s, size)' <=> FullRun(s, size)
  BY <1>1, <1>2 DEF FullRun
<1>10. ASSUME SlotsInv PROVE SlotsInv'
  <2>1. PICK b \in Bounds : b[0] <= Taken /\ (TakeInv(b) \/ CarryInv(b) \/ GatherInv(b) \/ MergeInv(b))
    BY <1>10 DEF SlotsInv
  <2>2. TakeInv(b) => TakeInv(b)'
    BY <1>1, <1>6, <1>7 DEF TakeInv
  <2>3. CarryInv(b) => CarryInv(b)'
    BY <1>1, <1>6, <1>7, <1>8, <1>9 DEF CarryInv
  <2>4. GatherInv(b) => GatherInv(b)'
    BY <1>1, <1>2, <1>7, <1>8 DEF GatherInv
  <2>5. MergeInv(b) => MergeInv(b)'
    <3>1. /\ \A A : Moved(A)' = Moved(A)
          /\ \A x, A : IsFirst(x, A)' <=> IsFirst(x, A)
          /\ \A x, A : After(x, A)' = After(x, A)
          /\ Part(b, i)' = Part(b, i)
      BY <1>1 DEF Moved, Before, IsFirst, After, Part
    <3> QED
      BY <1>1, <1>6, <1>7, <1>8, <1>9, <3>1 DEF MergeInv
  <2> QED
    BY <1>2, <1>6, <2>1, <2>2, <2>3, <2>4, <2>5 DEF SlotsInv
<1>11. UntakenInv => UntakenInv'
  BY <1>1, <1>6 DEF UntakenInv
<1> QED
  BY <1>1, <1>3, <1>4, <1>5, <1>10, <1>11 DEF Inv

(* Both sorts keep the invariant, whatever the list and however many slots *)
(* (SortList and MergeLists, SortTree and swap).                           *)
THEOREM Invariant == Spec => []Inv
<1>1. Init => Inv
  BY InitEstablishes
<1>2. Inv /\ [Next]_vars => Inv'
  <2> SUFFICES ASSUME Inv, [Next]_vars PROVE Inv'
    OBVIOUS
  <2>1. CASE TakeNode
    BY <2>1, TakeNodeKeeps
  <2>2. CASE Carry
    BY <2>2, CarryKeeps
  <2>3. CASE Store
    BY <2>3, StoreKeeps
  <2>4. CASE AllTaken
    BY <2>4, AllTakenKeeps
  <2>5. CASE Gather
    BY <2>5, GatherKeeps
  <2>6. CASE Gathered
    BY <2>6, GatheredKeeps
  <2>7. CASE MergeStep
    BY <2>7, MergeStepKeeps
  <2>8. CASE MergeReturns
    BY <2>8, MergeReturnsKeeps
  <2>9. CASE Walk
    BY <2>9, WalkKeeps
  <2>10. CASE Swap
    BY <2>10, SwapKeeps
  <2>11. CASE NothingSwapped
    BY <2>11, NothingSwappedKeeps
  <2>12. CASE Sorted \/ UNCHANGED vars
    BY <2>12, StutterKeeps DEF Sorted
  <2> QED
    BY <2>1, <2>2, <2>3, <2>4, <2>5, <2>6, <2>7, <2>8, <2>9, <2>10, <2>11, <2>12 DEF Next
<1> QED
  BY <1>1, <1>2, PTL DEF Spec

(* When SortList or SortTree ends, the list has every node once, in        *)
(* ascending order, equal numbers as they came.                            *)
THEOREM SortsAreStable == Spec => []SortedWhenDone
<1>1. Inv => SortedWhenDone
  <2> SUFFICES ASSUME Inv, pc = "done" PROVE IsStableOrder(Chain(head))
    BY DEF SortedWhenDone
  <2>1. TypeOK /\ IsRun(next, head, Nodes) /\ next \in [Nodes -> Nodes \cup {0}]
    BY DEF Inv, DoneInv, TypeOK
  <2>2. n \in Seq(Nat) /\ Len(n) \in Nat /\ Nodes = 1..Len(n)
    BY <2>1, Setting
  <2>3. PICK A : A = Nodes
    OBVIOUS
  <2>4. IsOrdered(ChainIn(next, head), Nodes)
    <3>1. A \in SUBSET Nodes /\ IsRun(next, head, A)
      BY <2>1, <2>3
    <3>2. IsOrdered(ChainIn(next, head), A)
      BY <2>1, <2>2, <3>1, RunChain
    <3> QED
      BY <2>3, <3>2
  <2>5. Cardinality(Nodes) = Len(n)
    BY <2>2, Counted
  <2> QED
    BY <2>4, <2>5 DEF IsStableOrder, IsOrdered, Chain
<1> QED
  BY <1>1, Invariant, PTL

-----------------------------------------------------------------------------
(* What the slots hold *)

LEMMA SlotChain ==
  ASSUME TypeOK, NEW b \in Bounds, NEW s \in 0..(NumLists - 1), SlotOK(b, s)
  PROVE  /\ IsOrdered(Chain(slots[s]), Part(b, s))
         /\ Len(Chain(slots[s])) = b[s] - b[s + 1]
<1>1. n \in Seq(Nat) /\ next \in [Nodes -> Nodes \cup {0}]
  BY Setting DEF TypeOK
<1>2. Part(b, s) \in SUBSET Nodes /\ IsRun(next, slots[s], Part(b, s))
  BY BoundsFacts DEF SlotOK
<1>3. IsOrdered(Chain(slots[s]), Part(b, s))
  BY <1>1, <1>2, RunChain DEF Chain
<1>4. Cardinality(Part(b, s)) = b[s] - b[s + 1]
  <2>1. s \in 0..NumLists /\ s + 1 \in 0..NumLists /\ b[s + 1] <= b[s]
    BY BoundsFacts
  <2>2. PICK p \in Int, q \in Int : p = b[s + 1] + 1 /\ q = b[s] /\ p - 1 = b[s + 1] /\ p - 1 <= q
    <3>1. b[s] \in Nat /\ b[s + 1] \in Nat
      BY <2>1, BoundsFacts
    <3>2. PICK p : p = b[s + 1] + 1
      OBVIOUS
    <3>3. p \in Int /\ p - 1 = b[s + 1]
      BY <3>1, <3>2
    <3> QED
      BY <2>1, <3>1, <3>2, <3>3
  <2>3. Cardinality(p..q) = IF p > q THEN 0 ELSE q - p + 1
    BY FS_Interval
  <2>4. p - 1 <= q
    BY <2>2
  <2>5. Cardinality(p..q) = q - (p - 1)
    BY <2>3, <2>4
  <2> QED
    BY <2>2, <2>5 DEF Part
<1> QED
  BY <1>3, <1>4 DEF IsOrdered

LEMMA RestChain ==
  ASSUME TypeOK, UntakenInv, pc = "take", pNode = 0 => pNext = 0
  PROVE  /\ Elements(Chain(pNode)) = (Taken + 1)..Len(n)
         /\ IsInjective(Chain(pNode))
<1>1. /\ n \in Seq(Nat) /\ Len(n) \in Nat /\ Nodes = 1..Len(n) /\ 0 \notin Nodes
      /\ next \in [Nodes -> Nodes \cup {0}] /\ pNode \in Nodes \cup {0}
  BY Setting DEF TypeOK
<1>2. PICK p \in Nat, l \in Nat : p = Taken /\ l = Len(n) /\ p <= l
  BY <1>1, TakenFacts
<1>3. PICK m \in Nat : m = l - p /\ m <= l
  <2>1. p <= l
    BY <1>2
  <2>2. l - p \in Nat /\ l - p <= l
    BY <2>1
  <2> QED
    BY <2>2
<1>4. PICK s : s = [k \in 1..m |-> p + k]
  OBVIOUS
<1>5. \A k \in 1..m : s[k] = p + k /\ p + k \in (p + 1)..l /\ p + k \in 1..l
  BY <1>2, <1>3, <1>4
<1>6. s \in Seq(Nodes) /\ Len(s) = m
  <2>1. \A k \in 1..m : s[k] \in Nodes
    BY <1>1, <1>2, <1>5
  <2>2. [k \in 1..m |-> s[k]] \in Seq(Nodes) /\ Len([k \in 1..m |-> s[k]]) = m
    BY <2>1, Listed
  <2>3. s = [k \in 1..m |-> s[k]]
    BY <1>4
  <2> QED
    BY <2>2, <2>3
<1>7. pNode = IF m = 0 THEN 0 ELSE p + 1
  <2>1. Taken = IF pNode = 0 THEN Len(n) ELSE pNode - 1
    BY DEF Taken
  <2>2. p = IF pNode = 0 THEN l ELSE pNode - 1
    BY <1>2, <2>1
  <2>3. pNode # 0 => pNode \in 1..l
    BY <1>1, <1>2
  <2> QED
    BY <1>3, <2>2, <2>3
<1>8. \A k \in 1..m : next[s[k]] = IF k = m THEN 0 ELSE s[k + 1]
  <2> SUFFICES ASSUME NEW k \in 1..m PROVE next[s[k]] = IF k = m THEN 0 ELSE s[k + 1]
    OBVIOUS
  <2>1. next[p + k] = IF p + k = l THEN 0 ELSE (p + k) + 1
    BY <1>2, <1>5 DEF UntakenInv
  <2>2. p + k = l <=> k = m
    BY <1>3
  <2>3. k # m => k + 1 \in 1..m /\ p + (k + 1) = (p + k) + 1
    OBVIOUS
  <2> QED
    BY <1>5, <2>1, <2>2, <2>3
<1>9. Chain(pNode) = s
  <2>1. pNode = IF s = << >> THEN 0 ELSE s[1]
    <3>1. s = << >> <=> m = 0
      BY <1>6, EmptySeq
    <3>2. m # 0 => 1 \in 1..m
      BY <1>3
    <3> QED
      BY <1>5, <1>7, <3>1, <3>2
  <2>2. Len(s) <= Len(n)
    BY <1>2, <1>3, <1>6
  <2>3. \A k \in 1..Len(s) : next[s[k]] = IF k = Len(s) THEN 0 ELSE s[k + 1]
    BY <1>6, <1>8
  <2>4. n \in Seq(Nat) /\ next \in [Nodes -> Nodes \cup {0}] /\ s \in Seq(Nodes)
    BY <1>1, <1>6
  <2>5. ChainIn(next, pNode) = s
    BY <2>1, <2>2, <2>3, <2>4, ListChain
  <2> QED
    BY <2>5 DEF Chain
<1>10. Elements(s) = (p + 1)..l
  <2>1. ASSUME NEW y \in (p + 1)..l PROVE \E k \in 1..m : s[k] = y
    <3>1. y - p \in 1..m /\ p + (y - p) = y
      BY <1>2, <1>3
    <3> QED
      BY <1>5, <3>1
  <2> QED
    BY <1>5, <1>6, <2>1 DEF Elements
<1>11. IsInjective(s)
  <2>1. \A j, k \in 1..m : s[j] = s[k] => j = k
    <3> SUFFICES ASSUME NEW j \in 1..m, NEW k \in 1..m, s[j] = s[k] PROVE j = k
      OBVIOUS
    <3>1. p + j = p + k
      BY <1>5
    <3> QED
      BY <3>1
  <2>2. DOMAIN s = 1..m
    BY <1>4
  <2> QED
    BY <2>1, <2>2 DEF IsInjective
<1> QED
  BY <1>2, <1>9, <1>10, <1>11

(* Every node taken stands above one of the bounds.                        *)
LEMMA InSomePart ==
  ASSUME TypeOK, NEW b \in Bounds, NEW x \in Nodes, x <= b[0]
  PROVE  \E s \in 0..(NumLists - 1) : x \in Part(b, s)
<1>1. /\ NumLists \in Nat /\ NumLists >= 1 /\ b[NumLists] = 0 /\ x \in Nat /\ x >= 1
      /\ \A s \in 0..NumLists : b[s] \in Nat
  BY Setting, BoundsFacts
<1> DEFINE T == {s \in 0..NumLists : b[s] < x}
<1>2. T \in SUBSET Nat /\ T # {}
  <2>1. NumLists \in 0..NumLists /\ b[NumLists] < x
    BY <1>1
  <2> QED
    BY <1>1, <2>1
<1>3. PICK m \in T : \A k \in T : m <= k
  BY <1>2, Least
<1>4. m \in 0..NumLists /\ b[m] < x
  OBVIOUS
<1>5. m # 0
  <2>1. b[0] \in Nat
    BY <1>1
  <2> QED
    BY <1>1, <1>4, <2>1
<1>6. m - 1 \in 0..(NumLists - 1) /\ m - 1 \in 0..NumLists /\ (m - 1) + 1 = m /\ ~(m <= m - 1)
  BY <1>1, <1>4, <1>5
<1>7. ~(b[m - 1] < x)
  BY <1>3, <1>6
<1>8. x \in (b[m] + 1)..b[m - 1]
  <2>1. b[m] \in Nat /\ b[m - 1] \in Nat
    BY <1>1, <1>4, <1>6
  <2> QED
    BY <1>1, <1>4, <1>7, <2>1
<1> QED
  BY <1>6, <1>8 DEF Part

(* "aList[i] == NULL or ptr to list with 2^i nodes", and no node is lost   *)
(* or held twice, for every number of slots, however full the last one is. *)
THEOREM SlotsHoldPowersOfTwo == Spec => []SlotsArePowersOfTwo
<1>1. Inv => SlotsArePowersOfTwo
  <2> SUFFICES ASSUME Inv, pc = "take" PROVE SlotsArePowersOfTwo
    BY DEF SlotsArePowersOfTwo
  <2> DEFINE held == [s \in 0..NumLists |-> Chain(IF s = NumLists THEN pNode ELSE slots[s])]
  <2>1. TypeOK /\ UntakenInv
    BY DEF Inv
  <2>2. PICK b \in Bounds : TakeInv(b)
    BY DEF Inv, SlotsInv, CarryInv, GatherInv, MergeInv, TakeInv
  <2>3. /\ b[0] = Taken /\ (pNode = 0 => pNext = 0)
        /\ \A s \in 0..(NumLists - 1) : SlotOK(b, s)
    BY <2>2 DEF TakeInv
  <2>4. /\ NumLists \in Nat /\ NumLists >= 1 /\ Len(n) \in Nat /\ Nodes = 1..Len(n)
        /\ Taken \in Nat /\ Taken <= Len(n)
    BY <2>1, Setting, TakenFacts
  <2>5. PICK h : h = held
    OBVIOUS
  <2>6. /\ NumLists - 1 \in 0..(NumLists - 1)
        /\ \A s \in 0..(NumLists - 2) : s \in 0..(NumLists - 1) /\ s < NumLists - 1
        /\ \A s \in 0..(NumLists - 1) : s \in 0..NumLists /\ s # NumLists
        /\ NumLists \in 0..NumLists
        /\ \A s \in 0..NumLists : s = NumLists \/ s \in 0..(NumLists - 1)
    BY <2>4
  <2>7. h[NumLists] = Chain(pNode) /\ \A s \in 0..(NumLists - 1) : h[s] = Chain(slots[s])
    BY <2>5, <2>6
  <2>8. ASSUME NEW s \in 0..(NumLists - 1)
        PROVE  /\ Elements(h[s]) = Part(b, s) /\ IsInjective(h[s])
               /\ Len(h[s]) = b[s] - b[s + 1]
    <3>1. IsOrdered(h[s], Part(b, s)) /\ Len(h[s]) = b[s] - b[s + 1]
      BY <2>1, <2>3, <2>7, SlotChain
    <3>2. h[s] \in Seq(Nodes) /\ \A j, k \in 1..Len(h[s]) : h[s][j] = h[s][k] => j = k
      BY <3>1 DEF IsOrdered
    <3>3. DOMAIN h[s] = 1..Len(h[s])
      BY <3>2, LenProperties
    <3>4. IsInjective(h[s])
      BY <3>2, <3>3, Zenon DEF IsInjective
    <3> QED
      BY <3>1, <3>4 DEF IsOrdered
  <2>9. Elements(h[NumLists]) = (Taken + 1)..Len(n) /\ IsInjective(h[NumLists])
    BY <2>1, <2>3, <2>7, RestChain
  <2>10. ASSUME NEW s \in 0..(NumLists - 2), slots[s] # 0 PROVE Len(h[s]) = Power2[s]
    <3>1. FullRun(s, b[s] - b[s + 1])
      BY <2>3, <2>6, <2>10 DEF SlotOK
    <3>2. b[s] - b[s + 1] = Power2[s]
      BY <2>6, <3>1 DEF FullRun
    <3> QED
      BY <2>6, <2>8, <3>2
  <2>11. \E c \in 0..Len(n) : Len(h[NumLists - 1]) = c * Power2[NumLists - 1]
    <3>1. PICK z \in 0..(NumLists - 1) : z = NumLists - 1
      BY <2>6
    <3>2. SlotOK(b, z) /\ Len(h[z]) = b[z] - b[z + 1]
      BY <2>3, <2>8
    <3>3. CASE slots[z] # 0
      <4>1. FullRun(z, b[z] - b[z + 1])
        BY <3>2, <3>3 DEF SlotOK
      <4>2. ~(z < NumLists - 1)
        BY <2>4, <3>1
      <4>3. \E c \in 0..Len(n) : b[z] - b[z + 1] = c * Power2[NumLists - 1]
        BY <4>1, <4>2 DEF FullRun
      <4> QED
        BY <3>1, <3>2, <4>3
    <3>4. CASE slots[z] = 0
      <4>1. Part(b, z) = {}
        <5>1. 0 \notin Nodes /\ Part(b, z) \in SUBSET Nodes
          BY <2>1, Setting, BoundsFacts
        <5>2. IsRun(next, slots[z], Part(b, z))
          BY <3>2 DEF SlotOK
        <5> QED
          BY <3>4, <5>1, <5>2, RunBegins
      <4>2. Len(h[z]) = 0
        <5>1. IsOrdered(h[z], {})
          BY <2>1, <2>3, <2>7, <4>1, SlotChain
        <5> QED
          BY <5>1, FS_EmptySet DEF IsOrdered
      <4>3. Power2[NumLists - 1] \in Nat
        BY <2>4, Powers
      <4>4. 0 \in 0..Len(n) /\ 0 = 0 * Power2[NumLists - 1]
        BY <2>4, <4>3
      <4> QED
        BY <3>1, <4>2, <4>4
    <3> QED
      BY <3>3, <3>4
  <2>12. ASSUME NEW s \in 0..NumLists, NEW r \in 0..(s - 1)
         PROVE  Elements(h[r]) \cap Elements(h[s]) = {}
    <3>1. r \in 0..(NumLists - 1) /\ r \in 0..NumLists /\ r + 1 \in 0..NumLists /\ r + 1 <= s
      BY <2>4
    <3>2. Elements(h[r]) = (b[r + 1] + 1)..b[r] /\ b[r] \in Nat /\ b[r + 1] \in Nat /\ b[r] <= b[0]
      BY <2>1, <2>8, <3>1, BoundsFacts DEF Part
    <3>3. CASE s = NumLists
      <4>1. \A y \in Elements(h[r]) : y \in Nat /\ y <= Taken
        BY <2>3, <2>4, <3>2
      <4>2. \A y \in Elements(h[s]) : ~(y <= Taken)
        BY <2>4, <2>9, <3>3
      <4> QED
        BY <4>1, <4>2
    <3>4. CASE s \in 0..(NumLists - 1)
      <4>1. b[s] <= b[r + 1] /\ b[s] \in Nat /\ b[s + 1] \in Nat
        BY <2>1, <2>6, <3>1, <3>4, BoundsFacts DEF Bounds
      <4>2. Elements(h[s]) = (b[s + 1] + 1)..b[s]
        BY <2>8, <3>4 DEF Part
      <4>3. \A y \in Elements(h[s]) : y \in Nat /\ y <= b[r + 1]
        <5>1. PICK p \in Nat, q \in Nat, t \in Nat : p = b[r + 1] /\ q = b[s] /\ t = b[s + 1] /\ q <= p
          BY <3>2, <4>1
        <5>2. q <= p
          BY <5>1
        <5>3. \A y \in (t + 1)..q : y \in Nat /\ y <= p
          BY <5>2
        <5> QED
          BY <4>2, <5>1, <5>3
      <4>4. \A y \in Elements(h[r]) : ~(y <= b[r + 1])
        BY <3>2
      <4> QED
        BY <4>3, <4>4
    <3> QED
      BY <2>6, <3>3, <3>4
  <2>13. UNION {Elements(h[s]) : s \in 0..NumLists} = Nodes
    <3>1. \A s \in 0..NumLists : Elements(h[s]) \in SUBSET Nodes
      <4>1. (Taken + 1)..Len(n) \in SUBSET Nodes
        BY <2>4
      <4>2. \A s \in 0..(NumLists - 1) : Part(b, s) \in SUBSET Nodes
        BY <2>1, BoundsFacts
      <4> QED
        BY <2>6, <2>8, <2>9, <4>1, <4>2
    <3>2. ASSUME NEW y \in Nodes PROVE \E s \in 0..NumLists : y \in Elements(h[s])
      <4>1. CASE y <= Taken
        <5>1. PICK s \in 0..(NumLists - 1) : y \in Part(b, s)
          BY <2>1, <2>3, <4>1, InSomePart
        <5> QED
          BY <2>6, <2>8, <5>1
      <4>2. CASE ~(y <= Taken)
        <5>1. y \in (Taken + 1)..Len(n)
          BY <2>4, <4>2
        <5> QED
          BY <2>6, <2>9, <5>1
      <4> QED
        BY <4>1, <4>2
    <3> QED
      BY <3>1, <3>2
  <2>14. \A s \in 0..NumLists : IsInjective(h[s])
    BY <2>6, <2>8, <2>9
  <2> HIDE DEF held
  <2>15. /\ \A s \in 0..(NumLists - 2) : slots[s] # 0 => Len(held[s]) = Power2[s]
         /\ \E c \in 0..Len(n) : Len(held[NumLists - 1]) = c * Power2[NumLists - 1]
         /\ \A s \in 0..NumLists : IsInjective(held[s])
         /\ \A s \in 0..NumLists : \A r \in 0..(s - 1) :
              Elements(held[r]) \cap Elements(held[s]) = {}
         /\ UNION {Elements(held[s]) : s \in 0..NumLists} = Nodes
    BY <2>5, <2>10, <2>11, <2>12, <2>13, <2>14, Zenon
  <2> USE DEF held
  <2> QED
    BY <2>15, Zenon DEF SlotsArePowersOfTwo
<1> QED
  BY <1>1, Invariant, PTL
-----------------------------------------------------------------------------
(* The sorts come to an end *)

\* What MergeLists may still move.
Unmoved == {y \in Nodes : call.tail = 0 \/ Before(call.tail, y)}

\* A slot costs a merge, and a node all the slots.
SlotCost == Len(n) + 3
NodeCost == SlotCost * NumLists + 2

SlotsLeft == CASE pc \in {"carry", "gather"} -> SlotCost * (NumLists - i) + 1
               [] pc = "merge" -> SlotCost * (NumLists - (i + 1)) + Cardinality(Unmoved) + 2
               [] OTHER -> 0

\* After the last node the slots are gathered: once more their cost.
NodesLeft == IF pc \in {"take", "carry"} \/ (pc = "merge" /\ call.from = "carry")
             THEN Len(n) - Taken + 1 ELSE 0

\* SortTree: the pairs in the wrong order, and the nodes behind tmp.
InWrongOrder(s) == {p \in Nodes \X Nodes :
                      /\ n[p[2]] < n[p[1]]
                      /\ \E j, k \in 1..Len(s) : j < k /\ s[j] = p[1] /\ s[k] = p[2]}
Behind(s, x) == {y \in Nodes : \E j, k \in 1..Len(s) : j < k /\ s[j] = x /\ s[k] = y}

PairCost == Len(n) + 2

StepsLeft ==
  IF pc = "walk"
  THEN PairCost * Cardinality(InWrongOrder(Chain(head))) + Cardinality(Behind(Chain(head), tmp)) + 1
  ELSE NodeCost * NodesLeft + SlotsLeft

LEMMA Products ==
  ASSUME NEW a \in Nat, NEW c \in Nat
  PROVE  a * c \in Nat /\ a * (c - 1) = a * c - a
OBVIOUS

LEMMA CostFacts ==
  ASSUME TypeOK
  PROVE  /\ Len(n) \in Nat /\ NumLists \in Nat /\ NumLists >= 1
         /\ IsFiniteSet(Nodes) /\ Cardinality(Nodes) = Len(n)
         /\ SlotCost \in Nat /\ NodeCost \in Nat /\ PairCost \in Nat
<1>1. Len(n) \in Nat /\ NumLists \in Nat /\ NumLists >= 1 /\ Nodes = 1..Len(n)
  BY Setting
<1>2. IsFiniteSet(Nodes) /\ Cardinality(Nodes) = Len(n)
  <2>1. PICK l \in Nat : l = Len(n)
    BY <1>1
  <2>2. IsFiniteSet(1..l) /\ Cardinality(1..l) = l
    BY FS_Interval
  <2> QED
    BY <1>1, <2>1, <2>2, Zenon
<1>3. SlotCost \in Nat /\ PairCost \in Nat
  BY <1>1 DEF SlotCost, PairCost
<1>4. SlotCost * NumLists \in Nat
  BY <1>1, <1>3, Products
<1> QED
  BY <1>1, <1>2, <1>3, <1>4 DEF NodeCost

(* Where the index stands.                                                 *)
LEMMA IndexFacts ==
  ASSUME Inv
  PROVE  /\ pc \in {"carry", "gather"} => i \in 0..NumLists
         /\ pc = "merge" => i \in 0..(NumLists - 1) /\ call.from \in {"carry", "gather"}
<1>1. pc \in {"take", "carry", "merge", "gather"} => SlotsInv
  BY DEF Inv
<1>2. ASSUME pc \in {"carry", "gather"} PROVE i \in 0..NumLists
  BY <1>1, <1>2 DEF SlotsInv, TakeInv, CarryInv, GatherInv, MergeInv
<1>3. ASSUME pc = "merge" PROVE i \in 0..(NumLists - 1) /\ call.from \in {"carry", "gather"}
  BY <1>1, <1>3 DEF SlotsInv, TakeInv, CarryInv, GatherInv, MergeInv
<1> QED
  BY <1>2, <1>3

LEMMA UnmovedFacts ==
  ASSUME TypeOK, NEW A \in SUBSET Nodes
  PROVE  IsFiniteSet(A) /\ Cardinality(A) \in Nat /\ Cardinality(A) <= Len(n)
<1>1. IsFiniteSet(Nodes) /\ Cardinality(Nodes) = Len(n)
  BY CostFacts
<1> QED
  BY <1>1, FS_Subset, FS_CardinalityType

LEMMA LeftFacts ==
  ASSUME Inv, pc # "walk"
  PROVE  NodesLeft \in Nat /\ SlotsLeft \in Nat /\ NodeCost * NodesLeft \in Nat
<1>1. TypeOK
  BY DEF Inv
<1>2. /\ Len(n) \in Nat /\ NumLists \in Nat /\ SlotCost \in Nat /\ NodeCost \in Nat
      /\ Taken \in Nat /\ Taken <= Len(n)
  BY <1>1, CostFacts, TakenFacts
<1>3. NodesLeft \in Nat
  BY <1>2 DEF NodesLeft
<1>4. SlotsLeft \in Nat
  <2>1. CASE pc \in {"carry", "gather"}
    <3>1. PICK c \in Nat : c = NumLists - i
      <4>1. i \in 0..NumLists
        BY <2>1, IndexFacts
      <4>2. NumLists - i \in Nat
        BY <1>2, <4>1
      <4> QED
        BY <4>2
    <3>2. SlotCost * c \in Nat
      BY <1>2, Products
    <3>3. SlotsLeft = SlotCost * c + 1
      BY <2>1, <3>1 DEF SlotsLeft
    <3> QED
      BY <3>2, <3>3
  <2>2. CASE pc = "merge"
    <3>1. PICK c \in Nat : c = NumLists - (i + 1)
      <4>1. i \in 0..(NumLists - 1)
        BY <2>2, IndexFacts
      <4>2. NumLists - (i + 1) \in Nat
        BY <1>2, <4>1
      <4> QED
        BY <4>2
    <3>2. SlotCost * c \in Nat
      BY <1>2, Products
    <3>3. Cardinality(Unmoved) \in Nat
      BY <1>1, UnmovedFacts DEF Unmoved
    <3>4. SlotsLeft = SlotCost * c + Cardinality(Unmoved) + 2
      BY <2>2, <3>1 DEF SlotsLeft
    <3> QED
      BY <3>2, <3>3, <3>4
  <2>3. CASE pc \notin {"carry", "gather", "merge"}
    BY <2>3 DEF SlotsLeft
  <2> QED
    BY <2>1, <2>2, <2>3
<1> QED
  BY <1>2, <1>3, <1>4, Products

(* Between two nodes the slots run down.                                   *)
LEMMA SlotsRunDown ==
  ASSUME Inv, n' = n, pc # "walk", pc' # "walk", NodesLeft' = NodesLeft, SlotsLeft' < SlotsLeft,
         SlotsLeft' \in Nat
  PROVE  StepsLeft' < StepsLeft
<1>1. NodeCost' = NodeCost
  BY DEF NodeCost, SlotCost
<1>2. PICK a \in Nat : a = NodeCost * NodesLeft
  BY LeftFacts
<1>3. StepsLeft' = a + SlotsLeft' /\ StepsLeft = a + SlotsLeft
  BY <1>1, <1>2 DEF StepsLeft
<1> QED
  BY <1>2, <1>3, LeftFacts

(* One node less pays for all the slots.                                   *)
LEMMA NodesRunDown ==
  ASSUME Inv, n' = n, pc # "walk", pc' # "walk",
         NodesLeft' = NodesLeft - 1, SlotsLeft' = SlotCost * NumLists + 1
  PROVE  StepsLeft' < StepsLeft
<1>1. NodeCost' = NodeCost
  BY DEF NodeCost, SlotCost
<1>2. NodeCost \in Nat /\ NodesLeft \in Nat /\ SlotsLeft \in Nat /\ SlotCost \in Nat /\ NumLists \in Nat
  BY LeftFacts, CostFacts DEF Inv
<1>3. PICK a \in Nat, c \in Nat : a = SlotCost * NumLists /\ c = NodeCost /\ c = a + 2
  <2>1. SlotCost * NumLists \in Nat
    BY <1>2, Products
  <2> QED
    BY <1>2, <2>1 DEF NodeCost
<1>4. PICK p \in Nat : p = c * NodesLeft /\ c * (NodesLeft - 1) = p - c
  BY <1>2, Products
<1>5. StepsLeft' = (p - c) + (a + 1)
  BY <1>1, <1>3, <1>4, Zenon DEF StepsLeft
<1>6. StepsLeft = p + SlotsLeft
  BY <1>3, <1>4, Zenon DEF StepsLeft
<1>7. \A x, y, u, v \in Nat : y = u + 2 => (x - y) + (u + 1) < x + v
  OBVIOUS
<1> QED
  BY <1>2, <1>3, <1>4, <1>5, <1>6, <1>7, Zenon

LEMMA TakeNodeRunsDown == Inv /\ TakeNode => StepsLeft' < StepsLeft
<1> SUFFICES ASSUME Inv, TakeNode PROVE StepsLeft' < StepsLeft
  OBVIOUS
<1>1. /\ TypeOK /\ UntakenInv /\ pc = "take" /\ pNode # 0 /\ pNext' = next[pNode]
      /\ i' = 0 /\ pc' = "carry" /\ n' = n
  BY DEF Inv, TakeNode
<1>2. Len(n) \in Nat /\ Nodes = 1..Len(n) /\ NumLists \in Nat /\ pNode \in Nodes
  BY <1>1, Setting DEF TypeOK
<1>3. Taken = pNode - 1 /\ pNode \in (Taken + 1)..Len(n) /\ pNode \in Nat
  BY <1>1, <1>2 DEF Taken
<1>4. next[pNode] = IF pNode = Len(n) THEN 0 ELSE pNode + 1
  BY <1>1, <1>3 DEF UntakenInv
<1>5. Taken' = pNode
  BY <1>1, <1>2, <1>3, <1>4 DEF Taken
<1>6. NodesLeft' = NodesLeft - 1
  BY <1>1, <1>2, <1>3, <1>5 DEF NodesLeft
<1>7. SlotsLeft' = SlotCost * NumLists + 1
  <2>1. NumLists - 0 = NumLists /\ SlotCost' = SlotCost
    BY <1>1, <1>2 DEF SlotCost
  <2> QED
    BY <1>1, <2>1 DEF SlotsLeft
<1> QED
  BY <1>1, <1>6, <1>7, NodesRunDown

LEMMA AllTakenRunsDown == Inv /\ AllTaken => StepsLeft' < StepsLeft
<1> SUFFICES ASSUME Inv, AllTaken PROVE StepsLeft' < StepsLeft
  OBVIOUS
<1>1. TypeOK /\ pc = "take" /\ pNode = 0 /\ i' = 0 /\ pc' = "gather" /\ n' = n
  BY DEF Inv, AllTaken
<1>2. Len(n) \in Nat /\ NumLists \in Nat /\ Taken = Len(n)
  BY <1>1, Setting DEF Taken
<1>3. NodesLeft' = NodesLeft - 1
  BY <1>1, <1>2 DEF NodesLeft
<1>4. SlotsLeft' = SlotCost * NumLists + 1
  <2>1. NumLists - 0 = NumLists /\ SlotCost' = SlotCost
    BY <1>1, <1>2 DEF SlotCost
  <2> QED
    BY <1>1, <2>1 DEF SlotsLeft
<1> QED
  BY <1>1, <1>3, <1>4, NodesRunDown

(* A merge begins with all nodes unmoved, which is within its cost.        *)
LEMMA MergeListsRunsDown ==
  ASSUME Inv, pc \in {"carry", "gather"}, i < NumLists, MergeLists(pc)
  PROVE  StepsLeft' < StepsLeft
<1>1. /\ TypeOK /\ pc' = "merge" /\ i' = i /\ call'.from = pc /\ call'.tail = 0
      /\ n' = n /\ pNext' = pNext
  BY DEF Inv, MergeLists
<1>2. i \in 0..NumLists /\ Len(n) \in Nat /\ NumLists \in Nat /\ SlotCost \in Nat /\ SlotCost = Len(n) + 3
  BY <1>1, IndexFacts, CostFacts DEF SlotCost
<1>3. PICK c \in Nat : c = NumLists - i /\ NumLists - (i + 1) = c - 1 /\ c - 1 \in Nat
  <2>1. NumLists - i \in Nat /\ NumLists - (i + 1) = (NumLists - i) - 1 /\ (NumLists - i) - 1 \in Nat
    BY <1>2
  <2> QED
    BY <2>1
<1>4. Unmoved' = Nodes
  BY <1>1 DEF Unmoved, Nodes
<1>5. Cardinality(Unmoved') = Len(n)
  BY <1>1, <1>4, CostFacts
<1>6. PICK p \in Nat : p = SlotCost * c /\ SlotCost * (c - 1) = p - SlotCost /\ p - SlotCost \in Nat
  BY <1>2, <1>3, Products
<1>7. SlotsLeft = p + 1
  BY <1>3, <1>6 DEF SlotsLeft
<1>8. SlotsLeft' = (p - SlotCost) + Len(n) + 2
  <2>1. SlotCost' = SlotCost
    BY <1>1 DEF SlotCost
  <2>2. SlotsLeft' = SlotCost * (NumLists - (i + 1)) + Cardinality(Unmoved') + 2
    BY <1>1, <2>1 DEF SlotsLeft
  <2> QED
    BY <1>3, <1>5, <1>6, <2>2, Zenon
<1>9. SlotsLeft' \in Nat /\ SlotsLeft' < SlotsLeft
  <2>1. \A x, y, l \in Nat : y = l + 3 /\ x - y \in Nat =>
          (x - y) + l + 2 \in Nat /\ (x - y) + l + 2 < x + 1
    OBVIOUS
  <2> QED
    BY <1>2, <1>6, <1>7, <1>8, <2>1, Zenon
<1>10. NodesLeft' = NodesLeft
  <2>1. Taken' = Taken
    BY <1>1 DEF Taken
  <2>2. (pc = "carry" \/ pc = "gather") /\ Len(n') = Len(n)
    BY <1>1
  <2> QED
    BY <1>1, <2>1, <2>2 DEF NodesLeft
<1> QED
  BY <1>1, <1>9, <1>10, SlotsRunDown

(* The node that joins the destination comes after the last that did.      *)
LEMMA MergeStepRunsDown == Inv /\ MergeStep => StepsLeft' < StepsLeft
<1> SUFFICES ASSUME Inv, MergeStep PROVE StepsLeft' < StepsLeft
  OBVIOUS
<1> DEFINE x == IF SecondFirst(call.src1, call.src2) THEN call.src2 ELSE call.src1
<1>1. /\ TypeOK /\ SlotsInv /\ pc = "merge" /\ pc' = pc /\ call.src1 # 0 /\ call.src2 # 0
      /\ call' = [call EXCEPT !.dst = Destination(x), !.tail = x,
                              !.src1 = IF x = @ THEN next[x] ELSE @,
                              !.src2 = IF x = @ THEN next[x] ELSE @]
      /\ n' = n /\ i' = i /\ pNext' = pNext
  BY DEF Inv, MergeStep
<1>2. call'.from = call.from /\ call'.tail = x
  <2> HIDE DEF x
  <2>1. call \in [from : {"none", "carry", "gather"}, src1 : Nodes \cup {0},
                  src2 : Nodes \cup {0}, dst : Nodes \cup {0}, tail : Nodes \cup {0}]
    BY <1>1 DEF TypeOK
  <2> QED
    BY <1>1, <2>1
<1>3. PICK b \in Bounds : MergeInv(b) /\ b[0] <= Taken
  BY <1>1 DEF SlotsInv, CarryInv, GatherInv, MergeInv, TakeInv
<1>4. PICK old, new, A, out :
        old = Part(b, i) /\ new = (b[i] + 1)..Taken /\ A = old \cup new /\ out = Moved(A)
  OBVIOUS
<1>5. /\ i \in 0..(NumLists - 1)
      /\ IsRun(next, call.src1, old \ out) /\ IsRun(next, call.src2, new \ out)
      /\ call.tail # 0 => call.tail \in out
  BY <1>3, <1>4, Zenon DEF MergeInv
<1>6. A \in SUBSET Nodes
  <2>1. TwoRuns(b, i, Taken)
    BY <1>1, <1>3, <1>5, TwoRunsAreMerged
  <2> QED
    BY <1>4, <2>1, Zenon DEF TwoRuns
<1>7. x \in A \ out
  <2>1. call.src1 \in old \ out /\ call.src2 \in new \ out
    BY <1>1, <1>5 DEF IsRun, IsFirst
  <2> QED
    BY <1>4, <2>1
<1> HIDE DEF x
<1>8. x \in Nodes /\ x \in Unmoved
  <2>1. StrictOrder
    BY <1>1, Setting
  <2>2. CASE call.tail = 0
    BY <1>6, <1>7, <2>2 DEF Unmoved
  <2>3. CASE call.tail # 0
    <3>1. out = {y \in A : y = call.tail \/ Before(y, call.tail)}
      BY <1>4, <2>3 DEF Moved
    <3>2. call.tail \in Nodes /\ x \in Nodes /\ x # call.tail /\ ~Before(x, call.tail)
      BY <1>5, <1>6, <1>7, <2>3, <3>1
    <3> QED
      BY <2>1, <3>2 DEF Unmoved, StrictOrder
  <2> QED
    BY <2>2, <2>3
<1>9. Unmoved' = After(x, Nodes)
  <2>1. x # 0
    BY <1>1, <1>8, Setting
  <2> QED
    BY <1>1, <1>2, <2>1 DEF Unmoved, After, Before, Nodes
<1>10. After(x, Nodes) \subseteq Unmoved /\ x \notin After(x, Nodes)
  <2>1. StrictOrder
    BY <1>1, Setting
  <2>2. x \notin After(x, Nodes)
    BY <1>8, <2>1 DEF After, StrictOrder
  <2>3. ASSUME NEW y \in After(x, Nodes) PROVE y \in Unmoved
    <3>1. y \in Nodes /\ Before(x, y)
      BY <2>3 DEF After
    <3>2. call.tail = 0 \/ (call.tail \in Nodes /\ Before(call.tail, x))
      BY <1>5, <1>6, <1>4, <1>8 DEF Unmoved, Moved
    <3> QED
      BY <1>8, <2>1, <3>1, <3>2 DEF Unmoved, StrictOrder
  <2> QED
    BY <2>2, <2>3
<1>11. PICK a \in Nat, c \in Nat : a = Cardinality(Unmoved') /\ c = Cardinality(Unmoved) /\ a < c
  <2>1. IsFiniteSet(Unmoved) /\ Cardinality(Unmoved) \in Nat
    BY <1>1, UnmovedFacts DEF Unmoved
  <2>2. /\ Cardinality(After(x, Nodes)) <= Cardinality(Unmoved)
        /\ Cardinality(After(x, Nodes)) # Cardinality(Unmoved)
    BY <1>8, <1>10, <2>1, FS_Subset
  <2>3. Cardinality(After(x, Nodes)) \in Nat
    BY <1>1, UnmovedFacts DEF After
  <2> QED
    BY <1>9, <2>1, <2>2, <2>3
<1>12. PICK p \in Nat : p = SlotCost * (NumLists - (i + 1))
  <2>1. NumLists - (i + 1) \in Nat /\ SlotCost \in Nat
    BY <1>1, <1>5, CostFacts
  <2> QED
    BY <2>1, Products
<1>13. SlotsLeft = p + c + 2 /\ SlotsLeft' = p + a + 2
  <2>1. SlotCost' = SlotCost /\ pc' = "merge"
    BY <1>1 DEF SlotCost
  <2>2. SlotsLeft' = SlotCost * (NumLists - (i + 1)) + Cardinality(Unmoved') + 2
    BY <1>1, <2>1 DEF SlotsLeft
  <2>3. SlotsLeft = SlotCost * (NumLists - (i + 1)) + Cardinality(Unmoved) + 2
    BY <1>1 DEF SlotsLeft
  <2> QED
    BY <1>11, <1>12, <2>2, <2>3
<1>14. NodesLeft' = NodesLeft
  <2>1. Taken' = Taken
    BY <1>1 DEF Taken
  <2> QED
    BY <1>1, <1>2, <2>1 DEF NodesLeft
<1> QED
  BY <1>1, <1>11, <1>13, <1>14, SlotsRunDown

LEMMA MergeReturnsRunsDown == Inv /\ MergeReturns => StepsLeft' < StepsLeft
<1> SUFFICES ASSUME Inv, MergeReturns PROVE StepsLeft' < StepsLeft
  OBVIOUS
<1>1. /\ TypeOK /\ pc = "merge" /\ pc' = call.from /\ i' = i + 1
      /\ n' = n /\ pNext' = pNext
  BY DEF Inv, MergeReturns
<1>2. i \in 0..(NumLists - 1) /\ call.from \in {"carry", "gather"}
  BY <1>1, IndexFacts
<1>3. PICK p \in Nat : p = SlotCost * (NumLists - (i + 1))
  <2>1. NumLists - (i + 1) \in Nat /\ SlotCost \in Nat
    BY <1>1, <1>2, CostFacts
  <2> QED
    BY <2>1, Products
<1>4. PICK c \in Nat : c = Cardinality(Unmoved)
  BY <1>1, UnmovedFacts DEF Unmoved
<1>5. SlotsLeft = p + c + 2
  BY <1>1, <1>3, <1>4 DEF SlotsLeft
<1>6. SlotsLeft' = p + 1
  <2>1. SlotCost' = SlotCost
    BY <1>1 DEF SlotCost
  <2>2. SlotsLeft' = SlotCost * (NumLists - (i + 1)) + 1
    BY <1>1, <1>2, <2>1 DEF SlotsLeft
  <2> QED
    BY <1>3, <2>2
<1>7. NodesLeft' = NodesLeft
  <2>1. Taken' = Taken
    BY <1>1, <1>2 DEF Taken
  <2> QED
    BY <1>1, <1>2, <2>1 DEF NodesLeft
<1> QED
  BY <1>1, <1>2, <1>5, <1>6, <1>7, SlotsRunDown

LEMMA CarriedRunsDown == Inv /\ (Store \/ Gathered) => StepsLeft' < StepsLeft
<1> SUFFICES ASSUME Inv, Store \/ Gathered PROVE StepsLeft' < StepsLeft
  OBVIOUS
<1>1. /\ TypeOK /\ n' = n /\ pNext' = pNext
      /\ \/ pc = "carry" /\ pc' = "take" /\ pNode' = pNext
         \/ pc = "gather" /\ pc' = "done"
  BY DEF Inv, Store, Gathered
<1>2. i \in 0..NumLists
  BY <1>1, IndexFacts
<1>3. PICK p \in Nat : p = SlotCost * (NumLists - i)
  <2>1. NumLists - i \in Nat /\ SlotCost \in Nat
    BY <1>1, <1>2, CostFacts
  <2> QED
    BY <2>1, Products
<1>4. SlotsLeft = p + 1 /\ SlotsLeft' = 0
  BY <1>1, <1>3 DEF SlotsLeft
<1>5. NodesLeft' = NodesLeft
  <2>1. pc = "carry" => Taken' = Taken
    BY <1>1 DEF Taken
  <2> QED
    BY <1>1, <2>1 DEF NodesLeft
<1> QED
  BY <1>1, <1>4, <1>5, SlotsRunDown

-----------------------------------------------------------------------------
(* SortTree *)

LEMMA PairFacts ==
  ASSUME TypeOK, NEW s, NEW x
  PROVE  /\ IsFiniteSet(InWrongOrder(s)) /\ Cardinality(InWrongOrder(s)) \in Nat
         /\ IsFiniteSet(Behind(s, x)) /\ Cardinality(Behind(s, x)) \in Nat
         /\ Cardinality(Behind(s, x)) <= Len(n)
<1>1. IsFiniteSet(Nodes \X Nodes)
  BY CostFacts, FS_Product
<1>2. InWrongOrder(s) \in SUBSET (Nodes \X Nodes)
  BY DEF InWrongOrder
<1>3. IsFiniteSet(InWrongOrder(s)) /\ Cardinality(InWrongOrder(s)) \in Nat
  BY <1>1, <1>2, FS_Subset, FS_CardinalityType
<1>4. Behind(s, x) \in SUBSET Nodes
  BY DEF Behind
<1> QED
  BY <1>3, <1>4, UnmovedFacts

LEMMA WalkRunsDown == Inv /\ Walk => StepsLeft' < StepsLeft
<1> SUFFICES ASSUME Inv, Walk PROVE StepsLeft' < StepsLeft
  OBVIOUS
<1>1. /\ TypeOK /\ WalkInv /\ pc = "walk" /\ pc' = pc /\ next[tmp] # 0 /\ tmp' = next[tmp]
      /\ n' = n /\ next' = next /\ head' = head
  BY DEF Inv, Walk
<1>2. PICK s : IsListing(next, head, s) /\ Ascends(s, tmp)
  BY <1>1, WalkSeen
<1>3. PICK k \in 1..Len(s) : tmp = s[k]
  BY <1>2 DEF Ascends
<1>4. Len(s) \in Nat /\ \A j \in 1..Len(s) : s[j] \in Nodes
  BY <1>1, <1>2, ListingFacts
<1>5. k # Len(s) /\ tmp' = s[k + 1]
  BY <1>1, <1>2, <1>3 DEF IsListing
<1>6. k \in Nat /\ k + 1 \in 1..Len(s) /\ k < k + 1
  BY <1>4, <1>5
<1>7. \A j, m \in 1..Len(s) : s[j] = s[m] => j = m
  BY <1>2 DEF IsListing
<1>8. Behind(s, tmp') \subseteq Behind(s, tmp)
  <2>1. ASSUME NEW y \in Behind(s, tmp') PROVE y \in Behind(s, tmp)
    <3>1. PICK j \in 1..Len(s), m \in 1..Len(s) : j < m /\ s[j] = tmp' /\ s[m] = y
      BY <2>1 DEF Behind
    <3>2. j = k + 1
      BY <1>5, <1>6, <1>7, <3>1
    <3>3. k < m /\ y \in Nodes
      BY <1>4, <1>6, <3>1, <3>2
    <3> QED
      BY <1>3, <3>1, <3>3 DEF Behind
  <2> QED
    BY <2>1
<1>9. tmp' \in Behind(s, tmp) /\ tmp' \notin Behind(s, tmp')
  <2>1. tmp' \in Behind(s, tmp)
    BY <1>3, <1>4, <1>5, <1>6 DEF Behind
  <2>2. tmp' \notin Behind(s, tmp')
    BY <1>7 DEF Behind
  <2> QED
    BY <2>1, <2>2
<1>10. PICK a \in Nat, c \in Nat :
         a = Cardinality(Behind(s, tmp')) /\ c = Cardinality(Behind(s, tmp)) /\ a < c
  <2>1. IsFiniteSet(Behind(s, tmp)) /\ Cardinality(Behind(s, tmp)) \in Nat
        /\ Cardinality(Behind(s, tmp')) \in Nat
    BY <1>1, PairFacts
  <2>2. /\ Cardinality(Behind(s, tmp')) <= Cardinality(Behind(s, tmp))
        /\ Cardinality(Behind(s, tmp')) # Cardinality(Behind(s, tmp))
    BY <1>8, <1>9, <2>1, FS_Subset
  <2> QED
    BY <2>1, <2>2
<1>11. Chain(head) = s /\ Chain(head)' = s
  <2>1. next \in [Nodes -> Nodes \cup {0}]
    BY <1>1 DEF TypeOK
  <2>2. Chain(head) = s
    BY <1>1, <1>2, <2>1, ListingIsChain DEF Chain
  <2>3. Chain(head)' = Chain(head)
    BY <1>1 DEF Chain, ChainIn
  <2> QED
    BY <2>2, <2>3
<1>12. PICK p \in Nat : p = PairCost * Cardinality(InWrongOrder(s))
  BY <1>1, CostFacts, PairFacts, Products
<1>13. StepsLeft = p + c + 1 /\ StepsLeft' = p + a + 1
  <2>1. PairCost' = PairCost /\ InWrongOrder(s)' = InWrongOrder(s) /\ Behind(s, tmp)' = Behind(s, tmp')
    BY <1>1 DEF PairCost, InWrongOrder, Behind, Nodes
  <2>2. InWrongOrder(Chain(head))' = InWrongOrder(s) /\ Behind(Chain(head), tmp)' = Behind(s, tmp')
    BY <1>1, <1>11 DEF InWrongOrder, Behind, Nodes
  <2>3. StepsLeft = PairCost * Cardinality(InWrongOrder(s)) + Cardinality(Behind(s, tmp)) + 1
    BY <1>1, <1>11 DEF StepsLeft
  <2>4. StepsLeft' = PairCost * Cardinality(InWrongOrder(s)) + Cardinality(Behind(s, tmp')) + 1
    BY <1>1, <2>1, <2>2 DEF StepsLeft
  <2> QED
    BY <1>10, <1>12, <2>3, <2>4
<1> QED
  BY <1>10, <1>12, <1>13

(* Two neighbours that descend change places: that pair is right now, and  *)
(* every other stands as it stood.                                         *)
LEMMA ExchangeHelps ==
  ASSUME TypeOK, NEW f, NEW h, NEW s, IsListing(f, h, s),
         NEW k \in 1..Len(s), k # Len(s), n[s[k]] > n[s[k + 1]]
  PROVE  /\ InWrongOrder(Exchanged(s, k)) \subseteq InWrongOrder(s)
         /\ <<s[k], s[k + 1]>> \in InWrongOrder(s)
         /\ <<s[k], s[k + 1]>> \notin InWrongOrder(Exchanged(s, k))
<1>1. PICK m \in Nat : m = Len(s)
  BY ListingFacts
<1>2. /\ \A j \in 1..m : s[j] \in Nodes /\ n[s[j]] \in Nat
      /\ \A j, c \in 1..m : s[j] = s[c] => j = c
  <2>1. \A j \in 1..Len(s) : s[j] \in Nodes /\ n[s[j]] \in Nat
    BY ListingFacts
  <2>2. \A j, c \in 1..Len(s) : s[j] = s[c] => j = c
    BY Zenon DEF IsListing
  <2> QED
    BY <1>1, <2>1, <2>2, Zenon
<1>3. k \in 1..m /\ k \in Nat /\ k + 1 \in 1..m /\ k < k + 1
  BY <1>1
<1>4. PICK z : /\ z = Exchanged(s, k)
               /\ z = [j \in 1..m |-> IF j = k THEN s[k + 1]
                                     ELSE IF j = k + 1 THEN s[k] ELSE s[j]]
  BY <1>1 DEF Exchanged
<1>5. Len(z) = m
  BY <1>4
<1>6. PICK at : at = [j \in 1..m |-> IF j = k THEN k + 1 ELSE IF j = k + 1 THEN k ELSE j]
  OBVIOUS
<1>7. \A j \in 1..m : at[j] \in 1..m /\ z[j] = s[at[j]]
  BY <1>3, <1>4, <1>6
<1>8. ASSUME NEW j \in 1..m, NEW c \in 1..m, j < c
      PROVE  (j = k /\ c = k + 1) \/ at[j] < at[c]
  BY <1>3, <1>6, <1>8
<1>9. ASSUME NEW p \in InWrongOrder(z)
      PROVE  p \in InWrongOrder(s) /\ p # <<s[k], s[k + 1]>>
  <2>1. PICK j \in 1..m, c \in 1..m : j < c /\ z[j] = p[1] /\ z[c] = p[2]
    BY <1>5, <1>9 DEF InWrongOrder
  <2>2. p \in Nodes \X Nodes /\ n[p[2]] < n[p[1]]
    BY <1>9 DEF InWrongOrder
  <2>3. PICK u \in 1..m, v \in 1..m : u = at[j] /\ v = at[c] /\ s[u] = p[1] /\ s[v] = p[2]
    BY <1>7, <2>1
  <2>4. ~(j = k /\ c = k + 1)
    <3> SUFFICES ASSUME j = k, c = k + 1 PROVE FALSE
      OBVIOUS
    <3>1. p[1] = s[k + 1] /\ p[2] = s[k]
      BY <1>3, <1>6, <2>3
    <3>2. n[s[k]] \in Nat /\ n[s[k + 1]] \in Nat /\ n[s[k]] < n[s[k + 1]]
      BY <1>2, <1>3, <2>2, <3>1
    <3> QED
      BY <3>2
  <2>5. u < v
    BY <1>8, <2>1, <2>3, <2>4
  <2>6. p \in InWrongOrder(s)
    BY <1>1, <2>2, <2>3, <2>5 DEF InWrongOrder
  <2>7. p # <<s[k], s[k + 1]>>
    <3> SUFFICES ASSUME p[1] = s[k], p[2] = s[k + 1] PROVE FALSE
      OBVIOUS
    <3>1. u = k /\ v = k + 1
      BY <1>2, <1>3, <2>3
    <3>2. j = k + 1 /\ c = k
      BY <1>3, <1>6, <2>3, <3>1
    <3> QED
      BY <1>3, <2>1, <3>2
  <2> QED
    BY <2>6, <2>7
<1>10. <<s[k], s[k + 1]>> \in InWrongOrder(s)
  <2>1. n[s[k + 1]] < n[s[k]] /\ s[k] \in Nodes /\ s[k + 1] \in Nodes
    BY <1>2, <1>3
  <2>2. \E j, c \in 1..Len(s) : j < c /\ s[j] = s[k] /\ s[c] = s[k + 1]
    BY <1>1, <1>3
  <2> QED
    BY <2>1, <2>2 DEF InWrongOrder
<1> QED
  BY <1>4, <1>9, <1>10

LEMMA SwapRunsDown == Inv /\ Swap => StepsLeft' < StepsLeft
<1> SUFFICES ASSUME Inv, Swap PROVE StepsLeft' < StepsLeft
  OBVIOUS
<1>1. TypeOK /\ pc = "walk" /\ pc' = pc /\ n' = n
  BY DEF Inv, Swap
<1>2. PICK s, k : SwapOf(s, k)
  BY SwapSeen
<1>3. PICK z : /\ z = Exchanged(s, k)
               /\ IsListing(next, head, s) /\ IsListing(next', head', z)
               /\ next' \in [Nodes -> Nodes \cup {0}]
               /\ k \in 1..Len(s) /\ k # Len(s) /\ n[s[k]] > n[s[k + 1]]
  BY <1>2 DEF SwapOf
<1>4. Chain(head) = s
  <2>1. next \in [Nodes -> Nodes \cup {0}]
    BY <1>1 DEF TypeOK
  <2> QED
    BY <1>1, <1>3, <2>1, ListingIsChain DEF Chain
<1>5. Chain(head)' = z
  <2>1. ChainIn(next', head') = z
    BY <1>1, <1>3, ListingIsChain
  <2>2. Chain(head)' = Reached(next', head', Len(n') + 1)
    BY DEF Chain, ChainIn
  <2>3. ChainIn(next', head') = Reached(next', head', Len(n) + 1)
    BY DEF ChainIn
  <2> QED
    BY <1>1, <2>1, <2>2, <2>3
<1>6. /\ InWrongOrder(z) \subseteq InWrongOrder(s)
      /\ InWrongOrder(z) # InWrongOrder(s)
  BY <1>1, <1>3, ExchangeHelps
<1>7. PICK a \in Nat, c \in Nat :
        a = Cardinality(InWrongOrder(z)) /\ c = Cardinality(InWrongOrder(s)) /\ a < c
  <2>1. IsFiniteSet(InWrongOrder(s)) /\ Cardinality(InWrongOrder(s)) \in Nat
        /\ Cardinality(InWrongOrder(z)) \in Nat
    BY <1>1, PairFacts
  <2>2. /\ Cardinality(InWrongOrder(z)) <= Cardinality(InWrongOrder(s))
        /\ Cardinality(InWrongOrder(z)) # Cardinality(InWrongOrder(s))
    BY <1>6, <2>1, FS_Subset
  <2> QED
    BY <2>1, <2>2
<1>8. PICK u \in Nat, v \in Nat : u = Cardinality(Behind(z, tmp')) /\ v = Cardinality(Behind(s, tmp))
                                /\ u <= Len(n)
  BY <1>1, PairFacts
<1>9. PICK w \in Nat : w = PairCost /\ w = Len(n) + 2 /\ Len(n) \in Nat
  BY <1>1, CostFacts DEF PairCost
<1>10. StepsLeft = w * c + v + 1
  BY <1>1, <1>4, <1>7, <1>8, <1>9 DEF StepsLeft
<1>11. StepsLeft' = w * a + u + 1
  <2>1. PairCost' = PairCost
    BY <1>1 DEF PairCost
  <2>2. InWrongOrder(Chain(head))' = InWrongOrder(z) /\ Behind(Chain(head), tmp)' = Behind(z, tmp')
    BY <1>1, <1>5 DEF InWrongOrder, Behind, Nodes
  <2>3. StepsLeft' = PairCost * Cardinality(InWrongOrder(z)) + Cardinality(Behind(z, tmp')) + 1
    BY <1>1, <2>1, <2>2 DEF StepsLeft
  <2> QED
    BY <1>7, <1>8, <1>9, <2>3
<1>12. w * a + w <= w * c
  <2>1. PICK d \in Nat : c = a + 1 + d
    <3>1. c - (a + 1) \in Nat /\ c = a + 1 + (c - (a + 1))
      BY <1>7
    <3> QED
      BY <3>1
  <2>2. w * c = w * a + w + w * d
    BY <2>1
  <2>3. w * d \in Nat /\ w * a \in Nat
    BY Products
  <2> QED
    BY <2>2, <2>3
<1>13. w * a \in Nat /\ w * c \in Nat
  BY Products
<1>14. PICK p \in Nat, q \in Nat : p = w * a /\ q = w * c /\ p + w <= q
  BY <1>12, <1>13
<1>15. StepsLeft' = p + u + 1 /\ StepsLeft = q + v + 1
  BY <1>10, <1>11, <1>14, Zenon
<1>16. PICK l \in Nat : l = Len(n) /\ w = l + 2 /\ u <= l
  BY <1>8, <1>9
<1>17. \A p1, q1, w1, u1, v1, l1 \in Nat :
         p1 + w1 <= q1 /\ w1 = l1 + 2 /\ u1 <= l1 => p1 + u1 + 1 < q1 + v1 + 1
  OBVIOUS
<1> QED
  BY <1>14, <1>15, <1>16, <1>17, Zenon

LEMMA NothingSwappedRunsDown == Inv /\ NothingSwapped => StepsLeft' < StepsLeft
<1> SUFFICES ASSUME Inv, NothingSwapped PROVE StepsLeft' < StepsLeft
  OBVIOUS
<1>1. TypeOK /\ pc = "walk" /\ pc' = "done" /\ n' = n
  BY DEF Inv, NothingSwapped
<1>2. PICK p \in Nat : p = PairCost * Cardinality(InWrongOrder(Chain(head)))
  BY <1>1, CostFacts, PairFacts, Products
<1>3. PICK c \in Nat : c = Cardinality(Behind(Chain(head), tmp))
  BY <1>1, PairFacts
<1>4. StepsLeft = p + c + 1
  BY <1>1, <1>2, <1>3 DEF StepsLeft
<1>5. StepsLeft' = 0
  <2>1. NodeCost' = NodeCost /\ NodeCost \in Nat
    BY <1>1, CostFacts DEF NodeCost, SlotCost
  <2>2. NodesLeft' = 0 /\ SlotsLeft' = 0
    BY <1>1 DEF NodesLeft, SlotsLeft
  <2> QED
    BY <1>1, <2>1, <2>2 DEF StepsLeft
<1> QED
  BY <1>4, <1>5

LEMMA StepsLeftIsNatural == Inv => StepsLeft \in Nat
<1> SUFFICES ASSUME Inv PROVE StepsLeft \in Nat
  OBVIOUS
<1>1. CASE pc # "walk"
  <2>1. NodeCost * NodesLeft \in Nat /\ SlotsLeft \in Nat
    BY <1>1, LeftFacts
  <2> QED
    BY <1>1, <2>1 DEF StepsLeft
<1>2. CASE pc = "walk"
  <2>1. /\ PairCost * Cardinality(InWrongOrder(Chain(head))) \in Nat
        /\ Cardinality(Behind(Chain(head), tmp)) \in Nat
    BY CostFacts, PairFacts, Products DEF Inv
  <2> QED
    BY <1>2, <2>1 DEF StepsLeft
<1> QED
  BY <1>1, <1>2

(* The rest of SortsEndStable but for the fairness: every step of either   *)
(* sort lowers a number that is never below 0, so that a sort of so many   *)
(* nodes takes no more steps than StepsLeft says at its start, whatever    *)
(* their order.  SortTree begins again at the head after every swap, but   *)
(* with one pair less in the wrong order.                                  *)
THEOREM SortsRunDown == Spec => [](StepsLeft \in Nat) /\ [][StepsLeft' < StepsLeft]_vars
<1>1. Inv => StepsLeft \in Nat
  BY StepsLeftIsNatural
<1>2. Inv /\ [Next]_vars => [StepsLeft' < StepsLeft]_vars
  <2> SUFFICES ASSUME Inv, Next, ~UNCHANGED vars PROVE StepsLeft' < StepsLeft
    OBVIOUS
  <2>1. CASE TakeNode
    BY <2>1, TakeNodeRunsDown
  <2>2. CASE Carry
    BY <2>2, MergeListsRunsDown DEF Carry
  <2>3. CASE Store \/ Gathered
    BY <2>3, CarriedRunsDown
  <2>4. CASE AllTaken
    BY <2>4, AllTakenRunsDown
  <2>5. CASE Gather
    BY <2>5, MergeListsRunsDown DEF Gather
  <2>6. CASE MergeStep
    BY <2>6, MergeStepRunsDown
  <2>7. CASE MergeReturns
    BY <2>7, MergeReturnsRunsDown
  <2>8. CASE Walk
    BY <2>8, WalkRunsDown
  <2>9. CASE Swap
    BY <2>9, SwapRunsDown
  <2>10. CASE NothingSwapped
    BY <2>10, NothingSwappedRunsDown
  <2> QED
    BY <2>1, <2>2, <2>3, <2>4, <2>5, <2>6, <2>7, <2>8, <2>9, <2>10 DEF Next, Sorted
<1> QED
  BY <1>1, <1>2, Invariant, PTL DEF Spec

-----------------------------------------------------------------------------
(* The recursive sorts *)

\* f is what the recursion says on all of D below size k.
Obeys(f, D, size, k, ends, base, step, left, right) ==
  \A d \in D : size[d] < k =>
    f[d] = IF d \in ends THEN base[d] ELSE step[d][f[left[d]]][f[right[d]]]

Recurs(f, D, ends, base, step, left, right) ==
  \A d \in D : f[d] = IF d \in ends THEN base[d] ELSE step[d][f[left[d]]][f[right[d]]]

(* A recursion that goes to smaller data twice defines a function.         *)
LEMMA Recursion ==
  ASSUME NEW D, NEW V, NEW size \in [D -> Nat], NEW ends, NEW base \in [D -> V],
         NEW step \in [D -> [V -> [V -> V]]], NEW left \in [D -> D], NEW right \in [D -> D],
         \A d \in D : d \notin ends => size[left[d]] < size[d] /\ size[right[d]] < size[d]
  PROVE  \E f \in [D -> V] : Recurs(f, D, ends, base, step, left, right)
<1> DEFINE Good(f, k) == Obeys(f, D, size, k, ends, base, step, left, right)
           Turn(f, d) == IF d \in ends THEN base[d] ELSE step[d][f[left[d]]][f[right[d]]]
<1>1. ASSUME NEW f, NEW k, NEW d \in D, Good(f, k), size[d] < k
      PROVE  f[d] = Turn(f, d)
  BY <1>1 DEF Obeys
<1>2. ASSUME NEW f, NEW k, \A d \in D : size[d] < k => f[d] = Turn(f, d)
      PROVE  Good(f, k)
  BY <1>2 DEF Obeys
<1>3. ASSUME NEW f \in [D -> V], NEW d \in D
      PROVE  Turn(f, d) \in V
  OBVIOUS
<1>4. ASSUME NEW f, NEW g, NEW d \in D,
             d \notin ends => f[left[d]] = g[left[d]] /\ f[right[d]] = g[right[d]]
      PROVE  Turn(f, d) = Turn(g, d)
  BY <1>4
<1> HIDE DEF Good, Turn
<1> DEFINE T == {k \in Nat : ~\E f \in [D -> V] : Good(f, k)}
<1>5. T = {}
  <2> SUFFICES ASSUME T # {} PROVE FALSE
    OBVIOUS
  <2>1. PICK m \in T : \A k \in T : m <= k
    BY Least
  <2>2. m \in Nat /\ ~\E f \in [D -> V] : Good(f, m)
    OBVIOUS
  <2>3. m # 0
    <3> SUFFICES ASSUME m = 0 PROVE FALSE
      OBVIOUS
    <3>1. \A d \in D : ~(size[d] < m)
      <4>1. \A d \in D : size[d] \in Nat
        OBVIOUS
      <4> QED
        BY <4>1
    <3>2. Good(base, m)
      BY <1>2, <3>1
    <3> QED
      BY <2>2, <3>2
  <2>4. PICK k \in Nat : m = k + 1
    <3>1. m - 1 \in Nat /\ m = (m - 1) + 1
      BY <2>2, <2>3
    <3> QED
      BY <3>1
  <2>5. k \notin T
    <3>1. ~(m <= k)
      BY <2>4
    <3> QED
      BY <2>1, <3>1
  <2>6. PICK f \in [D -> V] : Good(f, k)
    BY <2>5
  <2>7. PICK g : g = [d \in D |-> IF size[d] = k THEN Turn(f, d) ELSE f[d]]
    OBVIOUS
  <2>8. g \in [D -> V]
    BY <1>3, <2>7
  <2>9. ASSUME NEW d \in D, size[d] < m
        PROVE  g[d] = Turn(g, d)
    <3>1. \A e \in D : size[e] < size[d] => g[e] = f[e]
      <4> SUFFICES ASSUME NEW e \in D, size[e] < size[d] PROVE size[e] # k
        BY <2>7
      <4>1. size[e] \in Nat /\ size[d] \in Nat
        OBVIOUS
      <4> QED
        BY <2>4, <2>9, <4>1
    <3>2. d \notin ends => g[left[d]] = f[left[d]] /\ g[right[d]] = f[right[d]]
      BY <3>1
    <3>3. Turn(g, d) = Turn(f, d)
      BY <1>4, <3>2
    <3>4. CASE size[d] = k
      BY <2>7, <3>3, <3>4
    <3>5. CASE size[d] # k
      <4>1. PICK z \in Nat : z = size[d]
        OBVIOUS
      <4>2. z < k + 1 /\ z # k
        BY <2>4, <2>9, <3>5, <4>1
      <4>3. z < k
        <5>1. \A x, y \in Nat : x < y + 1 /\ x # y => x < y
          OBVIOUS
        <5> QED
          BY <2>4, <4>1, <4>2, <5>1
      <4>4. size[d] < k
        BY <4>1, <4>3
      <4> QED
        BY <1>1, <2>6, <2>7, <3>3, <3>5, <4>4
    <3> QED
      BY <3>4, <3>5
  <2>10. Good(g, m)
    BY <1>2, <2>9
  <2> QED
    BY <2>2, <2>8, <2>10
<1>6. \A k \in Nat : \E f \in [D -> V] : Good(f, k)
  BY <1>5
<1>7. ASSUME NEW f, NEW g, NEW j \in Nat, NEW k \in Nat, Good(f, j), Good(g, k),
             NEW d \in D, size[d] < j, size[d] < k
      PROVE  f[d] = g[d]
  <2> DEFINE U == {size[e] : e \in {e \in D : size[e] < j /\ size[e] < k /\ f[e] # g[e]}}
  <2>1. U \in SUBSET Nat
    OBVIOUS
  <2> SUFFICES ASSUME U # {} PROVE FALSE
    BY <1>7
  <2>2. PICK m \in U : \A z \in U : m <= z
    BY <2>1, Least
  <2>3. PICK e \in D : m = size[e] /\ size[e] < j /\ size[e] < k /\ f[e] # g[e]
    OBVIOUS
  <2>4. ASSUME NEW c \in D, size[c] < size[e]
        PROVE  f[c] = g[c]
    <3>1. size[c] \in Nat /\ size[e] \in Nat
      OBVIOUS
    <3>2. size[c] < j /\ size[c] < k
      BY <2>3, <2>4, <3>1
    <3>3. ~(size[e] <= size[c])
      BY <2>4, <3>1
    <3> QED
      BY <2>2, <2>3, <3>2, <3>3
  <2>5. e \notin ends => f[left[e]] = g[left[e]] /\ f[right[e]] = g[right[e]]
    BY <2>4
  <2>6. Turn(f, e) = Turn(g, e)
    BY <1>4, <2>5
  <2> QED
    BY <1>1, <1>7, <2>3, <2>6
<1>8. PICK F : F = [k \in Nat |-> CHOOSE f \in [D -> V] : Good(f, k)]
  OBVIOUS
<1>9. \A k \in Nat : F[k] \in [D -> V] /\ Good(F[k], k)
  BY <1>6, <1>8
<1>10. PICK f : f = [d \in D |-> F[size[d] + 1][d]]
  OBVIOUS
<1>11. \A d \in D : size[d] \in Nat /\ size[d] + 1 \in Nat /\ size[d] < size[d] + 1
  <2>1. \A d \in D : size[d] \in Nat
    OBVIOUS
  <2> QED
    BY <2>1
<1>12. f \in [D -> V]
  BY <1>9, <1>10, <1>11
<1>13. ASSUME NEW d \in D
       PROVE  f[d] = Turn(f, d)
  <2>1. PICK k \in Nat : k = size[d] + 1 /\ size[d] < k
    BY <1>11
  <2>2. f[d] = F[k][d] /\ Good(F[k], k)
    BY <1>9, <1>10, <2>1
  <2>3. f[d] = Turn(F[k], d)
    BY <1>1, <2>1, <2>2
  <2>4. ASSUME NEW e \in D, size[e] < size[d]
        PROVE  f[e] = F[k][e]
    <3>1. size[e] + 1 \in Nat /\ size[e] < size[e] + 1
      BY <1>11
    <3>2. size[e] < k
      BY <1>11, <2>1, <2>4
    <3>3. f[e] = F[size[e] + 1][e] /\ Good(F[size[e] + 1], size[e] + 1)
      BY <1>9, <1>10, <3>1
    <3> QED
      BY <1>7, <2>2, <3>1, <3>2, <3>3
  <2>5. d \notin ends => f[left[d]] = F[k][left[d]] /\ f[right[d]] = F[k][right[d]]
    BY <2>4
  <2> QED
    BY <1>4, <2>3, <2>5
<1> QED
  BY <1>12, <1>13 DEF Turn, Recurs

(* SortedMerge, as its definition says.                                    *)
LEMMA SortedMergeIs ==
  ASSUME NEW program
  PROVE  \A a, b \in Seq(Nodes) :
           /\ SortedMerge(program, a, b) \in Seq(Nodes)
           /\ a = <<>> => SortedMerge(program, a, b) = b
           /\ a # <<>> /\ b = <<>> => SortedMerge(program, a, b) = a
           /\ a # <<>> /\ b # <<>> =>
                SortedMerge(program, a, b) =
                  IF FrontFirst(program, a[1], b[1])
                  THEN <<a[1]>> \o SortedMerge(program, Tail(a), b)
                  ELSE <<b[1]>> \o SortedMerge(program, a, Tail(b))
<1> DEFINE V == Seq(Nodes)
           D == V \X V
           FromFront(p) == FrontFirst(program, p[1][1], p[2][1])
           Body(h, p) == LET x == p[1]
                             y == p[2]
                         IN  IF x = <<>> THEN y
                             ELSE IF y = <<>> THEN x
                             ELSE IF FrontFirst(program, x[1], y[1])
                                  THEN <<x[1]>> \o h[<<Tail(x), y>>]
                             ELSE <<y[1]>> \o h[<<x, Tail(y)>>]
<1>1. PICK ends : ends = {p \in D : p[1] = <<>> \/ p[2] = <<>>}
  OBVIOUS
<1>2. PICK size : size = [p \in D |-> Len(p[1]) + Len(p[2])]
  OBVIOUS
<1>3. PICK base : base = [p \in D |-> IF p[1] = <<>> THEN p[2] ELSE p[1]]
  OBVIOUS
<1>4. PICK first : first = [p \in D |-> IF FromFront(p) THEN p[1][1] ELSE p[2][1]]
  OBVIOUS
<1>5. PICK rest : rest = [p \in D |-> IF p \in ends THEN p
                                      ELSE IF FromFront(p) THEN <<Tail(p[1]), p[2]>>
                                      ELSE <<p[1], Tail(p[2])>>]
  OBVIOUS
<1>6. PICK step : step = [p \in D |-> [u \in V |-> [v \in V |->
                            IF p \in ends THEN u ELSE <<first[p]>> \o u]]]
  OBVIOUS
<1>7. \A a \in V : /\ Len(a) \in Nat
                   /\ a # <<>> => /\ a[1] \in Nodes /\ Tail(a) \in V
                                  /\ Len(Tail(a)) < Len(a)
  <2> TAKE a \in V
  <2>1. Len(a) \in Nat
    BY LenProperties
  <2>2. ASSUME a # <<>> PROVE a[1] \in Nodes /\ Tail(a) \in V /\ Len(Tail(a)) < Len(a)
    <3>1. Len(a) # 0 /\ 1 \in 1..Len(a)
      BY <2>1, <2>2, EmptySeq, LenProperties
    <3>2. Tail(a) \in V /\ Len(Tail(a)) = Len(a) - 1
      BY <2>2, HeadTailProperties
    <3>3. a[1] \in Nodes
      BY <3>1, ElementOfSeq
    <3> QED
      BY <2>1, <3>2, <3>3
  <2> QED
    BY <2>1, <2>2
<1>8. \A p \in D : /\ p[1] \in V /\ p[2] \in V /\ p = <<p[1], p[2]>>
                   /\ p \notin ends => p[1] # <<>> /\ p[2] # <<>>
  BY <1>1
<1>9. \A a, b \in V : <<a, b>> \in D
  OBVIOUS
<1>10. \A x \in Nodes, u \in V : <<x>> \o u \in V
  OBVIOUS
<1> HIDE DEF V, D, FromFront
<1>11. size \in [D -> Nat]
  <2>1. \A y, z \in Nat : y + z \in Nat
    OBVIOUS
  <2> QED
    BY <1>2, <1>7, <1>8, <2>1
<1>12. base \in [D -> V]
  BY <1>3, <1>8
<1>13. rest \in [D -> D]
  BY <1>5, <1>7, <1>8, <1>9
<1>14. step \in [D -> [V -> [V -> V]]]
  <2>1. \A p \in D : p \notin ends => first[p] \in Nodes
    BY <1>4, <1>7, <1>8
  <2>2. \A p \in D, u \in V : (IF p \in ends THEN u ELSE <<first[p]>> \o u) \in V
    BY <1>10, <2>1
  <2> QED
    BY <1>6, <2>2
<1>15. \A p \in D : p \notin ends => size[rest[p]] < size[p]
  <2> SUFFICES ASSUME NEW p \in D, p \notin ends PROVE size[rest[p]] < size[p]
    OBVIOUS
  <2>1. rest[p] \in D /\ size[rest[p]] = Len(rest[p][1]) + Len(rest[p][2])
    BY <1>2, <1>13
  <2>2. PICK y \in Nat, z \in Nat : y = Len(p[1]) /\ z = Len(p[2])
    BY <1>7, <1>8
  <2>3. PICK c \in Nat, d \in Nat : c = Len(rest[p][1]) /\ d = Len(rest[p][2])
    BY <1>7, <1>8, <2>1
  <2>4. (c < y /\ d = z) \/ (c = y /\ d < z)
    BY <1>5, <1>7, <1>8, <2>2, <2>3
  <2>5. c + d < y + z
    BY <2>4
  <2> QED
    BY <1>2, <2>1, <2>2, <2>3, <2>5
<1>16. PICK f \in [D -> V] : \A p \in D : f[p] = IF p \in ends THEN base[p]
                                                  ELSE step[p][f[rest[p]]][f[rest[p]]]
  <2>1. \E f \in [D -> V] : Recurs(f, D, ends, base, step, rest, rest)
    BY <1>11, <1>12, <1>13, <1>14, <1>15, Recursion
  <2> QED
    BY <2>1 DEF Recurs
<1>17. \A p \in D : f[p] = Body(f, p)
  <2> SUFFICES ASSUME NEW p \in D PROVE f[p] = Body(f, p)
    OBVIOUS
  <2>1. CASE p \in ends
    <3>1. f[p] = IF p[1] = <<>> THEN p[2] ELSE p[1]
      BY <1>3, <1>16, <2>1
    <3>2. p[1] = <<>> \/ p[2] = <<>>
      BY <1>1, <2>1
    <3> QED
      BY <3>1, <3>2
  <2>2. CASE p \notin ends
    <3>1. f[p] = <<first[p]>> \o f[rest[p]]
      BY <1>6, <1>13, <1>16, <2>2
    <3>2. CASE FromFront(p)
      <4>1. first[p] = p[1][1] /\ rest[p] = <<Tail(p[1]), p[2]>>
        BY <1>4, <1>5, <2>2, <3>2
      <4> QED
        BY <1>8, <2>2, <3>1, <3>2, <4>1 DEF FromFront
    <3>3. CASE ~FromFront(p)
      <4>1. first[p] = p[2][1] /\ rest[p] = <<p[1], Tail(p[2])>>
        BY <1>4, <1>5, <2>2, <3>3
      <4> QED
        BY <1>8, <2>2, <3>1, <3>3, <4>1 DEF FromFront
    <3> QED
      BY <3>2, <3>3
  <2> QED
    BY <2>1, <2>2
<1> HIDE DEF Body
<1>18. f = [p \in D |-> Body(f, p)]
  BY <1>16, <1>17
<1>19. PICK g : g = CHOOSE h : h = [p \in D |-> Body(h, p)]
  OBVIOUS
<1>20. g = [p \in D |-> Body(g, p)]
  BY <1>18, <1>19
<1>21. \A a, b : SortedMerge(program, a, b) = g[<<a, b>>]
  BY <1>19 DEF SortedMerge, Body, D, V
<1>22. \A a, b \in V : g[<<a, b>>] = Body(g, <<a, b>>)
  BY <1>9, <1>20
<1>23. \A a, b \in V :
         /\ a = <<>> => g[<<a, b>>] = b
         /\ a # <<>> /\ b = <<>> => g[<<a, b>>] = a
         /\ a # <<>> /\ b # <<>> =>
              g[<<a, b>>] = IF FrontFirst(program, a[1], b[1])
                            THEN <<a[1]>> \o g[<<Tail(a), b>>]
                            ELSE <<b[1]>> \o g[<<a, Tail(b)>>]
  <2> SUFFICES ASSUME NEW a \in V, NEW b \in V
               PROVE  /\ a = <<>> => g[<<a, b>>] = b
                      /\ a # <<>> /\ b = <<>> => g[<<a, b>>] = a
                      /\ a # <<>> /\ b # <<>> =>
                           g[<<a, b>>] = IF FrontFirst(program, a[1], b[1])
                                         THEN <<a[1]>> \o g[<<Tail(a), b>>]
                                         ELSE <<b[1]>> \o g[<<a, Tail(b)>>]
    OBVIOUS
  <2>1. Body(g, <<a, b>>) =
          IF a = <<>> THEN b
          ELSE IF b = <<>> THEN a
          ELSE IF FrontFirst(program, a[1], b[1]) THEN <<a[1]>> \o g[<<Tail(a), b>>]
          ELSE <<b[1]>> \o g[<<a, Tail(b)>>]
    BY DEF Body
  <2> QED
    BY <1>22, <2>1
<1>24. \A a, b \in V : SortedMerge(program, a, b) \in V
  <2> DEFINE T == {size[p] : p \in {p \in D : g[p] \notin V}}
  <2>1. T \in SUBSET Nat
    BY <1>11
  <2>2. T = {}
    <3> SUFFICES ASSUME T # {} PROVE FALSE
      OBVIOUS
    <3>1. PICK m \in T : \A z \in T : m <= z
      BY <2>1, Least
    <3>2. PICK p \in D : m = size[p] /\ g[p] \notin V
      OBVIOUS
    <3>3. PICK a \in V, b \in V : p = <<a, b>>
      BY <1>8
    <3>4. a # <<>> /\ b # <<>> /\ p \notin ends
      <4>1. a # <<>> /\ b # <<>>
        BY <1>23, <3>2, <3>3
      <4> QED
        BY <1>1, <3>3, <4>1
    <3>5. g[rest[p]] \in V
      <4>1. rest[p] \in D /\ size[rest[p]] < size[p]
        BY <1>13, <1>15, <3>4
      <4>2. size[rest[p]] \in Nat /\ size[p] \in Nat
        BY <1>11, <4>1
      <4>3. ~(size[p] <= size[rest[p]])
        BY <4>1, <4>2
      <4> QED
        BY <3>1, <3>2, <4>1, <4>3
    <3>6. rest[p] = IF FrontFirst(program, a[1], b[1]) THEN <<Tail(a), b>> ELSE <<a, Tail(b)>>
      BY <1>5, <3>3, <3>4 DEF FromFront
    <3>7. g[p] = IF FrontFirst(program, a[1], b[1]) THEN <<a[1]>> \o g[rest[p]]
                                                    ELSE <<b[1]>> \o g[rest[p]]
      BY <1>23, <3>3, <3>4, <3>6
    <3>8. \A x \in Nodes : <<x>> \o g[rest[p]] \in V
      BY <1>10, <3>5
    <3>9. a[1] \in Nodes /\ b[1] \in Nodes
      BY <1>7, <3>4
    <3> QED
      BY <3>2, <3>7, <3>8, <3>9, Zenon
  <2>3. \A p \in D : g[p] \in V
    BY <2>2, Zenon
  <2> HIDE DEF T
  <2> QED
    BY <1>9, <1>21, <2>3
<1>25. \A a, b \in V :
         /\ a = <<>> => SortedMerge(program, a, b) = b
         /\ a # <<>> /\ b = <<>> => SortedMerge(program, a, b) = a
         /\ a # <<>> /\ b # <<>> =>
              SortedMerge(program, a, b) =
                IF FrontFirst(program, a[1], b[1])
                THEN <<a[1]>> \o SortedMerge(program, Tail(a), b)
                ELSE <<b[1]>> \o SortedMerge(program, a, Tail(b))
  <2> SUFFICES ASSUME NEW a \in V, NEW b \in V
               PROVE  /\ a = <<>> => SortedMerge(program, a, b) = b
                      /\ a # <<>> /\ b = <<>> => SortedMerge(program, a, b) = a
                      /\ a # <<>> /\ b # <<>> =>
                           SortedMerge(program, a, b) =
                             IF FrontFirst(program, a[1], b[1])
                             THEN <<a[1]>> \o SortedMerge(program, Tail(a), b)
                             ELSE <<b[1]>> \o SortedMerge(program, a, Tail(b))
    OBVIOUS
  <2>1. /\ SortedMerge(program, a, b) = g[<<a, b>>]
        /\ SortedMerge(program, Tail(a), b) = g[<<Tail(a), b>>]
        /\ SortedMerge(program, a, Tail(b)) = g[<<a, Tail(b)>>]
    BY <1>21
  <2> QED
    BY <1>23, <2>1
<1> QED
  BY <1>24, <1>25 DEF V

(* A list merged with nothing is that list.                                *)
LEMMA SortedMergeEnds ==
  ASSUME NEW program, NEW list \in Seq(Nodes)
  PROVE  SortedMerge(program, <<>>, list) = list /\ SortedMerge(program, list, <<>>) = list
<1>1. <<>> \in Seq(Nodes)
  OBVIOUS
<1>2. PICK none : none = <<>>
  OBVIOUS
<1>3. SortedMerge(program, none, list) = list
  BY <1>1, <1>2, SortedMergeIs
<1>4. CASE list = none
  BY <1>2, <1>3, <1>4
<1>5. CASE list # none
  <2>1. SortedMerge(program, list, none) = list
    BY <1>1, <1>2, <1>5, SortedMergeIs
  <2> QED
    BY <1>2, <1>3, <2>1
<1> QED
  BY <1>4, <1>5

\* The two halves of s.
FrontOf(s) == SubSeq(s, 1, FrontHalf(s))
BackOf(s) == SubSeq(s, FrontHalf(s) + 1, Len(s))

(* FrontBackSplit cuts a list of two or more in two that are shorter.      *)
LEMMA Halves ==
  ASSUME NEW s \in Seq(Nodes), Len(s) >= 2
  PROVE  /\ FrontOf(s) \in Seq(Nodes) /\ Len(FrontOf(s)) < Len(s)
         /\ BackOf(s) \in Seq(Nodes) /\ Len(BackOf(s)) < Len(s)
         /\ Len(s) = Len(FrontOf(s)) + Len(BackOf(s))
         /\ \A k \in 1..Len(FrontOf(s)) : k \in 1..Len(s) /\ FrontOf(s)[k] = s[k]
         /\ \A k \in 1..Len(BackOf(s)) : /\ Len(FrontOf(s)) + k \in 1..Len(s)
                                         /\ BackOf(s)[k] = s[Len(FrontOf(s)) + k]
<1>1. PICK last \in Nat : last = Len(s) /\ last >= 2
  BY LenProperties
<1>2. PICK half \in Nat : half = FrontHalf(s) /\ 1 <= half /\ half < last
  <2>1. /\ (last + 1) \div 2 \in Nat
        /\ 1 <= (last + 1) \div 2 /\ (last + 1) \div 2 < last
    BY <1>1
  <2> QED
    BY <1>1, <2>1 DEF FrontHalf
<1>3. PICK front : front = FrontOf(s)
  OBVIOUS
<1>4. PICK back : back = BackOf(s)
  OBVIOUS
<1>5. front = SubSeq(s, 1, half) /\ back = SubSeq(s, half + 1, last)
  BY <1>1, <1>2, <1>3, <1>4 DEF FrontOf, BackOf
<1>6. /\ front \in Seq(Nodes) /\ Len(front) = half
      /\ \A k \in 1..half : k \in 1..last /\ front[k] = s[k]
  <2>1. \A k \in 1..half : s[k] \in Nodes /\ k \in 1..last
    BY <1>1, <1>2, ElementOfSeq
  <2>2. /\ SubSeq(s, 1, half) \in Seq(Nodes)
        /\ Len(SubSeq(s, 1, half)) = IF 1 <= half THEN half - 1 + 1 ELSE 0
        /\ \A k \in 1..(half - 1 + 1) : SubSeq(s, 1, half)[k] = s[1 + k - 1]
    BY <1>1, <1>2, <2>1, SubSeqProperties
  <2>3. half - 1 + 1 = half /\ \A k \in 1..half : 1 + k - 1 = k
    BY <1>2
  <2> QED
    BY <1>2, <1>5, <2>1, <2>2, <2>3
<1>7. /\ back \in Seq(Nodes) /\ Len(back) = last - half
      /\ \A k \in 1..(last - half) : half + k \in 1..last /\ back[k] = s[half + k]
  <2>1. /\ SubSeq(s, half + 1, last) \in Seq(Nodes)
        /\ Len(SubSeq(s, half + 1, last)) =
             IF half + 1 <= last THEN last - (half + 1) + 1 ELSE 0
        /\ \A k \in 1..(last - (half + 1) + 1) :
             SubSeq(s, half + 1, last)[k] = s[half + 1 + k - 1]
    BY <1>1, <1>2, SubSeqProperties
  <2>2. /\ half + 1 <= last /\ last - (half + 1) + 1 = last - half
        /\ \A k \in 1..(last - half) : half + 1 + k - 1 = half + k /\ half + k \in 1..last
    BY <1>1, <1>2
  <2> QED
    BY <1>5, <2>1, <2>2
<1>8. half + (last - half) = last /\ last - half < last
  BY <1>1, <1>2
<1> QED
  BY <1>1, <1>2, <1>3, <1>4, <1>6, <1>7, <1>8

(* MergeSort, as its definition says.                                      *)
LEMMA MergeSortIs ==
  ASSUME NEW program
  PROVE  \A s \in Seq(Nodes) :
           /\ MergeSort(program, s) \in Seq(Nodes)
           /\ Len(s) < 2 => MergeSort(program, s) = s
           /\ Len(s) >= 2 =>
                MergeSort(program, s) =
                  SortedMerge(program, MergeSort(program, FrontOf(s)),
                                       MergeSort(program, BackOf(s)))
<1> DEFINE D == Seq(Nodes)
           Merge(u, v) == SortedMerge(program, u, v)
           Body(h, s) == IF Len(s) < 2 THEN s
                         ELSE SortedMerge(program, h[SubSeq(s, 1, FrontHalf(s))],
                                                   h[SubSeq(s, FrontHalf(s) + 1, Len(s))])
<1>1. PICK ends : ends = {s \in D : Len(s) < 2}
  OBVIOUS
<1>2. PICK size : size = [s \in D |-> Len(s)]
  OBVIOUS
<1>3. PICK base : base = [s \in D |-> s]
  OBVIOUS
<1>4. PICK left : left = [s \in D |-> IF s \in ends THEN s ELSE FrontOf(s)]
  OBVIOUS
<1>5. PICK right : right = [s \in D |-> IF s \in ends THEN s ELSE BackOf(s)]
  OBVIOUS
<1>6. PICK step : step = [s \in D |-> [u \in D |-> [v \in D |-> Merge(u, v)]]]
  OBVIOUS
<1>7. \A s \in D : Len(s) \in Nat
  BY LenProperties
<1>8. ASSUME NEW s \in D, s \notin ends
      PROVE  /\ Len(s) >= 2
             /\ FrontOf(s) \in D /\ Len(FrontOf(s)) < Len(s)
             /\ BackOf(s) \in D /\ Len(BackOf(s)) < Len(s)
  <2>1. Len(s) >= 2
    BY <1>1, <1>7, <1>8
  <2> QED
    BY <2>1, Halves
<1>9. \A u, v \in D : Merge(u, v) \in D
  BY SortedMergeIs
<1> HIDE DEF D, Merge
<1>10. size \in [D -> Nat] /\ base \in [D -> D]
  BY <1>2, <1>3, <1>7
<1>11. left \in [D -> D] /\ right \in [D -> D]
  BY <1>4, <1>5, <1>8
<1>12. step \in [D -> [D -> [D -> D]]]
  BY <1>6, <1>9
<1>13. \A s \in D : s \notin ends => size[left[s]] < size[s] /\ size[right[s]] < size[s]
  BY <1>2, <1>4, <1>5, <1>8
<1>14. PICK f \in [D -> D] : Recurs(f, D, ends, base, step, left, right)
  BY <1>10, <1>11, <1>12, <1>13, Recursion
<1>15. \A s \in D : f[s] = Body(f, s)
  <2> SUFFICES ASSUME NEW s \in D PROVE f[s] = Body(f, s)
    OBVIOUS
  <2>1. CASE s \in ends
    BY <1>1, <1>3, <1>14, <2>1 DEF Recurs
  <2>2. CASE s \notin ends
    <3>1. left[s] = FrontOf(s) /\ right[s] = BackOf(s) /\ ~(Len(s) < 2)
      BY <1>1, <1>4, <1>5, <2>2
    <3>2. f[s] = step[s][f[FrontOf(s)]][f[BackOf(s)]]
      BY <1>14, <2>2, <3>1 DEF Recurs
    <3>3. f[s] = Merge(f[FrontOf(s)], f[BackOf(s)])
      BY <1>6, <1>8, <1>14, <2>2, <3>2
    <3> QED
      BY <3>1, <3>3 DEF Merge, FrontOf, BackOf
  <2> QED
    BY <2>1, <2>2
<1> HIDE DEF Body
<1>16. f = [s \in D |-> Body(f, s)]
  BY <1>14, <1>15
<1>17. PICK g : g = CHOOSE h : h = [s \in D |-> Body(h, s)]
  OBVIOUS
<1>18. g = [s \in D |-> Body(g, s)]
  BY <1>16, <1>17
<1>19. \A s : MergeSort(program, s) = g[s]
  BY <1>17 DEF MergeSort, Body, D
<1>20. ASSUME NEW s \in D
       PROVE  /\ Len(s) < 2 => g[s] = s
              /\ ~(Len(s) < 2) => g[s] = Merge(g[FrontOf(s)], g[BackOf(s)])
  <2>1. g[s] = Body(g, s)
    BY <1>18
  <2> QED
    BY <2>1 DEF Body, Merge, FrontOf, BackOf
<1>21. \A s \in D : g[s] \in D
  <2> DEFINE T == {Len(s) : s \in {s \in D : g[s] \notin D}}
  <2>1. T \in SUBSET Nat
    BY <1>7
  <2> SUFFICES ASSUME T # {} PROVE FALSE
    OBVIOUS
  <2>2. PICK m \in T : \A z \in T : m <= z
    BY <2>1, Least
  <2>3. PICK s \in D : m = Len(s) /\ g[s] \notin D
    OBVIOUS
  <2>4. \A r \in D : Len(r) < Len(s) => g[r] \in D
    <3> SUFFICES ASSUME NEW r \in D, Len(r) < Len(s), g[r] \notin D PROVE FALSE
      OBVIOUS
    <3>1. Len(s) <= Len(r)
      BY <2>2, <2>3
    <3> QED
      BY <1>7, <3>1
  <2>5. s \notin ends
    BY <1>1, <1>20, <2>3
  <2>6. g[FrontOf(s)] \in D /\ g[BackOf(s)] \in D
    BY <1>8, <2>4, <2>5
  <2> QED
    BY <1>1, <1>9, <1>20, <2>3, <2>5, <2>6
<1>22. ASSUME NEW s \in D
       PROVE  /\ MergeSort(program, s) \in D
              /\ Len(s) < 2 => MergeSort(program, s) = s
              /\ Len(s) >= 2 =>
                   MergeSort(program, s) =
                     SortedMerge(program, MergeSort(program, FrontOf(s)),
                                          MergeSort(program, BackOf(s)))
  <2>1. Len(s) >= 2 => ~(Len(s) < 2)
    BY <1>7
  <2>2. g[s] = MergeSort(program, s) /\ g[FrontOf(s)] = MergeSort(program, FrontOf(s))
        /\ g[BackOf(s)] = MergeSort(program, BackOf(s))
    BY <1>19
  <2> QED
    BY <1>20, <1>21, <2>1, <2>2 DEF Merge
<1> QED
  BY <1>22 DEF D

\* The nodes of s come in the order a stable sort gives them; in the order
\* of the list to be sorted.
Ascending(s) == s \in Seq(Nodes) /\ \A j, k \in 1..Len(s) : j < k => Before(s[j], s[k])
InListOrder(s) == s \in Seq(Nodes) /\ \A j, k \in 1..Len(s) : j < k => s[j] < s[k]

(* A list begins with its first node.                                      *)
LEMMA Prefixed ==
  ASSUME NEW x \in Nodes, NEW s \in Seq(Nodes)
  PROVE  /\ <<x>> \o s \in Seq(Nodes)
         /\ Len(<<x>> \o s) = Len(s) + 1
         /\ Elements(<<x>> \o s) = {x} \cup Elements(s)
         /\ Ascending(<<x>> \o s) <=> Ascending(s) /\ \A y \in Elements(s) : Before(x, y)
<1>1. PICK t : t = <<x>> \o s
  OBVIOUS
<1>2. PICK last \in Nat : last = Len(s)
  BY LenProperties
<1>3. /\ t \in Seq(Nodes) /\ Len(t) = last + 1
      /\ \A k \in 1..(last + 1) : t[k] = IF k <= 1 THEN <<x>>[k] ELSE s[k - 1]
  <2>1. <<x>> \in Seq(Nodes) /\ Len(<<x>>) = 1
    OBVIOUS
  <2>2. /\ t \in Seq(Nodes) /\ Len(t) = 1 + last
        /\ \A k \in 1..(1 + last) : t[k] = IF k <= 1 THEN <<x>>[k] ELSE s[k - 1]
    BY <1>1, <1>2, <2>1, ConcatProperties
  <2>3. 1 + last = last + 1
    OBVIOUS
  <2> QED
    BY <2>2, <2>3
<1>4. t[1] = x /\ 1 \in 1..(last + 1)
  BY <1>3
<1>5. \A k \in 1..last : k + 1 \in 1..(last + 1) /\ t[k + 1] = s[k] /\ 1 < k + 1
  BY <1>3
<1>6. \A k \in 1..(last + 1) : k = 1 \/ (k - 1 \in 1..last /\ k = (k - 1) + 1)
  OBVIOUS
<1>7. Elements(t) = {x} \cup Elements(s)
  <2>1. Elements(t) \subseteq {x} \cup Elements(s)
    <3> SUFFICES ASSUME NEW k \in 1..(last + 1) PROVE t[k] \in {x} \cup Elements(s)
      BY <1>3 DEF Elements
    <3>1. CASE k = 1
      BY <1>4, <3>1
    <3>2. CASE k # 1
      <4>1. k - 1 \in 1..last /\ k = (k - 1) + 1
        BY <1>6, <3>2
      <4>2. t[k] = s[k - 1]
        BY <1>5, <4>1
      <4> QED
        BY <1>2, <4>1, <4>2 DEF Elements
    <3> QED
      BY <3>1, <3>2
  <2>2. x \in Elements(t)
    BY <1>3, <1>4 DEF Elements
  <2>3. Elements(s) \subseteq Elements(t)
    <3> SUFFICES ASSUME NEW k \in 1..last PROVE s[k] \in Elements(t)
      BY <1>2 DEF Elements
    <3> QED
      BY <1>3, <1>5 DEF Elements
  <2> QED
    BY <2>1, <2>2, <2>3
<1>8. ASSUME Ascending(t)
      PROVE  Ascending(s) /\ \A y \in Elements(s) : Before(x, y)
  <2>1. \A j, k \in 1..(last + 1) : j < k => Before(t[j], t[k])
    BY <1>3, <1>8 DEF Ascending
  <2>2. ASSUME NEW j \in 1..last, NEW k \in 1..last, j < k
        PROVE  Before(s[j], s[k])
    <3>1. j + 1 < k + 1
      BY <2>2
    <3> QED
      BY <1>5, <2>1, <3>1
  <2>3. \A k \in 1..last : Before(x, s[k])
    BY <1>4, <1>5, <2>1
  <2> QED
    BY <1>2, <2>2, <2>3 DEF Ascending, Elements
<1>9. ASSUME Ascending(s), \A y \in Elements(s) : Before(x, y)
      PROVE  Ascending(t)
  <2>1. \A j, k \in 1..last : j < k => Before(s[j], s[k])
    BY <1>2, <1>9 DEF Ascending
  <2>2. \A k \in 1..last : Before(x, s[k])
    BY <1>2, <1>9 DEF Elements
  <2>3. ASSUME NEW j \in 1..(last + 1), NEW k \in 1..(last + 1), j < k
        PROVE  Before(t[j], t[k])
    <3>1. k # 1
      BY <2>3
    <3>2. k - 1 \in 1..last /\ t[k] = s[k - 1]
      BY <1>5, <1>6, <3>1
    <3>3. CASE j = 1
      BY <1>4, <2>2, <3>2, <3>3
    <3>4. CASE j # 1
      <4>1. j - 1 \in 1..last /\ t[j] = s[j - 1]
        BY <1>5, <1>6, <3>4
      <4>2. j - 1 < k - 1
        BY <2>3
      <4> QED
        BY <2>1, <3>2, <4>1, <4>2
    <3> QED
      BY <3>3, <3>4
  <2> QED
    BY <1>3, <2>3 DEF Ascending
<1> QED
  BY <1>1, <1>2, <1>3, <1>7, <1>8, <1>9

(* A list that is not empty has a first node and a rest.                   *)
LEMMA FirstAndRest ==
  ASSUME NEW s \in Seq(Nodes), s # <<>>
  PROVE  /\ s[1] \in Nodes /\ Tail(s) \in Seq(Nodes)
         /\ s = <<s[1]>> \o Tail(s)
         /\ Len(s) = Len(Tail(s)) + 1
         /\ Elements(s) = {s[1]} \cup Elements(Tail(s))
         /\ Ascending(s) => Ascending(Tail(s)) /\ \A y \in Elements(Tail(s)) : Before(s[1], y)
<1>1. s[1] \in Nodes /\ Tail(s) \in Seq(Nodes)
  <2>1. Len(s) \in Nat /\ Len(s) # 0
    BY EmptySeq, LenProperties
  <2>2. 1 \in 1..Len(s)
    BY <2>1
  <2> QED
    BY <2>2, ElementOfSeq, HeadTailProperties
<1>2. s = <<s[1]>> \o Tail(s)
  <2>1. PICK t : t = <<s[1]>> \o Tail(s)
    OBVIOUS
  <2>2. Len(s) \in Nat /\ Len(Tail(s)) = Len(s) - 1
    BY HeadTailProperties, LenProperties
  <2>3. <<s[1]>> \in Seq(Nodes) /\ Len(<<s[1]>>) = 1
    BY <1>1
  <2>4. /\ t \in Seq(Nodes) /\ Len(t) = 1 + Len(Tail(s))
        /\ \A k \in 1..(1 + Len(Tail(s))) :
             t[k] = IF k <= 1 THEN <<s[1]>>[k] ELSE Tail(s)[k - 1]
    BY <1>1, <2>1, <2>3, ConcatProperties
  <2>5. Len(t) = Len(s)
    BY <2>2, <2>4
  <2>6. ASSUME NEW k \in 1..Len(s) PROVE t[k] = s[k]
    <3>1. k \in 1..(1 + Len(Tail(s)))
      BY <2>2
    <3>2. CASE k = 1
      BY <2>4, <3>1, <3>2
    <3>3. CASE k # 1
      <4>1. k - 1 \in 1..Len(Tail(s)) /\ (k - 1) + 1 = k /\ ~(k <= 1)
        BY <2>2, <3>3
      <4>2. Tail(s)[k - 1] = s[k]
        BY <4>1, HeadTailProperties
      <4> QED
        BY <2>4, <3>1, <4>1, <4>2
    <3> QED
      BY <3>2, <3>3
  <2> QED
    BY <2>1, <2>4, <2>5, <2>6, SeqEqual
<1> QED
  BY <1>1, <1>2, Prefixed

\* c is a and b in one ascending list.
Merged(c, a, b) == /\ Ascending(c)
                   /\ Elements(c) = Elements(a) \cup Elements(b)
                   /\ Len(c) = Len(a) + Len(b)

(* simple.c merges two ascending lists to one, if the nodes of the first   *)
(* stood before those of the second: that a node of the first is taken     *)
(* when numbers are equal is what keeps their order.                       *)
LEMMA SortedMergeMerges ==
  ASSUME n \in Seq(Nat), NEW a, NEW b, Ascending(a), Ascending(b),
         \A x \in Elements(a), y \in Elements(b) : x < y
  PROVE  Merged(SortedMerge("simple", a, b), a, b)
<1> DEFINE Fit(p, q) == /\ Ascending(p) /\ Ascending(q)
                        /\ \A x \in Elements(p), y \in Elements(q) : x < y
           T == {z \in Nat : \E p, q \in Seq(Nodes) :
                   /\ z = Len(p) + Len(q) /\ Fit(p, q)
                   /\ ~Merged(SortedMerge("simple", p, q), p, q)}
<1>1. a \in Seq(Nodes) /\ b \in Seq(Nodes) /\ Len(a) + Len(b) \in Nat
  <2>1. a \in Seq(Nodes) /\ b \in Seq(Nodes)
    BY DEF Ascending
  <2>2. Len(a) \in Nat /\ Len(b) \in Nat
    BY <2>1, LenProperties
  <2> QED
    BY <2>1, <2>2
<1> SUFFICES ASSUME T # {} PROVE FALSE
  BY <1>1
<1>2. PICK m \in T : \A z \in T : m <= z
  <2>1. T \in SUBSET Nat
    OBVIOUS
  <2> QED
    BY <2>1, Least
<1>3. PICK p \in Seq(Nodes), q \in Seq(Nodes) :
        /\ m = Len(p) + Len(q) /\ Fit(p, q)
        /\ ~Merged(SortedMerge("simple", p, q), p, q)
  OBVIOUS
<1>4. ASSUME NEW r \in Seq(Nodes), NEW s \in Seq(Nodes), Fit(r, s), Len(r) + Len(s) < m
      PROVE  Merged(SortedMerge("simple", r, s), r, s)
  <2> SUFFICES ASSUME ~Merged(SortedMerge("simple", r, s), r, s) PROVE FALSE
    OBVIOUS
  <2>1. Len(r) + Len(s) \in Nat
    <3>1. Len(r) \in Nat /\ Len(s) \in Nat
      BY LenProperties
    <3> QED
      BY <3>1
  <2>2. Len(r) + Len(s) \in T
    BY <1>4, <2>1
  <2>3. m \in Nat /\ m <= Len(r) + Len(s)
    BY <1>2, <2>2
  <2> QED
    BY <1>4, <2>1, <2>3
<1> HIDE DEF T
<1>5. StrictOrder /\ \A x, y \in Nodes : n[x] \in Nat /\ x \in Nat /\ y \in Nat
  <2>1. StrictOrder /\ Nodes = 1..Len(n)
    BY BeforeIsAnOrder
  <2>2. \A x \in Nodes : n[x] \in Nat /\ x \in Nat
    BY <2>1, ElementOfSeq
  <2> QED
    BY <2>1, <2>2
<1>6. Elements(<<>>) = {} /\ Len(<<>>) = 0
  BY DEF Elements
<1>7. PICK y \in Nat, z \in Nat : y = Len(p) /\ z = Len(q) /\ m = y + z
  <2>1. Len(p) \in Nat /\ Len(q) \in Nat
    BY LenProperties
  <2> QED
    BY <1>3, <2>1
<1>8. p # <<>> /\ q # <<>>
  <2>1. ASSUME p = <<>> PROVE FALSE
    <3>1. SortedMerge("simple", p, q) = q
      BY <2>1, SortedMergeIs
    <3>2. Elements(p) = {} /\ y = 0 /\ 0 + z = z
      BY <1>6, <1>7, <2>1
    <3> QED
      BY <1>3, <1>7, <3>1, <3>2 DEF Merged
  <2>2. ASSUME p # <<>>, q = <<>> PROVE FALSE
    <3>1. SortedMerge("simple", p, q) = p
      BY <2>2, SortedMergeIs
    <3>2. Elements(q) = {} /\ z = 0 /\ y + 0 = y
      BY <1>6, <1>7, <2>2
    <3> QED
      BY <1>3, <1>7, <3>1, <3>2 DEF Merged
  <2> QED
    BY <2>1, <2>2
<1>9. /\ p[1] \in Nodes /\ Tail(p) \in Seq(Nodes) /\ Len(p) = Len(Tail(p)) + 1
      /\ Elements(p) = {p[1]} \cup Elements(Tail(p))
      /\ Ascending(Tail(p)) /\ \A x \in Elements(Tail(p)) : Before(p[1], x)
  BY <1>3, <1>8, FirstAndRest
<1>10. /\ q[1] \in Nodes /\ Tail(q) \in Seq(Nodes) /\ Len(q) = Len(Tail(q)) + 1
       /\ Elements(q) = {q[1]} \cup Elements(Tail(q))
       /\ Ascending(Tail(q)) /\ \A x \in Elements(Tail(q)) : Before(q[1], x)
  BY <1>3, <1>8, FirstAndRest
<1>11. \A s \in Seq(Nodes) : Elements(s) \subseteq Nodes /\ Len(s) \in Nat
  <2> TAKE s \in Seq(Nodes)
  <2>1. \A k \in 1..Len(s) : s[k] \in Nodes
    BY ElementOfSeq
  <2> QED
    BY <2>1, LenProperties DEF Elements
<1>12. PICK c : c = SortedMerge("simple", p, q)
  OBVIOUS
<1>13. FrontFirst("simple", p[1], q[1]) <=> Before(p[1], q[1])
  <2>1. p[1] < q[1]
    BY <1>3, <1>9, <1>10
  <2>2. n[p[1]] \in Nat /\ n[q[1]] \in Nat
    BY <1>5, <1>9, <1>10
  <2>3. PICK u \in Nat, v \in Nat : u = n[p[1]] /\ v = n[q[1]]
    BY <2>2
  <2>4. FrontFirst("simple", p[1], q[1]) <=> u <= v
    BY <2>3, Zenon DEF FrontFirst
  <2>5. Before(p[1], q[1]) <=> u < v \/ u = v
    BY <2>1, <2>3, Zenon DEF Before
  <2>6. \A x, w \in Nat : x <= w <=> x < w \/ x = w
    OBVIOUS
  <2> QED
    BY <2>4, <2>5, <2>6, Zenon
<1>14. CASE Before(p[1], q[1])
  <2>1. PICK d : d = SortedMerge("simple", Tail(p), q)
    OBVIOUS
  <2>2. c = <<p[1]>> \o d
    BY <1>8, <1>12, <1>13, <1>14, <2>1, SortedMergeIs
  <2>3. Fit(Tail(p), q)
    BY <1>3, <1>9
  <2>4. PICK x \in Nat : x = Len(Tail(p)) /\ y = x + 1
    BY <1>7, <1>9, <1>11
  <2>5. x + z < m /\ (x + z) + 1 = y + z
    BY <1>7, <2>4
  <2>6. Merged(d, Tail(p), q)
    BY <1>4, <1>7, <1>9, <2>1, <2>3, <2>4, <2>5
  <2>7. \A e \in Elements(d) : Before(p[1], e)
    <3>1. \A e \in Elements(q) : Before(p[1], e)
      BY <1>5, <1>9, <1>10, <1>11, <1>14 DEF StrictOrder
    <3> QED
      BY <1>9, <2>6, <3>1 DEF Merged
  <2>8. d \in Seq(Nodes)
    BY <2>6 DEF Merged, Ascending
  <2>9. Ascending(c) /\ Elements(c) = {p[1]} \cup Elements(d) /\ Len(c) = Len(d) + 1
    BY <1>9, <2>2, <2>6, <2>7, <2>8, Prefixed DEF Merged
  <2>10. Len(c) = y + z
    BY <1>7, <2>4, <2>5, <2>6, <2>9 DEF Merged
  <2>11. Elements(c) = Elements(p) \cup Elements(q)
    BY <1>9, <2>6, <2>9 DEF Merged
  <2> QED
    BY <1>3, <1>7, <1>12, <2>9, <2>10, <2>11 DEF Merged
<1>15. CASE ~Before(p[1], q[1])
  <2>1. PICK d : d = SortedMerge("simple", p, Tail(q))
    OBVIOUS
  <2>2. c = <<q[1]>> \o d
    BY <1>8, <1>12, <1>13, <1>15, <2>1, SortedMergeIs
  <2>3. Fit(p, Tail(q))
    BY <1>3, <1>10
  <2>4. PICK x \in Nat : x = Len(Tail(q)) /\ z = x + 1
    BY <1>7, <1>10, <1>11
  <2>5. y + x < m /\ (y + x) + 1 = y + z
    BY <1>7, <2>4
  <2>6. Merged(d, p, Tail(q))
    BY <1>4, <1>7, <1>10, <2>1, <2>3, <2>4, <2>5
  <2>7. \A e \in Elements(d) : Before(q[1], e)
    <3>1. Before(q[1], p[1])
      <4>1. p[1] # q[1]
        <5>1. p[1] < q[1] /\ p[1] \in Nat /\ q[1] \in Nat
          BY <1>3, <1>5, <1>9, <1>10
        <5> QED
          BY <5>1
      <4> QED
        BY <1>5, <1>9, <1>10, <1>15, <4>1 DEF StrictOrder
    <3>2. \A e \in Elements(p) : Before(q[1], e)
      BY <1>5, <1>9, <1>10, <1>11, <3>1 DEF StrictOrder
    <3> QED
      BY <1>10, <2>6, <3>2 DEF Merged
  <2>8. d \in Seq(Nodes)
    BY <2>6 DEF Merged, Ascending
  <2>9. Ascending(c) /\ Elements(c) = {q[1]} \cup Elements(d) /\ Len(c) = Len(d) + 1
    BY <1>10, <2>2, <2>6, <2>7, <2>8, Prefixed DEF Merged
  <2>10. Len(c) = y + z
    BY <1>7, <2>4, <2>5, <2>6, <2>9 DEF Merged
  <2>11. Elements(c) = Elements(p) \cup Elements(q)
    BY <1>10, <2>6, <2>9 DEF Merged
  <2> QED
    BY <1>3, <1>7, <1>12, <2>9, <2>10, <2>11 DEF Merged
<1> QED
  BY <1>14, <1>15

(* Articles.c, which takes the node of the first list whenever the two     *)
(* texts differ, only joins lists of different texts.                      *)
LEMMA ArticlesJoins ==
  ASSUME IsInjective(n), NEW a \in Seq(Nodes), NEW b \in Seq(Nodes),
         \A x \in Elements(a), y \in Elements(b) : x # y
  PROVE  SortedMerge("articles", a, b) = a \o b
<1> DEFINE Apart(p, q) == \A x \in Elements(p), y \in Elements(q) : x # y
           T == {z \in Nat : \E p \in Seq(Nodes) :
                   /\ z = Len(p) /\ Apart(p, b)
                   /\ SortedMerge("articles", p, b) # p \o b}
<1>1. Len(a) \in Nat
  BY LenProperties
<1> SUFFICES ASSUME T # {} PROVE FALSE
  BY <1>1
<1>2. PICK m \in T : \A z \in T : m <= z
  <2>1. T \in SUBSET Nat
    OBVIOUS
  <2> QED
    BY <2>1, Least
<1>3. PICK p \in Seq(Nodes) :
        m = Len(p) /\ Apart(p, b) /\ SortedMerge("articles", p, b) # p \o b
  OBVIOUS
<1>4. ASSUME NEW r \in Seq(Nodes), Apart(r, b), Len(r) < m
      PROVE  SortedMerge("articles", r, b) = r \o b
  <2> SUFFICES ASSUME SortedMerge("articles", r, b) # r \o b PROVE FALSE
    OBVIOUS
  <2>1. Len(r) \in Nat
    BY LenProperties
  <2>2. Len(r) \in T
    BY <1>4, <2>1
  <2>3. m \in Nat /\ m <= Len(r)
    BY <1>2, <2>2
  <2> QED
    BY <1>4, <2>1, <2>3
<1> HIDE DEF T
<1>5. p # <<>> /\ b # <<>>
  <2>1. p # <<>>
    <3> SUFFICES ASSUME p = <<>> PROVE FALSE
      OBVIOUS
    <3>1. SortedMerge("articles", p, b) = b
      BY SortedMergeEnds
    <3> QED
      BY <1>3, <3>1, ConcatEmptySeq
  <2>2. b # <<>>
    <3> SUFFICES ASSUME b = <<>> PROVE FALSE
      OBVIOUS
    <3>1. SortedMerge("articles", p, b) = p
      BY SortedMergeEnds
    <3> QED
      BY <1>3, <3>1, ConcatEmptySeq
  <2> QED
    BY <2>1, <2>2
<1>6. /\ p[1] \in Nodes /\ Tail(p) \in Seq(Nodes) /\ Len(p) = Len(Tail(p)) + 1
      /\ Elements(p) = {p[1]} \cup Elements(Tail(p)) /\ p = <<p[1]>> \o Tail(p)
  BY <1>5, FirstAndRest
<1>7. b[1] \in Nodes /\ b[1] \in Elements(b)
  <2>1. b[1] \in Nodes /\ Elements(b) = {b[1]} \cup Elements(Tail(b))
    BY <1>5, FirstAndRest
  <2> QED
    BY <2>1
<1>8. FrontFirst("articles", p[1], b[1])
  <2>1. p[1] # b[1]
    BY <1>3, <1>6, <1>7
  <2>2. n[p[1]] # n[b[1]]
    BY <1>6, <1>7, <2>1 DEF IsInjective, Nodes
  <2>3. "articles" # "simple"
    OBVIOUS
  <2> QED
    BY <2>2, <2>3 DEF FrontFirst
<1>9. SortedMerge("articles", p, b) = <<p[1]>> \o SortedMerge("articles", Tail(p), b)
  BY <1>5, <1>8, SortedMergeIs
<1>10. SortedMerge("articles", Tail(p), b) = Tail(p) \o b
  <2>1. Apart(Tail(p), b)
    BY <1>3, <1>6
  <2>2. Len(Tail(p)) \in Nat
    BY <1>6, LenProperties
  <2>3. Len(Tail(p)) < m
    BY <1>3, <1>6, <2>2
  <2> QED
    BY <1>4, <1>6, <2>1, <2>3
<1>11. <<p[1]>> \o (Tail(p) \o b) = (<<p[1]>> \o Tail(p)) \o b
  <2>1. <<p[1]>> \in Seq(Nodes)
    BY <1>6
  <2> QED
    BY <1>6, <2>1, ConcatAssociative
<1> QED
  BY <1>3, <1>6, <1>9, <1>10, <1>11

(* The halves of a list that stands in its order do, and the nodes of the  *)
(* first stand before those of the second.                                 *)
LEMMA HalvesInOrder ==
  ASSUME n \in Seq(Nat), NEW s, InListOrder(s), Len(s) >= 2
  PROVE  /\ InListOrder(FrontOf(s)) /\ InListOrder(BackOf(s))
         /\ \A x \in Elements(FrontOf(s)), y \in Elements(BackOf(s)) : x < y
         /\ Elements(s) = Elements(FrontOf(s)) \cup Elements(BackOf(s))
         /\ s = FrontOf(s) \o BackOf(s)
<1>1. s \in Seq(Nodes) /\ \A j, k \in 1..Len(s) : j < k => s[j] < s[k]
  BY DEF InListOrder
<1>2. PICK f : f = FrontOf(s)
  OBVIOUS
<1>3. PICK g : g = BackOf(s)
  OBVIOUS
<1>4. /\ f \in Seq(Nodes) /\ g \in Seq(Nodes) /\ Len(s) = Len(f) + Len(g)
      /\ \A k \in 1..Len(f) : k \in 1..Len(s) /\ f[k] = s[k]
      /\ \A k \in 1..Len(g) : Len(f) + k \in 1..Len(s) /\ g[k] = s[Len(f) + k]
  BY <1>1, <1>2, <1>3, Halves
<1>5. PICK x \in Nat, y \in Nat : x = Len(f) /\ y = Len(g)
  BY <1>4, LenProperties
<1>6. InListOrder(f)
  BY <1>1, <1>4 DEF InListOrder
<1>7. InListOrder(g)
  <2> SUFFICES ASSUME NEW j \in 1..y, NEW k \in 1..y, j < k PROVE g[j] < g[k]
    BY <1>4, <1>5 DEF InListOrder
  <2>1. x + j < x + k
    BY <1>5
  <2> QED
    BY <1>1, <1>4, <1>5, <2>1
<1>8. ASSUME NEW j \in 1..x, NEW k \in 1..y
      PROVE  f[j] < g[k]
  <2>1. j < x + k
    BY <1>5
  <2> QED
    BY <1>1, <1>4, <1>5, <2>1
<1>9. \A d \in Elements(f), e \in Elements(g) : d < e
  BY <1>5, <1>8 DEF Elements
<1>10. s = f \o g
  <2>1. PICK t : t = f \o g
    OBVIOUS
  <2>2. /\ t \in Seq(Nodes) /\ Len(t) = x + y
        /\ \A k \in 1..(x + y) : t[k] = IF k <= x THEN f[k] ELSE g[k - x]
    BY <1>4, <1>5, <2>1, ConcatProperties
  <2>3. ASSUME NEW k \in 1..(x + y) PROVE t[k] = s[k]
    <3>1. CASE k <= x
      <4>1. k \in 1..x
        BY <3>1
      <4> QED
        BY <1>4, <1>5, <2>2, <3>1, <4>1
    <3>2. CASE ~(k <= x)
      <4>1. k - x \in 1..y /\ x + (k - x) = k
        BY <1>5, <3>2
      <4> QED
        BY <1>4, <1>5, <2>2, <3>2, <4>1
    <3> QED
      BY <3>1, <3>2
  <2>4. Len(t) = Len(s) /\ \A k \in 1..Len(t) : t[k] = s[k]
    BY <1>4, <1>5, <2>2, <2>3
  <2> QED
    BY <1>1, <2>1, <2>2, <2>4, SeqEqual
<1>11. Elements(s) = Elements(f) \cup Elements(g)
  <2>1. Elements(f) \subseteq Elements(s)
    BY <1>4 DEF Elements
  <2>2. Elements(g) \subseteq Elements(s)
    <3> SUFFICES ASSUME NEW k \in 1..y PROVE g[k] \in Elements(s)
      BY <1>5 DEF Elements
    <3> QED
      BY <1>4, <1>5 DEF Elements
  <2>3. Elements(s) \subseteq Elements(f) \cup Elements(g)
    <3> SUFFICES ASSUME NEW k \in 1..Len(s) PROVE s[k] \in Elements(f) \cup Elements(g)
      BY DEF Elements
    <3>1. k \in 1..(x + y)
      BY <1>4, <1>5
    <3>2. CASE k <= x
      <4>1. k \in 1..x
        BY <3>1, <3>2
      <4>2. s[k] = f[k]
        BY <1>4, <1>5, <4>1
      <4> QED
        BY <1>5, <4>1, <4>2 DEF Elements
    <3>3. CASE ~(k <= x)
      <4>1. k - x \in 1..y /\ x + (k - x) = k
        BY <1>5, <3>1, <3>3
      <4>2. s[k] = g[k - x]
        BY <1>4, <1>5, <4>1
      <4> QED
        BY <1>5, <4>1, <4>2 DEF Elements
    <3> QED
      BY <3>2, <3>3
  <2> QED
    BY <2>1, <2>2, <2>3
<1> QED
  BY <1>2, <1>3, <1>6, <1>7, <1>9, <1>10, <1>11

\* c is s in ascending order.
SortOf(c, s) == Ascending(c) /\ Elements(c) = Elements(s) /\ Len(c) = Len(s)

(* What both recursive sorts make of a list that stands in its order.      *)
LEMMA MergeSortsDo ==
  ASSUME n \in Seq(Nat), NEW s, InListOrder(s)
  PROVE  /\ SortOf(MergeSort("simple", s), s)
         /\ IsInjective(n) => MergeSort("articles", s) = s
<1> DEFINE Right(t) == /\ SortOf(MergeSort("simple", t), t)
                       /\ IsInjective(n) => MergeSort("articles", t) = t
           T == {z \in Nat : \E t : z = Len(t) /\ InListOrder(t) /\ ~Right(t)}
<1>1. \A t : InListOrder(t) => t \in Seq(Nodes) /\ Len(t) \in Nat
  BY LenProperties DEF InListOrder
<1> SUFFICES ASSUME T # {} PROVE FALSE
  BY <1>1
<1>2. PICK m \in T : \A z \in T : m <= z
  <2>1. T \in SUBSET Nat
    OBVIOUS
  <2> QED
    BY <2>1, Least
<1>3. PICK t : m = Len(t) /\ InListOrder(t) /\ ~Right(t)
  OBVIOUS
<1>4. ASSUME NEW r, InListOrder(r), Len(r) < m
      PROVE  Right(r)
  <2> SUFFICES ASSUME ~Right(r) PROVE FALSE
    OBVIOUS
  <2>1. Len(r) \in T
    BY <1>1, <1>4
  <2>2. m \in Nat /\ m <= Len(r) /\ Len(r) \in Nat
    BY <1>1, <1>2, <1>4, <2>1
  <2> QED
    BY <1>4, <2>2
<1> HIDE DEF T
<1>5. t \in Seq(Nodes) /\ Len(t) \in Nat
  BY <1>1, <1>3
<1>6. CASE Len(t) < 2
  <2>1. MergeSort("simple", t) = t /\ MergeSort("articles", t) = t
    BY <1>5, <1>6, MergeSortIs
  <2>2. Ascending(t)
    <3>1. \A j, k \in 1..Len(t) : ~(j < k)
      BY <1>5, <1>6
    <3> QED
      BY <1>5, <3>1 DEF Ascending
  <2> QED
    BY <1>3, <2>1, <2>2 DEF SortOf
<1>7. CASE ~(Len(t) < 2)
  <2>1. Len(t) >= 2
    BY <1>5, <1>7
  <2>2. PICK f : f = FrontOf(t)
    OBVIOUS
  <2>3. PICK g : g = BackOf(t)
    OBVIOUS
  <2>4. /\ InListOrder(f) /\ InListOrder(g)
        /\ \A x \in Elements(f), y \in Elements(g) : x < y
        /\ Elements(t) = Elements(f) \cup Elements(g)
        /\ t = f \o g
    BY <1>3, <2>1, <2>2, <2>3, HalvesInOrder
  <2>5. Len(f) < m /\ Len(g) < m /\ Len(t) = Len(f) + Len(g)
    BY <1>3, <1>5, <2>1, <2>2, <2>3, Halves
  <2>6. Right(f) /\ Right(g)
    BY <1>4, <2>4, <2>5
  <2>7. SortOf(MergeSort("simple", t), t)
    <3>1. PICK c : c = MergeSort("simple", f)
      OBVIOUS
    <3>2. PICK d : d = MergeSort("simple", g)
      OBVIOUS
    <3>3. MergeSort("simple", t) = SortedMerge("simple", c, d)
      BY <1>5, <2>1, <2>2, <2>3, <3>1, <3>2, MergeSortIs
    <3>4. SortOf(c, f) /\ SortOf(d, g)
      BY <2>6, <3>1, <3>2
    <3>5. Merged(SortedMerge("simple", c, d), c, d)
      <4>1. \A x \in Elements(c), y \in Elements(d) : x < y
        BY <2>4, <3>4 DEF SortOf
      <4> QED
        BY <3>4, <4>1, SortedMergeMerges DEF SortOf
    <3> QED
      BY <2>4, <2>5, <3>3, <3>4, <3>5 DEF SortOf, Merged
  <2>8. ASSUME IsInjective(n) PROVE MergeSort("articles", t) = t
    <3>1. MergeSort("articles", t) =
            SortedMerge("articles", MergeSort("articles", f), MergeSort("articles", g))
      BY <1>5, <2>1, <2>2, <2>3, MergeSortIs
    <3>2. MergeSort("articles", f) = f /\ MergeSort("articles", g) = g
      BY <2>6, <2>8
    <3>3. \A x \in Elements(f), y \in Elements(g) : x # y
      <4>1. Nodes = 1..Len(n)
        BY BeforeIsAnOrder
      <4>2. Elements(f) \subseteq Nodes /\ Elements(g) \subseteq Nodes
        <5>1. \A k \in 1..Len(f) : f[k] \in Nodes
          BY <1>1, <2>4, ElementOfSeq
        <5>2. \A k \in 1..Len(g) : g[k] \in Nodes
          BY <1>1, <2>4, ElementOfSeq
        <5> QED
          BY <5>1, <5>2 DEF Elements
      <4>3. \A x, y \in Nodes : x < y => x # y
        BY <4>1
      <4> QED
        BY <2>4, <4>2, <4>3
    <3>4. SortedMerge("articles", f, g) = f \o g
      BY <1>1, <2>4, <2>8, <3>3, ArticlesJoins
    <3> QED
      BY <2>4, <3>1, <3>2, <3>4
  <2> QED
    BY <1>3, <2>7, <2>8
<1> QED
  BY <1>6, <1>7

(* Whatever list is sorted, the recursive sort of simple.c gives the order *)
(* that SortList and SortTree leave, and that of Articles.c leaves         *)
(* different texts as they were.                                           *)
THEOREM RecursiveSortsAreRight == Spec => []RecursiveSorts
<1>1. ASSUME Inv PROVE RecursiveSorts
  <2>1. n \in Seq(Nat) /\ Len(n) \in Nat /\ Nodes = 1..Len(n)
    BY <1>1, Setting DEF Inv
  <2>2. PICK s : s = Input
    OBVIOUS
  <2>3. s \in Seq(Nodes) /\ Len(s) = Len(n) /\ \A k \in 1..Len(n) : s[k] = k
    BY <2>1, <2>2, Listed DEF Input
  <2>4. InListOrder(s) /\ Elements(s) = Nodes
    <3>1. \A j, k \in 1..Len(s) : j < k => s[j] < s[k]
      BY <2>3
    <3>2. Elements(s) = 1..Len(n)
      BY <2>3 DEF Elements
    <3> QED
      BY <2>1, <2>3, <3>1, <3>2 DEF InListOrder
  <2>5. /\ SortOf(MergeSort("simple", s), s)
        /\ IsInjective(n) => MergeSort("articles", s) = s
    BY <2>1, <2>4, MergeSortsDo
  <2> QED
    BY <2>2, <2>3, <2>4, <2>5 DEF RecursiveSorts, IsStableOrder, SortOf, Ascending
<1> QED
  BY <1>1, Invariant, PTL

=============================================================================
