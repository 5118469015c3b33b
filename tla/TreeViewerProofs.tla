-------------------------- MODULE TreeViewerProofs --------------------------
(***************************************************************************)
(* Proofs about TreeViewer for every tree, every window and every sequence *)
(* of keys: the walks of comment_tree.c compute what they are for, and the *)
(* viewer shows it.                                                        *)
(***************************************************************************)
EXTENDS TreeViewer, SequenceTheorems, FiniteSetTheorems, TLAPS

-----------------------------------------------------------------------------
(* The pointers of a tree *)

(* A set of natural numbers that is not empty has a least one.             *)
LEMMA Least ==
  ASSUME NEW T \in SUBSET Nat, T # {}
  PROVE  \E m \in T : \A k \in T : m <= k
<1>1. IsWellFoundedOn(OpToRel(<, Nat), Nat)
  BY NatLessThanWellFounded
<1>2. PICK x \in T : \A y \in T : ~ (<<y, x>> \in OpToRel(<, Nat))
  BY <1>1, WFMin
<1>3. \A y \in T : ~ (y < x)
  BY <1>2 DEF OpToRel
<1> QED
  BY <1>3

(* Pointers lead to nodes or end.                                          *)
LEMMA Pointer ==
  ASSUME NEW t, IsTree(t)
  PROVE  /\ Root \in Nodes /\ Null \notin Nodes
         /\ \A n \in Nodes : /\ t.children[n] \in Pointers
                             /\ t.next[n] \in Pointers
                             /\ t.parent[n] \in Pointers
         /\ \A n : n \in Pointers <=> n \in Nodes \/ n = Null
BY CommentTreeAssumption DEF IsTree, Pointers

(* What the pointers of a node say of each other.                          *)
LEMMA Linked ==
  ASSUME NEW t, IsTree(t), NEW n \in Nodes
  PROVE  /\ t.parent[Root] = Null
         /\ t.children[n] # Null => t.children[n] \in Nodes /\ t.parent[t.children[n]] = n
         /\ t.next[n] # Null => /\ t.next[n] \in Nodes /\ t.parent[n] \in Nodes
                                /\ t.parent[t.next[n]] = t.parent[n]
         /\ t.parent[n] # Null => /\ t.parent[n] \in Nodes
                                  /\ \/ t.children[t.parent[n]] = n
                                     \/ \E m \in Nodes : t.next[m] = n
         /\ t.parent[n] = Null => n = Root \/ t.children[n] = Null
BY Pointer DEF IsTree

\* The pointers lead to larger numbers, none beyond last.
IsOrder(t, order, last) ==
  /\ last \in Nat
  /\ \A n \in Nodes : order[n] \in Nat /\ order[n] <= last
  /\ \A n \in Nodes : /\ t.children[n] # Null => order[n] < order[t.children[n]]
                      /\ t.next[n] # Null => order[n] < order[t.next[n]]
                      /\ t.parent[n] # Null => order[t.parent[n]] < order[n]

(* A tree has such an order.                                               *)
LEMMA Ordered ==
  ASSUME NEW t, IsTree(t)
  PROVE  \E order, last : IsOrder(t, order, last)
<1>1. PICK last \in Nat : last = Cardinality(Nodes)
  BY CommentTreeAssumption, FS_CardinalityType
<1>2. PICK order \in [Nodes -> 0..last] :
        \A m, n \in Nodes :
          t.children[m] = n \/ t.next[m] = n \/ t.parent[n] = m => order[m] < order[n]
  BY <1>1 DEF IsTree
<1>3. \A n \in Nodes : order[n] \in Nat /\ order[n] <= last
  <2>1. \A i \in 0..last : i \in Nat /\ i <= last
    OBVIOUS
  <2> QED
    BY <1>2, <2>1
<1>4. ASSUME NEW n \in Nodes
      PROVE  /\ t.children[n] # Null => order[n] < order[t.children[n]]
             /\ t.next[n] # Null => order[n] < order[t.next[n]]
             /\ t.parent[n] # Null => order[t.parent[n]] < order[n]
  BY <1>2, Linked
<1> QED
  BY <1>1, <1>3, <1>4 DEF IsOrder

(* What holds of a node when it holds of its first child and of its next   *)
(* sibling holds of all.                                                   *)
LEMMA DownInduction ==
  ASSUME NEW t, IsTree(t), NEW S, Null \in S,
         \A x \in Nodes : t.children[x] \in S /\ t.next[x] \in S => x \in S
  PROVE  \A x \in Pointers : x \in S
<1> SUFFICES ASSUME NEW x \in Nodes, x \notin S PROVE FALSE
  BY Pointer
<1>1. PICK order, last : IsOrder(t, order, last)
  BY Ordered
<1> DEFINE T == {last - order[y] : y \in Nodes \ S}
<1>2. T \in SUBSET Nat /\ T # {}
  <2>1. \A y \in Nodes : last - order[y] \in Nat
    BY <1>1 DEF IsOrder
  <2> QED
    BY <2>1
<1>3. PICK m \in T : \A k \in T : m <= k
  BY <1>2, Least
<1>4. PICK y \in Nodes \ S : m = last - order[y]
  OBVIOUS
<1>5. \A z \in Nodes : order[y] < order[z] => z \in S
  <2> SUFFICES ASSUME NEW z \in Nodes, order[y] < order[z], z \notin S PROVE FALSE
    OBVIOUS
  <2>1. last - order[y] <= last - order[z]
    BY <1>3, <1>4
  <2>2. last \in Nat /\ order[y] \in Nat /\ order[z] \in Nat
    BY <1>1 DEF IsOrder
  <2> QED
    BY <2>1, <2>2
<1>6. t.children[y] \in S /\ t.next[y] \in S
  BY <1>1, <1>5, Linked DEF IsOrder
<1> QED
  BY <1>4, <1>6

(* What holds of a node when it holds of its parent holds of all.          *)
LEMMA UpInduction ==
  ASSUME NEW t, IsTree(t), NEW S,
         \A x \in Nodes : t.parent[x] = Null \/ t.parent[x] \in S => x \in S
  PROVE  \A x \in Nodes : x \in S
<1> SUFFICES ASSUME NEW x \in Nodes, x \notin S PROVE FALSE
  OBVIOUS
<1>1. PICK order, last : IsOrder(t, order, last)
  BY Ordered
<1> DEFINE T == {order[y] : y \in Nodes \ S}
<1>2. T \in SUBSET Nat /\ T # {}
  BY <1>1 DEF IsOrder
<1>3. PICK m \in T : \A k \in T : m <= k
  BY <1>2, Least
<1>4. PICK y \in Nodes \ S : m = order[y]
  OBVIOUS
<1>5. \A z \in Nodes : order[z] < order[y] => z \in S
  <2> SUFFICES ASSUME NEW z \in Nodes, order[z] < order[y], z \notin S PROVE FALSE
    OBVIOUS
  <2>1. order[y] <= order[z]
    BY <1>3, <1>4
  <2>2. order[y] \in Nat /\ order[z] \in Nat
    BY <1>1 DEF IsOrder
  <2> QED
    BY <2>1, <2>2
<1>6. t.parent[y] = Null \/ t.parent[y] \in S
  BY <1>1, <1>5, Linked DEF IsOrder
<1> QED
  BY <1>4, <1>6

-----------------------------------------------------------------------------
(* Recursion over a tree *)

\* f is defined by this step, for the nodes of N.
Follows(f, t, base, step, N) ==
  /\ f[Null] = base
  /\ \A x \in N : f[x] = step[x][f[t.children[x]]][f[t.next[x]]]

(* A function of the pointers may be defined from its values at the first  *)
(* child and at the next sibling.                                          *)
LEMMA DownRecursion ==
  ASSUME NEW t, IsTree(t), NEW V, NEW base \in V, NEW step \in [Nodes -> [V -> [V -> V]]]
  PROVE  \E f \in [Pointers -> V] : Follows(f, t, base, step, Nodes)
<1>1. PICK order, last : IsOrder(t, order, last)
  BY Ordered
<1> DEFINE N(k) == {x \in Nodes : last - order[x] < k}
           Defined(k) == \E f \in [Pointers -> V] : Follows(f, t, base, step, N(k))
           T == {k \in Nat : ~Defined(k)}
<1>2. last \in Nat /\ \A x \in Nodes : order[x] \in Nat /\ order[x] <= last
  BY <1>1 DEF IsOrder
<1>3. Defined(0)
  <2>1. PICK f : f = [x \in Pointers |-> base]
    OBVIOUS
  <2>2. N(0) = {}
    BY <1>2
  <2>3. f \in [Pointers -> V] /\ f[Null] = base
    BY <2>1 DEF Pointers
  <2> QED
    BY <2>2, <2>3 DEF Follows
<1>4. ASSUME NEW k \in Nat, Defined(k)
      PROVE  Defined(k + 1)
  <2>1. PICK f \in [Pointers -> V] : Follows(f, t, base, step, N(k))
    BY <1>4
  <2>2. \A x \in Nodes : step[x][f[t.children[x]]][f[t.next[x]]] \in V
    BY Pointer
  <2>3. PICK g : g = [x \in Pointers |->
                        IF x \in Nodes /\ last - order[x] = k
                        THEN step[x][f[t.children[x]]][f[t.next[x]]] ELSE f[x]]
    OBVIOUS
  <2>4. g \in [Pointers -> V]
    BY <2>2, <2>3
  <2>5. g[Null] = base
    BY <2>1, <2>3, Pointer DEF Follows
  <2>6. ASSUME NEW x \in N(k + 1)
        PROVE  g[x] = step[x][f[t.children[x]]][f[t.next[x]]]
    <3>1. x \in Nodes /\ x \in Pointers /\ last - order[x] < k + 1
      BY Pointer
    <3>2. CASE last - order[x] = k
      BY <2>3, <3>1, <3>2
    <3>3. CASE last - order[x] # k
      <4>1. last - order[x] < k
        <5>1. order[x] \in Nat /\ last \in Nat
          BY <1>2, <3>1
        <5>2. PICK i \in Int : i = last - order[x]
          BY <5>1
        <5>3. i < k + 1 /\ i # k
          BY <3>1, <3>3, <5>2
        <5>4. i < k
          BY <5>3
        <5> QED
          BY <5>2, <5>4
      <4>2. x \in N(k)
        BY <3>1, <4>1
      <4> QED
        BY <2>1, <2>3, <3>1, <3>3, <4>2 DEF Follows
    <3> QED
      BY <3>2, <3>3
  <2>7. ASSUME NEW x \in N(k + 1), NEW z \in Pointers,
               z = t.children[x] \/ z = t.next[x]
        PROVE  g[z] = f[z]
    <3>1. z \in Nodes => last - order[z] # k
      <4> SUFFICES ASSUME z \in Nodes PROVE last - order[z] < k
        BY <1>2
      <4>1. order[x] < order[z]
        BY <1>1, <2>7, Pointer DEF IsOrder
      <4>2. order[x] \in Nat /\ order[z] \in Nat /\ last - order[x] < k + 1
        BY <1>2
      <4> QED
        BY <1>2, <4>1, <4>2
    <3> QED
      BY <2>3, <3>1
  <2>8. \A x \in N(k + 1) : g[x] = step[x][g[t.children[x]]][g[t.next[x]]]
    BY <2>6, <2>7, Pointer
  <2> QED
    BY <2>4, <2>5, <2>8 DEF Follows
<1>5. \A k \in Nat : Defined(k)
  <2> SUFFICES ASSUME T # {} PROVE FALSE
    OBVIOUS
  <2>1. PICK k \in T : \A m \in T : k <= m
    BY Least
  <2>2. k # 0
    BY <1>3
  <2>3. k - 1 \in Nat /\ ~(k <= k - 1)
    BY <2>2
  <2>4. Defined(k - 1)
    BY <2>1, <2>3
  <2>5. Defined((k - 1) + 1)
    BY <1>4, <2>3, <2>4
  <2>6. (k - 1) + 1 = k
    OBVIOUS
  <2> QED
    BY <2>5, <2>6
<1>6. Defined(last + 1)
  <2> HIDE DEF Defined
  <2> QED
    BY <1>2, <1>5
<1>7. N(last + 1) = Nodes
  BY <1>2
<1> QED
  BY <1>6, <1>7

\* f is defined by this step upwards.
Rises(f, t, base, step) ==
  \A x \in Nodes : f[x] = step[x][IF t.parent[x] = Null THEN base ELSE f[t.parent[x]]]

(* Or from its value at the parent.                                        *)
LEMMA UpRecursion ==
  ASSUME NEW t, IsTree(t), NEW V, NEW base \in V, NEW step \in [Nodes -> [V -> V]]
  PROVE  \E f \in [Nodes -> V] : Rises(f, t, base, step)
<1>1. PICK order, last : IsOrder(t, order, last)
  BY Ordered
<1> DEFINE From(f, x) == IF t.parent[x] = Null THEN base ELSE f[t.parent[x]]
           Defined(k) == \E f \in [Nodes -> V] :
                           \A x \in Nodes : order[x] < k => f[x] = step[x][From(f, x)]
           T == {k \in Nat : ~Defined(k)}
<1>2. last \in Nat /\ \A x \in Nodes : order[x] \in Nat /\ order[x] <= last
  BY <1>1 DEF IsOrder
<1>3. Defined(0)
  <2>1. PICK f : f = [x \in Nodes |-> base]
    OBVIOUS
  <2>2. \A x \in Nodes : ~(order[x] < 0)
    BY <1>2
  <2> QED
    BY <2>1, <2>2
<1>4. ASSUME NEW k \in Nat, Defined(k)
      PROVE  Defined(k + 1)
  <2>1. PICK f \in [Nodes -> V] :
          \A x \in Nodes : order[x] < k => f[x] = step[x][From(f, x)]
    BY <1>4
  <2>2. \A x \in Nodes : From(f, x) \in V
    BY Linked
  <2>3. PICK g : g = [x \in Nodes |-> IF order[x] = k THEN step[x][From(f, x)] ELSE f[x]]
    OBVIOUS
  <2>4. g \in [Nodes -> V]
    <3>1. \A x \in Nodes : step[x][From(f, x)] \in V
      BY <2>2
    <3> HIDE DEF From
    <3> QED
      BY <2>3, <3>1
  <2>5. ASSUME NEW x \in Nodes, order[x] < k + 1
        PROVE  g[x] = step[x][From(f, x)]
    <3>1. order[x] < k \/ order[x] = k
      BY <1>2, <2>5
    <3> HIDE DEF From
    <3> QED
      BY <2>1, <2>3, <3>1
  <2>6. ASSUME NEW x \in Nodes, order[x] < k + 1
        PROVE  From(g, x) = From(f, x)
    <3> SUFFICES ASSUME t.parent[x] # Null PROVE g[t.parent[x]] = f[t.parent[x]]
      OBVIOUS
    <3>1. t.parent[x] \in Nodes /\ order[t.parent[x]] < order[x]
      BY <1>1, Linked DEF IsOrder
    <3>2. order[t.parent[x]] # k
      BY <1>2, <2>6, <3>1
    <3> QED
      BY <2>3, <3>1, <3>2
  <2> HIDE DEF From
  <2>7. \A x \in Nodes : order[x] < k + 1 => g[x] = step[x][From(g, x)]
    BY <2>5, <2>6
  <2> QED
    BY <2>4, <2>7
<1>5. \A k \in Nat : Defined(k)
  <2> HIDE DEF Defined
  <2> SUFFICES ASSUME T # {} PROVE FALSE
    OBVIOUS
  <2>1. PICK k \in T : \A m \in T : k <= m
    BY Least
  <2>2. k # 0
    BY <1>3
  <2>3. k - 1 \in Nat /\ ~(k <= k - 1)
    BY <2>2
  <2>4. Defined(k - 1)
    BY <2>1, <2>3
  <2>5. Defined((k - 1) + 1)
    BY <1>4, <2>3, <2>4
  <2>6. (k - 1) + 1 = k
    OBVIOUS
  <2> QED
    BY <2>5, <2>6
<1>6. PICK f \in [Nodes -> V] :
        \A x \in Nodes : order[x] < last + 1 => f[x] = step[x][From(f, x)]
  <2>1. Defined(last + 1)
    <3> HIDE DEF Defined
    <3> QED
      BY <1>2, <1>5
  <2> QED
    BY <2>1
<1>7. \A x \in Nodes : order[x] < last + 1
  BY <1>2
<1> QED
  BY <1>6, <1>7 DEF Rises

-----------------------------------------------------------------------------
(* Each walk is the function that its recursive definition says it is.     *)

\* The nodes shown of x, the siblings behind it and what is below them, when
\* the nodes of open are expanded.
Shown(x, t, open) ==
  LET rows[y \in Pointers] ==
        IF y = Null THEN {}
        ELSE {y} \cup (IF y \in open THEN rows[t.children[y]] ELSE {}) \cup rows[t.next[y]]
  IN  rows[x]

\* The same with everything expanded.
Under(x, t) == Shown(x, t, Nodes)

\* Their rows from top to bottom.
Listing(x, t, open, depth) ==
  LET list[y \in Pointers] == [d \in Nat |->
        IF y = Null THEN << >>
        ELSE (<<[node |-> y, depth |-> d]>>
                \o (IF y \in open THEN list[t.children[y]][d + 1] ELSE << >>))
                \o list[t.next[y]][d]]
  IN  list[x][depth]

\* What Listing is at the end of a list and at a node.
ListingFollows(t, open) ==
  /\ \A y \in Pointers, d \in Nat : Listing(y, t, open, d) \in Rows
  /\ \A d \in Nat : Listing(Null, t, open, d) = << >>
  /\ \A y \in Nodes, d \in Nat :
       Listing(y, t, open, d) =
         (<<[node |-> y, depth |-> d]>>
            \o (IF y \in open THEN Listing(t.children[y], t, open, d + 1) ELSE << >>))
            \o Listing(t.next[y], t, open, d)

\* g[x][depth][ray] is what _flatTreeInternal makes of ray from x on.
FlatTreeFollows(g, t, open, limit) ==
  /\ \A x : FlatTree(x, t, open, limit) = g[x][0][<< >>]
  /\ \A depth \in Nat, ray \in Rows : g[Null][depth][ray] = ray
  /\ \A y \in Nodes, depth \in Nat, ray \in Rows :
       g[y][depth][ray] =
         LET one == Append(ray, [node |-> y, depth |-> depth])
             below == IF y \in open THEN g[t.children[y]][depth + 1][one] ELSE one
         IN  IF Len(one) > limit THEN one ELSE g[t.next[y]][depth][below]

\* g[x] is the count from x on.
ChildCountFollows(g, t, recurse) ==
  /\ \A x : ChildCount(x, recurse, t) = g[t.children[x]]
  /\ g[Null] = 0
  /\ \A y \in Nodes :
       g[y] = 1 + (IF recurse THEN TotalSize(t.children[y], t) ELSE 0) + g[t.next[y]]

\* g[x][old] is what SetExpansionState makes of the flags old from x on.
ExpansionFollows(g, t, new) ==
  /\ \A x, open : SetExpansionState(x, new, t, open) = g[x][open]
  /\ \A old \in SUBSET Nodes : g[Null][old] = old
  /\ \A y \in Nodes : \A old \in SUBSET Nodes :
       g[y][old] = g[t.children[y]][g[t.next[y]][IF new THEN old \cup {y} ELSE old \ {y}]]

\* g[x][depth][out] is what PrintTreeItem makes of out from x on.
PrintFollows(g, t, into, shown) ==
  /\ \A x : PrintTreeItem(x, t, into, shown) = g[x][0][[count |-> 0, rows |-> << >>]].rows
  /\ \A depth \in Nat, out \in Printed : g[Null][depth][out] = out
  /\ \A y \in Nodes, depth \in Nat, out \in Printed :
       g[y][depth][out] =
         LET count == out.count + 1
             row == [node |-> y, depth |-> depth, count |-> count]
             one == [count |-> count,
                     rows |-> IF y \in shown THEN Append(out.rows, row) ELSE out.rows]
             below == IF y \in into THEN g[t.children[y]][depth + 1][one] ELSE one
         IN  g[t.next[y]][depth][below]

(* TotalSize at the end of a list and at a node.                           *)
LEMMA TotalSizeIs ==
  ASSUME NEW t, IsTree(t)
  PROVE  /\ \A y \in Pointers : TotalSize(y, t) \in Nat
         /\ TotalSize(Null, t) = 0
         /\ \A y \in Nodes :
              TotalSize(y, t) = 1 + TotalSize(t.children[y], t) + TotalSize(t.next[y], t)
<1> DEFINE V == Nat
           Step(y, i, j) == 1 + i + j
           Body(h, y) == IF y = Null THEN 0 ELSE 1 + h[t.children[y]] + h[t.next[y]]
<1>1. PICK base : base = 0
  OBVIOUS
<1>2. base \in V
  BY <1>1, Pointer DEF Pointers
<1>3. ASSUME NEW y \in Nodes, NEW i \in V, NEW j \in V
      PROVE  Step(y, i, j) \in V
  BY Pointer DEF Pointers
<1>4. ASSUME NEW h
      PROVE  /\ Body(h, Null) = base
             /\ \A y \in Nodes : Body(h, y) = Step(y, h[t.children[y]], h[t.next[y]])
  <2>1. Body(h, Null) = base
    BY <1>1
  <2>2. ASSUME NEW y \in Nodes
        PROVE  Body(h, y) = Step(y, h[t.children[y]], h[t.next[y]])
    <3>1. y # Null
      BY Pointer
    <3> QED
      BY <3>1
  <2> HIDE DEF Body, Step
  <2> QED
    BY <2>1, <2>2
<1> HIDE DEF V, Step, Body
<1>5. PICK step : step = [y \in Nodes |-> [i \in V |-> [j \in V |-> Step(y, i, j)]]]
  OBVIOUS
<1>6. step \in [Nodes -> [V -> [V -> V]]]
  BY <1>3, <1>5
<1>7. PICK f \in [Pointers -> V] : Follows(f, t, base, step, Nodes)
  BY <1>2, <1>6, DownRecursion
<1>8. \A y \in Pointers : f[y] = Body(f, y)
  <2>1. f[Null] = Body(f, Null)
    BY <1>4, <1>7 DEF Follows
  <2>2. \A y \in Nodes : f[y] = Step(y, f[t.children[y]], f[t.next[y]])
    BY <1>5, <1>7, Pointer DEF Follows
  <2> QED
    BY <1>4, <2>1, <2>2, Pointer
<1>9. f = [y \in Pointers |-> Body(f, y)]
  BY <1>7, <1>8
<1>10. PICK g : g = CHOOSE h : h = [y \in Pointers |-> Body(h, y)]
  OBVIOUS
<1>11. g = [y \in Pointers |-> Body(g, y)]
  BY <1>9, <1>10
<1>12. \A x : TotalSize(x, t) = g[x]
  BY <1>10 DEF TotalSize, Body
<1>13. g[Null] = base /\ \A y \in Nodes : g[y] = Step(y, g[t.children[y]], g[t.next[y]])
  BY <1>4, <1>11, Pointer
<1>14. \A y \in Pointers : g[y] \in V
  <2> DEFINE S == {y \in Pointers : g[y] \in V}
  <2>1. Null \in S
    BY <1>2, <1>13, Pointer
  <2>2. \A y \in Nodes : t.children[y] \in S /\ t.next[y] \in S => y \in S
    BY <1>3, <1>13, Pointer
  <2>3. \A y \in Pointers : y \in S
    <3> HIDE DEF S
    <3> QED
      BY <2>1, <2>2, DownInduction
  <2> QED
    BY <2>3
<1>15. g \in [Pointers -> V]
  BY <1>11, <1>14
<1> QED
  BY <1>1, <1>12, <1>13, <1>15, Pointer DEF V, Step

(* VisibleSize at the end of a list and at a node.                         *)
LEMMA VisibleSizeIs ==
  ASSUME NEW t, IsTree(t), NEW open
  PROVE  /\ \A y \in Pointers : VisibleSize(y, t, open) \in Nat
         /\ VisibleSize(Null, t, open) = 0
         /\ \A y \in Nodes :
              VisibleSize(y, t, open) =
                1 + (IF y \in open THEN VisibleSize(t.children[y], t, open) ELSE 0)
                  + VisibleSize(t.next[y], t, open)
<1> DEFINE V == Nat
           Step(y, i, j) == 1 + (IF y \in open THEN i ELSE 0) + j
           Body(h, y) == IF y = Null THEN 0
                         ELSE 1 + (IF y \in open THEN h[t.children[y]] ELSE 0) + h[t.next[y]]
<1>1. PICK base : base = 0
  OBVIOUS
<1>2. base \in V
  BY <1>1, Pointer DEF Pointers
<1>3. ASSUME NEW y \in Nodes, NEW i \in V, NEW j \in V
      PROVE  Step(y, i, j) \in V
  BY Pointer DEF Pointers
<1>4. ASSUME NEW h
      PROVE  /\ Body(h, Null) = base
             /\ \A y \in Nodes : Body(h, y) = Step(y, h[t.children[y]], h[t.next[y]])
  <2>1. Body(h, Null) = base
    BY <1>1
  <2>2. ASSUME NEW y \in Nodes
        PROVE  Body(h, y) = Step(y, h[t.children[y]], h[t.next[y]])
    <3>1. y # Null
      BY Pointer
    <3> QED
      BY <3>1
  <2> HIDE DEF Body, Step
  <2> QED
    BY <2>1, <2>2
<1> HIDE DEF V, Step, Body
<1>5. PICK step : step = [y \in Nodes |-> [i \in V |-> [j \in V |-> Step(y, i, j)]]]
  OBVIOUS
<1>6. step \in [Nodes -> [V -> [V -> V]]]
  BY <1>3, <1>5
<1>7. PICK f \in [Pointers -> V] : Follows(f, t, base, step, Nodes)
  BY <1>2, <1>6, DownRecursion
<1>8. \A y \in Pointers : f[y] = Body(f, y)
  <2>1. f[Null] = Body(f, Null)
    BY <1>4, <1>7 DEF Follows
  <2>2. \A y \in Nodes : f[y] = Step(y, f[t.children[y]], f[t.next[y]])
    BY <1>5, <1>7, Pointer DEF Follows
  <2> QED
    BY <1>4, <2>1, <2>2, Pointer
<1>9. f = [y \in Pointers |-> Body(f, y)]
  BY <1>7, <1>8
<1>10. PICK g : g = CHOOSE h : h = [y \in Pointers |-> Body(h, y)]
  OBVIOUS
<1>11. g = [y \in Pointers |-> Body(g, y)]
  BY <1>9, <1>10
<1>12. \A x : VisibleSize(x, t, open) = g[x]
  BY <1>10 DEF VisibleSize, Body
<1>13. g[Null] = base /\ \A y \in Nodes : g[y] = Step(y, g[t.children[y]], g[t.next[y]])
  BY <1>4, <1>11, Pointer
<1>14. \A y \in Pointers : g[y] \in V
  <2> DEFINE S == {y \in Pointers : g[y] \in V}
  <2>1. Null \in S
    BY <1>2, <1>13, Pointer
  <2>2. \A y \in Nodes : t.children[y] \in S /\ t.next[y] \in S => y \in S
    BY <1>3, <1>13, Pointer
  <2>3. \A y \in Pointers : y \in S
    <3> HIDE DEF S
    <3> QED
      BY <2>1, <2>2, DownInduction
  <2> QED
    BY <2>3
<1>15. g \in [Pointers -> V]
  BY <1>11, <1>14
<1> QED
  BY <1>1, <1>12, <1>13, <1>15, Pointer DEF V, Step

(* Size at the end of a list and at a node.                                *)
LEMMA SizeIs ==
  ASSUME NEW t, IsTree(t)
  PROVE  /\ \A y \in Pointers : Size(y, t) \in Nat
         /\ Size(Null, t) = 0
         /\ \A y \in Nodes : Size(y, t) = 1 + Size(t.next[y], t)
<1> DEFINE V == Nat
           Step(y, i, j) == 1 + j
           Body(h, y) == IF y = Null THEN 0 ELSE 1 + h[t.next[y]]
<1>1. PICK base : base = 0
  OBVIOUS
<1>2. base \in V
  BY <1>1, Pointer DEF Pointers
<1>3. ASSUME NEW y \in Nodes, NEW i \in V, NEW j \in V
      PROVE  Step(y, i, j) \in V
  BY Pointer DEF Pointers
<1>4. ASSUME NEW h
      PROVE  /\ Body(h, Null) = base
             /\ \A y \in Nodes : Body(h, y) = Step(y, h[t.children[y]], h[t.next[y]])
  <2>1. Body(h, Null) = base
    BY <1>1
  <2>2. ASSUME NEW y \in Nodes
        PROVE  Body(h, y) = Step(y, h[t.children[y]], h[t.next[y]])
    <3>1. y # Null
      BY Pointer
    <3> QED
      BY <3>1
  <2> HIDE DEF Body, Step
  <2> QED
    BY <2>1, <2>2
<1> HIDE DEF V, Step, Body
<1>5. PICK step : step = [y \in Nodes |-> [i \in V |-> [j \in V |-> Step(y, i, j)]]]
  OBVIOUS
<1>6. step \in [Nodes -> [V -> [V -> V]]]
  BY <1>3, <1>5
<1>7. PICK f \in [Pointers -> V] : Follows(f, t, base, step, Nodes)
  BY <1>2, <1>6, DownRecursion
<1>8. \A y \in Pointers : f[y] = Body(f, y)
  <2>1. f[Null] = Body(f, Null)
    BY <1>4, <1>7 DEF Follows
  <2>2. \A y \in Nodes : f[y] = Step(y, f[t.children[y]], f[t.next[y]])
    BY <1>5, <1>7, Pointer DEF Follows
  <2> QED
    BY <1>4, <2>1, <2>2, Pointer
<1>9. f = [y \in Pointers |-> Body(f, y)]
  BY <1>7, <1>8
<1>10. PICK g : g = CHOOSE h : h = [y \in Pointers |-> Body(h, y)]
  OBVIOUS
<1>11. g = [y \in Pointers |-> Body(g, y)]
  BY <1>9, <1>10
<1>12. \A x : Size(x, t) = g[x]
  BY <1>10 DEF Size, Body
<1>13. g[Null] = base /\ \A y \in Nodes : g[y] = Step(y, g[t.children[y]], g[t.next[y]])
  BY <1>4, <1>11, Pointer
<1>14. \A y \in Pointers : g[y] \in V
  <2> DEFINE S == {y \in Pointers : g[y] \in V}
  <2>1. Null \in S
    BY <1>2, <1>13, Pointer
  <2>2. \A y \in Nodes : t.children[y] \in S /\ t.next[y] \in S => y \in S
    BY <1>3, <1>13, Pointer
  <2>3. \A y \in Pointers : y \in S
    <3> HIDE DEF S
    <3> QED
      BY <2>1, <2>2, DownInduction
  <2> QED
    BY <2>3
<1>15. g \in [Pointers -> V]
  BY <1>11, <1>14
<1> QED
  BY <1>1, <1>12, <1>13, <1>15, Pointer DEF V, Step

(* LastSibling at the end of a list and at a node.                         *)
LEMMA LastSiblingIs ==
  ASSUME NEW t, IsTree(t)
  PROVE  /\ LastSibling(Null, t) = Null
         /\ \A y \in Nodes :
              LastSibling(y, t) = IF t.next[y] = Null THEN y ELSE LastSibling(t.next[y], t)
<1> DEFINE V == Pointers
           Step(y, i, j) == IF t.next[y] = Null THEN y ELSE j
           Body(h, y) == IF y = Null THEN Null ELSE IF t.next[y] = Null THEN y ELSE h[t.next[y]]
<1>1. PICK base : base = Null
  OBVIOUS
<1>2. base \in V
  BY <1>1, Pointer DEF Pointers
<1>3. ASSUME NEW y \in Nodes, NEW i \in V, NEW j \in V
      PROVE  Step(y, i, j) \in V
  BY Pointer DEF Pointers
<1>4. ASSUME NEW h
      PROVE  /\ Body(h, Null) = base
             /\ \A y \in Nodes : Body(h, y) = Step(y, h[t.children[y]], h[t.next[y]])
  <2>1. Body(h, Null) = base
    BY <1>1
  <2>2. ASSUME NEW y \in Nodes
        PROVE  Body(h, y) = Step(y, h[t.children[y]], h[t.next[y]])
    <3>1. y # Null
      BY Pointer
    <3> QED
      BY <3>1
  <2> HIDE DEF Body, Step
  <2> QED
    BY <2>1, <2>2
<1> HIDE DEF V, Step, Body
<1>5. PICK step : step = [y \in Nodes |-> [i \in V |-> [j \in V |-> Step(y, i, j)]]]
  OBVIOUS
<1>6. step \in [Nodes -> [V -> [V -> V]]]
  BY <1>3, <1>5
<1>7. PICK f \in [Pointers -> V] : Follows(f, t, base, step, Nodes)
  BY <1>2, <1>6, DownRecursion
<1>8. \A y \in Pointers : f[y] = Body(f, y)
  <2>1. f[Null] = Body(f, Null)
    BY <1>4, <1>7 DEF Follows
  <2>2. \A y \in Nodes : f[y] = Step(y, f[t.children[y]], f[t.next[y]])
    BY <1>5, <1>7, Pointer DEF Follows
  <2> QED
    BY <1>4, <2>1, <2>2, Pointer
<1>9. f = [y \in Pointers |-> Body(f, y)]
  BY <1>7, <1>8
<1>10. PICK g : g = CHOOSE h : h = [y \in Pointers |-> Body(h, y)]
  OBVIOUS
<1>11. g = [y \in Pointers |-> Body(g, y)]
  BY <1>9, <1>10
<1>12. \A x : LastSibling(x, t) = g[x]
  BY <1>10 DEF LastSibling, Body
<1>13. g[Null] = base /\ \A y \in Nodes : g[y] = Step(y, g[t.children[y]], g[t.next[y]])
  BY <1>4, <1>11, Pointer
<1>14. \A y \in Pointers : g[y] \in V
  <2> DEFINE S == {y \in Pointers : g[y] \in V}
  <2>1. Null \in S
    BY <1>2, <1>13, Pointer
  <2>2. \A y \in Nodes : t.children[y] \in S /\ t.next[y] \in S => y \in S
    BY <1>3, <1>13, Pointer
  <2>3. \A y \in Pointers : y \in S
    <3> HIDE DEF S
    <3> QED
      BY <2>1, <2>2, DownInduction
  <2> QED
    BY <2>3
<1>15. g \in [Pointers -> V]
  BY <1>11, <1>14
<1> QED
  BY <1>1, <1>12, <1>13, <1>15, Pointer DEF V, Step

(* Siblings at the end of a list and at a node.                            *)
LEMMA SiblingsAre ==
  ASSUME NEW t, IsTree(t)
  PROVE  /\ \A y \in Pointers : Siblings(y, t) \in SUBSET Nodes
         /\ Siblings(Null, t) = {}
         /\ \A y \in Nodes : Siblings(y, t) = {y} \cup Siblings(t.next[y], t)
<1> DEFINE V == (SUBSET Nodes)
           Step(y, i, j) == {y} \cup j
           Body(h, y) == IF y = Null THEN {} ELSE {y} \cup h[t.next[y]]
<1>1. PICK base : base = {}
  OBVIOUS
<1>2. base \in V
  BY <1>1, Pointer DEF Pointers
<1>3. ASSUME NEW y \in Nodes, NEW i \in V, NEW j \in V
      PROVE  Step(y, i, j) \in V
  BY Pointer DEF Pointers
<1>4. ASSUME NEW h
      PROVE  /\ Body(h, Null) = base
             /\ \A y \in Nodes : Body(h, y) = Step(y, h[t.children[y]], h[t.next[y]])
  <2>1. Body(h, Null) = base
    BY <1>1
  <2>2. ASSUME NEW y \in Nodes
        PROVE  Body(h, y) = Step(y, h[t.children[y]], h[t.next[y]])
    <3>1. y # Null
      BY Pointer
    <3> QED
      BY <3>1
  <2> HIDE DEF Body, Step
  <2> QED
    BY <2>1, <2>2
<1> HIDE DEF V, Step, Body
<1>5. PICK step : step = [y \in Nodes |-> [i \in V |-> [j \in V |-> Step(y, i, j)]]]
  OBVIOUS
<1>6. step \in [Nodes -> [V -> [V -> V]]]
  BY <1>3, <1>5
<1>7. PICK f \in [Pointers -> V] : Follows(f, t, base, step, Nodes)
  BY <1>2, <1>6, DownRecursion
<1>8. \A y \in Pointers : f[y] = Body(f, y)
  <2>1. f[Null] = Body(f, Null)
    BY <1>4, <1>7 DEF Follows
  <2>2. \A y \in Nodes : f[y] = Step(y, f[t.children[y]], f[t.next[y]])
    BY <1>5, <1>7, Pointer DEF Follows
  <2> QED
    BY <1>4, <2>1, <2>2, Pointer
<1>9. f = [y \in Pointers |-> Body(f, y)]
  BY <1>7, <1>8
<1>10. PICK g : g = CHOOSE h : h = [y \in Pointers |-> Body(h, y)]
  OBVIOUS
<1>11. g = [y \in Pointers |-> Body(g, y)]
  BY <1>9, <1>10
<1>12. \A x : Siblings(x, t) = g[x]
  BY <1>10 DEF Siblings, Body
<1>13. g[Null] = base /\ \A y \in Nodes : g[y] = Step(y, g[t.children[y]], g[t.next[y]])
  BY <1>4, <1>11, Pointer
<1>14. \A y \in Pointers : g[y] \in V
  <2> DEFINE S == {y \in Pointers : g[y] \in V}
  <2>1. Null \in S
    BY <1>2, <1>13, Pointer
  <2>2. \A y \in Nodes : t.children[y] \in S /\ t.next[y] \in S => y \in S
    BY <1>3, <1>13, Pointer
  <2>3. \A y \in Pointers : y \in S
    <3> HIDE DEF S
    <3> QED
      BY <2>1, <2>2, DownInduction
  <2> QED
    BY <2>3
<1>15. g \in [Pointers -> V]
  BY <1>11, <1>14
<1> QED
  BY <1>1, <1>12, <1>13, <1>15, Pointer DEF V, Step

(* FlatTree at the end of a list and at a node.                            *)
LEMMA FlatTreeIs ==
  ASSUME NEW t, IsTree(t), NEW open, NEW limit
  PROVE  \E g \in [Pointers -> [Nat -> [Rows -> Rows]]] :
           FlatTreeFollows(g, t, open, limit)
<1> DEFINE V == [Nat -> [Rows -> Rows]]
           Step(y, i, j) == [depth \in Nat |-> [ray \in Rows |->
             LET one == Append(ray, [node |-> y, depth |-> depth])
                 below == IF y \in open THEN i[depth + 1][one] ELSE one
             IN  IF Len(one) > limit THEN one ELSE j[depth][below]]]
           Body(h, y) == [depth \in Nat |-> [ray \in Rows |->
             IF y = Null THEN ray
             ELSE LET one == Append(ray, [node |-> y, depth |-> depth])
                      below == IF y \in open THEN h[t.children[y]][depth + 1][one] ELSE one
                  IN  IF Len(one) > limit THEN one ELSE h[t.next[y]][depth][below]]]
<1>1. PICK base : base = [depth \in Nat |-> [ray \in Rows |-> ray]]
  OBVIOUS
<1>2. base \in V
  BY <1>1, Pointer DEF Pointers
<1>3. ASSUME NEW y \in Nodes, NEW i \in V, NEW j \in V
      PROVE  Step(y, i, j) \in V
  <2>1. \A depth \in Nat, ray \in Rows :
          Append(ray, [node |-> y, depth |-> depth]) \in Rows
    BY DEF Rows
  <2>2. \A depth \in Nat, ray \in Rows : i[depth + 1][ray] \in Rows /\ j[depth][ray] \in Rows
    OBVIOUS
  <2> QED
    BY <2>1, <2>2
<1>4. ASSUME NEW h
      PROVE  /\ Body(h, Null) = base
             /\ \A y \in Nodes : Body(h, y) = Step(y, h[t.children[y]], h[t.next[y]])
  <2>1. Body(h, Null) = base
    BY <1>1
  <2>2. ASSUME NEW y \in Nodes
        PROVE  Body(h, y) = Step(y, h[t.children[y]], h[t.next[y]])
    <3>1. y # Null
      BY Pointer
    <3> QED
      BY <3>1
  <2> HIDE DEF Body, Step
  <2> QED
    BY <2>1, <2>2
<1> HIDE DEF V, Step, Body
<1>5. PICK step : step = [y \in Nodes |-> [i \in V |-> [j \in V |-> Step(y, i, j)]]]
  OBVIOUS
<1>6. step \in [Nodes -> [V -> [V -> V]]]
  BY <1>3, <1>5
<1>7. PICK f \in [Pointers -> V] : Follows(f, t, base, step, Nodes)
  BY <1>2, <1>6, DownRecursion
<1>8. \A y \in Pointers : f[y] = Body(f, y)
  <2>1. f[Null] = Body(f, Null)
    BY <1>4, <1>7 DEF Follows
  <2>2. \A y \in Nodes : f[y] = Step(y, f[t.children[y]], f[t.next[y]])
    BY <1>5, <1>7, Pointer DEF Follows
  <2> QED
    BY <1>4, <2>1, <2>2, Pointer
<1>9. f = [y \in Pointers |-> Body(f, y)]
  BY <1>7, <1>8
<1>10. PICK g : g = CHOOSE h : h = [y \in Pointers |-> Body(h, y)]
  OBVIOUS
<1>11. g = [y \in Pointers |-> Body(g, y)]
  BY <1>9, <1>10
<1>12. \A x : FlatTree(x, t, open, limit) = g[x][0][<< >>]
  BY <1>10 DEF FlatTree, Body
<1>13. g[Null] = base /\ \A y \in Nodes : g[y] = Step(y, g[t.children[y]], g[t.next[y]])
  BY <1>4, <1>11, Pointer
<1>14. \A y \in Pointers : g[y] \in V
  <2> DEFINE S == {y \in Pointers : g[y] \in V}
  <2>1. Null \in S
    BY <1>2, <1>13, Pointer
  <2>2. \A y \in Nodes : t.children[y] \in S /\ t.next[y] \in S => y \in S
    BY <1>3, <1>13, Pointer
  <2>3. \A y \in Pointers : y \in S
    <3> HIDE DEF S
    <3> QED
      BY <2>1, <2>2, DownInduction
  <2> QED
    BY <2>3
<1>15. g \in [Pointers -> V]
  BY <1>11, <1>14
<1> QED
  <2>1. \A depth \in Nat, ray \in Rows : g[Null][depth][ray] = ray
    BY <1>1, <1>13
  <2>2. ASSUME NEW y \in Nodes, NEW depth \in Nat, NEW ray \in Rows
        PROVE  g[y][depth][ray] =
                 LET one == Append(ray, [node |-> y, depth |-> depth])
                     below == IF y \in open THEN g[t.children[y]][depth + 1][one] ELSE one
                 IN  IF Len(one) > limit THEN one ELSE g[t.next[y]][depth][below]
    <3>1. PICK i, j : i = g[t.children[y]] /\ j = g[t.next[y]]
      OBVIOUS
    <3>2. g[y] = Step(y, i, j)
      BY <1>13, <3>1
    <3> USE DEF Step
    <3>3. g[y][depth][ray] =
            LET one == Append(ray, [node |-> y, depth |-> depth])
                below == IF y \in open THEN i[depth + 1][one] ELSE one
            IN  IF Len(one) > limit THEN one ELSE j[depth][below]
      BY <3>2
    <3> QED
      BY <3>1, <3>3
  <2> HIDE DEF Step
  <2>3. \A y \in Nodes, depth \in Nat, ray \in Rows :
          g[y][depth][ray] =
            LET one == Append(ray, [node |-> y, depth |-> depth])
                below == IF y \in open THEN g[t.children[y]][depth + 1][one] ELSE one
            IN  IF Len(one) > limit THEN one ELSE g[t.next[y]][depth][below]
    BY <2>2
  <2> QED
    BY <1>12, <1>15, <2>1, <2>3 DEF V, FlatTreeFollows

(* Shown at the end of a list and at a node.                               *)
LEMMA ShownIs ==
  ASSUME NEW t, IsTree(t), NEW open
  PROVE  /\ \A y \in Pointers : Shown(y, t, open) \in SUBSET Nodes
         /\ Shown(Null, t, open) = {}
         /\ \A y \in Nodes :
              Shown(y, t, open) =
                {y} \cup (IF y \in open THEN Shown(t.children[y], t, open) ELSE {})
                    \cup Shown(t.next[y], t, open)
<1> DEFINE V == (SUBSET Nodes)
           Step(y, i, j) == {y} \cup (IF y \in open THEN i ELSE {}) \cup j
           Body(h, y) == IF y = Null THEN {}
                         ELSE {y} \cup (IF y \in open THEN h[t.children[y]] ELSE {})
                                  \cup h[t.next[y]]
<1>1. PICK base : base = {}
  OBVIOUS
<1>2. base \in V
  BY <1>1, Pointer DEF Pointers
<1>3. ASSUME NEW y \in Nodes, NEW i \in V, NEW j \in V
      PROVE  Step(y, i, j) \in V
  BY Pointer DEF Pointers
<1>4. ASSUME NEW h
      PROVE  /\ Body(h, Null) = base
             /\ \A y \in Nodes : Body(h, y) = Step(y, h[t.children[y]], h[t.next[y]])
  <2>1. Body(h, Null) = base
    BY <1>1
  <2>2. ASSUME NEW y \in Nodes
        PROVE  Body(h, y) = Step(y, h[t.children[y]], h[t.next[y]])
    <3>1. y # Null
      BY Pointer
    <3> QED
      BY <3>1
  <2> HIDE DEF Body, Step
  <2> QED
    BY <2>1, <2>2
<1> HIDE DEF V, Step, Body
<1>5. PICK step : step = [y \in Nodes |-> [i \in V |-> [j \in V |-> Step(y, i, j)]]]
  OBVIOUS
<1>6. step \in [Nodes -> [V -> [V -> V]]]
  BY <1>3, <1>5
<1>7. PICK f \in [Pointers -> V] : Follows(f, t, base, step, Nodes)
  BY <1>2, <1>6, DownRecursion
<1>8. \A y \in Pointers : f[y] = Body(f, y)
  <2>1. f[Null] = Body(f, Null)
    BY <1>4, <1>7 DEF Follows
  <2>2. \A y \in Nodes : f[y] = Step(y, f[t.children[y]], f[t.next[y]])
    BY <1>5, <1>7, Pointer DEF Follows
  <2> QED
    BY <1>4, <2>1, <2>2, Pointer
<1>9. f = [y \in Pointers |-> Body(f, y)]
  BY <1>7, <1>8
<1>10. PICK g : g = CHOOSE h : h = [y \in Pointers |-> Body(h, y)]
  OBVIOUS
<1>11. g = [y \in Pointers |-> Body(g, y)]
  BY <1>9, <1>10
<1>12. \A x : Shown(x, t, open) = g[x]
  BY <1>10 DEF Shown, Body
<1>13. g[Null] = base /\ \A y \in Nodes : g[y] = Step(y, g[t.children[y]], g[t.next[y]])
  BY <1>4, <1>11, Pointer
<1>14. \A y \in Pointers : g[y] \in V
  <2> DEFINE S == {y \in Pointers : g[y] \in V}
  <2>1. Null \in S
    BY <1>2, <1>13, Pointer
  <2>2. \A y \in Nodes : t.children[y] \in S /\ t.next[y] \in S => y \in S
    BY <1>3, <1>13, Pointer
  <2>3. \A y \in Pointers : y \in S
    <3> HIDE DEF S
    <3> QED
      BY <2>1, <2>2, DownInduction
  <2> QED
    BY <2>3
<1>15. g \in [Pointers -> V]
  BY <1>11, <1>14
<1> QED
  BY <1>1, <1>12, <1>13, <1>15, Pointer DEF V, Step

(* Listing at the end of a list and at a node.                             *)
LEMMA ListingIs ==
  ASSUME NEW t, IsTree(t), NEW open
  PROVE  ListingFollows(t, open)
<1> DEFINE V == [Nat -> Rows]
           Step(y, i, j) == [d \in Nat |->
             (<<[node |-> y, depth |-> d]>> \o (IF y \in open THEN i[d + 1] ELSE << >>)) \o j[d]]
           Body(h, y) == [d \in Nat |->
             IF y = Null THEN << >>
             ELSE (<<[node |-> y, depth |-> d]>>
                     \o (IF y \in open THEN h[t.children[y]][d + 1] ELSE << >>))
                     \o h[t.next[y]][d]]
<1>1. PICK base : base = [d \in Nat |-> << >>]
  OBVIOUS
<1>2. base \in V
  <2>1. << >> \in Rows
    BY DEF Rows
  <2> QED
    BY <1>1, <2>1
<1>3. ASSUME NEW y \in Nodes, NEW i \in V, NEW j \in V
      PROVE  Step(y, i, j) \in V
  <2>1. \A d \in Nat : <<[node |-> y, depth |-> d]>> \in Rows
    BY DEF Rows
  <2>2. << >> \in Rows /\ \A d \in Nat : i[d + 1] \in Rows /\ j[d] \in Rows
    <3>1. << >> \in Rows
      BY DEF Rows
    <3> QED
      BY <3>1
  <2>3. \A p, q \in Rows : p \o q \in Rows
    BY DEF Rows
  <2>4. ASSUME NEW d \in Nat
        PROVE  (<<[node |-> y, depth |-> d]>> \o (IF y \in open THEN i[d + 1] ELSE << >>)) \o j[d]
                 \in Rows
    BY <2>1, <2>2, <2>3
  <2> QED
    BY <2>4
<1>4. ASSUME NEW h
      PROVE  /\ Body(h, Null) = base
             /\ \A y \in Nodes : Body(h, y) = Step(y, h[t.children[y]], h[t.next[y]])
  <2>1. Body(h, Null) = base
    BY <1>1
  <2>2. ASSUME NEW y \in Nodes
        PROVE  Body(h, y) = Step(y, h[t.children[y]], h[t.next[y]])
    <3>1. y # Null
      BY Pointer
    <3> QED
      BY <3>1
  <2> HIDE DEF Body, Step
  <2> QED
    BY <2>1, <2>2
<1> HIDE DEF V, Step, Body
<1>5. PICK step : step = [y \in Nodes |-> [i \in V |-> [j \in V |-> Step(y, i, j)]]]
  OBVIOUS
<1>6. step \in [Nodes -> [V -> [V -> V]]]
  BY <1>3, <1>5
<1>7. PICK f \in [Pointers -> V] : Follows(f, t, base, step, Nodes)
  BY <1>2, <1>6, DownRecursion
<1>8. \A y \in Pointers : f[y] = Body(f, y)
  <2>1. f[Null] = Body(f, Null)
    BY <1>4, <1>7 DEF Follows
  <2>2. \A y \in Nodes : f[y] = Step(y, f[t.children[y]], f[t.next[y]])
    BY <1>5, <1>7, Pointer DEF Follows
  <2> QED
    BY <1>4, <2>1, <2>2, Pointer
<1>9. f = [y \in Pointers |-> Body(f, y)]
  BY <1>7, <1>8
<1>10. PICK g : g = CHOOSE h : h = [y \in Pointers |-> Body(h, y)]
  OBVIOUS
<1>11. g = [y \in Pointers |-> Body(g, y)]
  BY <1>9, <1>10
<1>12. \A x, d : Listing(x, t, open, d) = g[x][d]
  BY <1>10 DEF Listing, Body
<1>13. g[Null] = base /\ \A y \in Nodes : g[y] = Step(y, g[t.children[y]], g[t.next[y]])
  BY <1>4, <1>11, Pointer
<1>14. \A y \in Pointers : g[y] \in V
  <2> DEFINE S == {y \in Pointers : g[y] \in V}
  <2>1. Null \in S
    BY <1>2, <1>13, Pointer
  <2>2. \A y \in Nodes : t.children[y] \in S /\ t.next[y] \in S => y \in S
    BY <1>3, <1>13, Pointer
  <2>3. \A y \in Pointers : y \in S
    <3> HIDE DEF S
    <3> QED
      BY <2>1, <2>2, DownInduction
  <2> QED
    BY <2>3
<1>15. g \in [Pointers -> V]
  BY <1>11, <1>14
<1> QED
  <2>1. \A d \in Nat : g[Null][d] = << >>
    BY <1>1, <1>13
  <2>2. ASSUME NEW y \in Nodes, NEW d \in Nat
        PROVE  g[y][d] =
                 (<<[node |-> y, depth |-> d]>>
                    \o (IF y \in open THEN g[t.children[y]][d + 1] ELSE << >>))
                    \o g[t.next[y]][d]
    <3>1. PICK i, j : i = g[t.children[y]] /\ j = g[t.next[y]]
      OBVIOUS
    <3>2. g[y] = Step(y, i, j)
      BY <1>13, <3>1
    <3> USE DEF Step
    <3>3. g[y][d] =
            (<<[node |-> y, depth |-> d]>> \o (IF y \in open THEN i[d + 1] ELSE << >>)) \o j[d]
      BY <3>2
    <3> QED
      BY <3>1, <3>3
  <2>3. \A y \in Pointers, d \in Nat : g[y][d] \in Rows
    BY <1>15 DEF V
  <2>4. ASSUME NEW y \in Nodes, NEW d \in Nat
        PROVE  Listing(y, t, open, d) =
                 (<<[node |-> y, depth |-> d]>>
                    \o (IF y \in open THEN Listing(t.children[y], t, open, d + 1) ELSE << >>))
                    \o Listing(t.next[y], t, open, d)
    <3>1. /\ Listing(y, t, open, d) = g[y][d]
          /\ Listing(t.children[y], t, open, d + 1) = g[t.children[y]][d + 1]
          /\ Listing(t.next[y], t, open, d) = g[t.next[y]][d]
      BY <1>12
    <3> QED
      BY <2>2, <3>1
  <2>5. \A d \in Nat : Listing(Null, t, open, d) = << >>
    BY <1>12, <2>1
  <2>6. \A y \in Pointers, d \in Nat : Listing(y, t, open, d) \in Rows
    BY <1>12, <2>3
  <2> QED
    BY <2>4, <2>5, <2>6 DEF ListingFollows

(* Ancestors.                                                              *)
LEMMA AncestorsAre ==
  ASSUME NEW t, IsTree(t)
  PROVE  \A y \in Nodes :
           /\ Ancestors(y, t) \in SUBSET Nodes
           /\ t.parent[y] = Null => Ancestors(y, t) = {}
           /\ t.parent[y] # Null =>
                Ancestors(y, t) = {t.parent[y]} \cup Ancestors(t.parent[y], t)
<1> DEFINE V == SUBSET Nodes
           Step(y, i) == IF t.parent[y] = Null THEN {} ELSE {t.parent[y]} \cup i
           Body(h, y) == IF t.parent[y] = Null THEN {} ELSE {t.parent[y]} \cup h[t.parent[y]]
<1>1. \A y \in Nodes : \A i \in V : Step(y, i) \in V
  BY Pointer DEF Pointers
<1>2. ASSUME NEW h, NEW y \in Nodes
      PROVE  Body(h, y) = Step(y, IF t.parent[y] = Null THEN {} ELSE h[t.parent[y]])
  OBVIOUS
<1>3. {} \in V
  OBVIOUS
<1> HIDE DEF V, Step, Body
<1>4. PICK step : step = [y \in Nodes |-> [i \in V |-> Step(y, i)]]
  OBVIOUS
<1>5. step \in [Nodes -> [V -> V]]
  BY <1>1, <1>4
<1>6. PICK f \in [Nodes -> V] : Rises(f, t, {}, step)
  BY <1>3, <1>5, UpRecursion
<1>7. \A y \in Nodes : f[y] = Body(f, y)
  <2> SUFFICES ASSUME NEW y \in Nodes PROVE f[y] = Body(f, y)
    OBVIOUS
  <2>1. PICK i : i = IF t.parent[y] = Null THEN {} ELSE f[t.parent[y]]
    OBVIOUS
  <2>2. i \in V
    BY <1>3, <1>6, <2>1, Pointer DEF Pointers
  <2>3. f[y] = Step(y, i)
    BY <1>4, <1>6, <2>1, <2>2 DEF Rises
  <2> QED
    BY <1>2, <2>1, <2>3
<1>8. f = [y \in Nodes |-> Body(f, y)]
  BY <1>6, <1>7
<1>9. PICK g : g = CHOOSE h : h = [y \in Nodes |-> Body(h, y)]
  OBVIOUS
<1>10. g = [y \in Nodes |-> Body(g, y)]
  BY <1>8, <1>9
<1>11. \A y : Ancestors(y, t) = g[y]
  BY <1>9 DEF Ancestors, Body
<1>12. \A y \in Nodes : Ancestors(y, t) \in V
  <2> DEFINE S == {y \in Nodes : g[y] \in V}
  <2>1. ASSUME NEW y \in Nodes, t.parent[y] = Null \/ t.parent[y] \in S
        PROVE  y \in S
    BY <1>1, <1>2, <1>3, <1>10, <2>1
  <2>2. \A y \in Nodes : y \in S
    <3> HIDE DEF S
    <3> QED
      BY <2>1, UpInduction
  <2> QED
    BY <1>11, <2>2
<1> QED
  BY <1>10, <1>11, <1>12, Pointer DEF V, Body

(* ComputedDepth.                                                          *)
LEMMA DepthIs ==
  ASSUME NEW t, IsTree(t)
  PROVE  \A y \in Nodes :
           /\ ComputedDepth(y, t) \in Nat
           /\ t.parent[y] = Null => ComputedDepth(y, t) = 0
           /\ t.parent[y] # Null => ComputedDepth(y, t) = 1 + ComputedDepth(t.parent[y], t)
<1> DEFINE V == Nat
           Step(y, i) == IF t.parent[y] = Null THEN 0 ELSE 1 + i
           Body(h, y) == IF t.parent[y] = Null THEN 0 ELSE 1 + h[t.parent[y]]
<1>1. \A y \in Nodes : \A i \in V : Step(y, i) \in V
  OBVIOUS
<1>2. ASSUME NEW h, NEW y \in Nodes
      PROVE  Body(h, y) = Step(y, IF t.parent[y] = Null THEN 0 ELSE h[t.parent[y]])
  OBVIOUS
<1>3. 0 \in V
  OBVIOUS
<1> HIDE DEF V, Step, Body
<1>4. PICK step : step = [y \in Nodes |-> [i \in V |-> Step(y, i)]]
  OBVIOUS
<1>5. step \in [Nodes -> [V -> V]]
  BY <1>1, <1>4
<1>6. PICK f \in [Nodes -> V] : Rises(f, t, 0, step)
  BY <1>3, <1>5, UpRecursion
<1>7. \A y \in Nodes : f[y] = Body(f, y)
  <2> SUFFICES ASSUME NEW y \in Nodes PROVE f[y] = Body(f, y)
    OBVIOUS
  <2>1. PICK i : i = IF t.parent[y] = Null THEN 0 ELSE f[t.parent[y]]
    OBVIOUS
  <2>2. i \in V
    BY <1>3, <1>6, <2>1, Pointer DEF Pointers
  <2>3. f[y] = Step(y, i)
    BY <1>4, <1>6, <2>1, <2>2 DEF Rises
  <2> QED
    BY <1>2, <2>1, <2>3
<1>8. f = [y \in Nodes |-> Body(f, y)]
  BY <1>6, <1>7
<1>9. PICK g : g = CHOOSE h : h = [y \in Nodes |-> Body(h, y)]
  OBVIOUS
<1>10. g = [y \in Nodes |-> Body(g, y)]
  BY <1>8, <1>9
<1>11. \A y : ComputedDepth(y, t) = g[y]
  BY <1>9 DEF ComputedDepth, Body
<1>12. \A y \in Nodes : ComputedDepth(y, t) \in V
  <2> DEFINE S == {y \in Nodes : g[y] \in V}
  <2>1. ASSUME NEW y \in Nodes, t.parent[y] = Null \/ t.parent[y] \in S
        PROVE  y \in S
    BY <1>1, <1>2, <1>3, <1>10, <2>1
  <2>2. \A y \in Nodes : y \in S
    <3> HIDE DEF S
    <3> QED
      BY <2>1, UpInduction
  <2> QED
    BY <1>11, <2>2
<1> QED
  BY <1>10, <1>11, <1>12, Pointer DEF V, Body

-----------------------------------------------------------------------------
(* Ancestors and siblings *)

(* Ancestors have smaller numbers than a node, later siblings larger ones. *)
LEMMA AncestorsBefore ==
  ASSUME NEW t, IsTree(t), NEW order, NEW last, IsOrder(t, order, last)
  PROVE  \A n \in Nodes : \A a \in Ancestors(n, t) : a \in Nodes /\ order[a] < order[n]
<1> DEFINE S == {n \in Nodes : \A a \in Ancestors(n, t) : a \in Nodes /\ order[a] < order[n]}
<1>1. ASSUME NEW n \in Nodes, t.parent[n] = Null \/ t.parent[n] \in S
      PROVE  n \in S
  <2>1. CASE t.parent[n] = Null
    BY <2>1, AncestorsAre
  <2>2. CASE t.parent[n] # Null
    <3>1. t.parent[n] \in Nodes /\ order[t.parent[n]] < order[n]
      BY <2>2, Linked DEF IsOrder
    <3>2. Ancestors(n, t) = {t.parent[n]} \cup Ancestors(t.parent[n], t)
      BY <2>2, AncestorsAre
    <3>3. \A a \in Ancestors(t.parent[n], t) : a \in Nodes /\ order[a] < order[t.parent[n]]
      BY <1>1, <2>2
    <3>4. \A a \in Nodes : order[a] \in Nat
      BY DEF IsOrder
    <3>5. ASSUME NEW a \in Ancestors(n, t)
          PROVE  a \in Nodes /\ order[a] < order[n]
      BY <3>1, <3>2, <3>3, <3>4
    <3> QED
      BY <3>5
  <2> QED
    BY <2>1, <2>2
<1>2. \A n \in Nodes : n \in S
  <2> HIDE DEF S
  <2> QED
    BY <1>1, UpInduction
<1> QED
  BY <1>2

(* The siblings from x on come no earlier than x.                          *)
LEMMA SiblingsBehind ==
  ASSUME NEW t, IsTree(t), NEW order, NEW last, IsOrder(t, order, last)
  PROVE  \A x \in Pointers : \A n \in Siblings(x, t) :
           n \in Nodes /\ x \in Nodes /\ order[x] <= order[n]
<1> DEFINE S == {x \in Pointers : \A n \in Siblings(x, t) :
                   n \in Nodes /\ x \in Nodes /\ order[x] <= order[n]}
<1>1. Null \in S
  BY SiblingsAre, Pointer
<1>2. ASSUME NEW x \in Nodes, t.children[x] \in S, t.next[x] \in S
      PROVE  x \in S
  <2>1. Siblings(x, t) = {x} \cup Siblings(t.next[x], t)
    BY SiblingsAre
  <2>2. \A a \in Nodes : order[a] \in Nat
    BY DEF IsOrder
  <2>3. ASSUME NEW n \in Siblings(t.next[x], t)
        PROVE  n \in Nodes /\ order[x] <= order[n]
    <3>1. n \in Nodes /\ t.next[x] \in Nodes /\ order[t.next[x]] <= order[n]
      BY <1>2
    <3>2. order[x] < order[t.next[x]]
      BY <3>1, Pointer DEF IsOrder
    <3> QED
      BY <2>2, <3>1, <3>2
  <2>4. order[x] <= order[x]
    BY <2>2
  <2> QED
    BY <2>1, <2>3, <2>4, Pointer
<1>3. \A x \in Pointers : x \in S
  <2> HIDE DEF S
  <2> QED
    BY <1>1, <1>2, DownInduction
<1> QED
  BY <1>3

(* The nodes above a node above n are above n.                             *)
LEMMA AncestorsClosed ==
  ASSUME NEW t, IsTree(t)
  PROVE  \A n \in Nodes : \A a \in Ancestors(n, t) : Ancestors(a, t) \subseteq Ancestors(n, t)
<1> DEFINE S == {n \in Nodes : \A a \in Ancestors(n, t) :
                   Ancestors(a, t) \subseteq Ancestors(n, t)}
<1>1. ASSUME NEW n \in Nodes, t.parent[n] = Null \/ t.parent[n] \in S
      PROVE  n \in S
  BY <1>1, AncestorsAre
<1>2. \A n \in Nodes : n \in S
  <2> HIDE DEF S
  <2> QED
    BY <1>1, UpInduction
<1> QED
  BY <1>2

\* n and the nodes above it.
Line(n, t) == Ancestors(n, t) \cup {n}

(* No node is above itself, and of two nodes on a line one is above the    *)
(* other.                                                                  *)
LEMMA Lines ==
  ASSUME NEW t, IsTree(t)
  PROVE  \A n \in Nodes :
           /\ n \notin Ancestors(n, t)
           /\ Line(n, t) \subseteq Nodes
           /\ \A a, b \in Line(n, t) :
                a = b \/ a \in Ancestors(b, t) \/ b \in Ancestors(a, t)
<1>1. \A n \in Nodes : n \notin Ancestors(n, t)
  <2>1. PICK order, last : IsOrder(t, order, last)
    BY Ordered
  <2>2. \A n \in Nodes : order[n] \in Nat
    BY <2>1 DEF IsOrder
  <2> QED
    BY <2>1, <2>2, AncestorsBefore
<1>2. \A n \in Nodes : Line(n, t) \subseteq Nodes
  BY AncestorsAre DEF Line
<1> DEFINE S == {n \in Nodes : \A a, b \in Line(n, t) :
                   a = b \/ a \in Ancestors(b, t) \/ b \in Ancestors(a, t)}
<1>3. ASSUME NEW n \in Nodes, t.parent[n] = Null \/ t.parent[n] \in S
      PROVE  n \in S
  <2>1. CASE t.parent[n] = Null
    BY <2>1, AncestorsAre DEF Line
  <2>2. CASE t.parent[n] # Null
    <3>1. Line(n, t) = {n} \cup Line(t.parent[n], t)
      BY <2>2, AncestorsAre DEF Line
    <3>2. \A a \in Line(t.parent[n], t) : a \in Ancestors(n, t)
      BY <2>2, AncestorsAre DEF Line
    <3> QED
      BY <1>3, <2>2, <3>1, <3>2
  <2> QED
    BY <2>1, <2>2
<1>4. \A n \in Nodes : n \in S
  <2> HIDE DEF S
  <2> QED
    BY <1>3, UpInduction
<1> QED
  BY <1>1, <1>2, <1>4

(* Siblings have one parent, and so the same nodes above them and the same *)
(* depth.                                                                  *)
LEMMA SameParent ==
  ASSUME NEW t, IsTree(t)
  PROVE  \A x \in Pointers : \A n \in Siblings(x, t) :
           /\ n \in Nodes /\ x \in Nodes
           /\ t.parent[n] = t.parent[x]
           /\ Ancestors(n, t) = Ancestors(x, t)
           /\ ComputedDepth(n, t) = ComputedDepth(x, t)
<1> DEFINE S == {x \in Pointers : \A n \in Siblings(x, t) :
                   n \in Nodes /\ x \in Nodes /\ t.parent[n] = t.parent[x]}
<1>1. Null \in S
  BY SiblingsAre, Pointer
<1>2. ASSUME NEW x \in Nodes, t.children[x] \in S, t.next[x] \in S
      PROVE  x \in S
  <2>1. Siblings(x, t) = {x} \cup Siblings(t.next[x], t)
    BY SiblingsAre
  <2>2. ASSUME NEW n \in Siblings(t.next[x], t)
        PROVE  n \in Nodes /\ t.parent[n] = t.parent[x]
    <3>1. n \in Nodes /\ t.next[x] \in Nodes /\ t.parent[n] = t.parent[t.next[x]]
      BY <1>2
    <3> QED
      BY <3>1, Linked, Pointer
  <2> QED
    BY <2>1, <2>2, Pointer
<1>3. \A x \in Pointers : x \in S
  <2> HIDE DEF S
  <2> QED
    BY <1>1, <1>2, DownInduction
<1>4. \A m, n \in Nodes : t.parent[m] = t.parent[n] =>
        Ancestors(m, t) = Ancestors(n, t) /\ ComputedDepth(m, t) = ComputedDepth(n, t)
  <2> SUFFICES ASSUME NEW m \in Nodes, NEW n \in Nodes, t.parent[m] = t.parent[n]
               PROVE  /\ Ancestors(m, t) = Ancestors(n, t)
                      /\ ComputedDepth(m, t) = ComputedDepth(n, t)
    OBVIOUS
  <2>1. CASE t.parent[m] = Null
    BY <2>1, AncestorsAre, DepthIs
  <2>2. CASE t.parent[m] # Null
    BY <2>2, AncestorsAre, DepthIs
  <2> QED
    BY <2>1, <2>2
<1> QED
  BY <1>3, <1>4

(* The list from a node on holds the list from each node in it on.         *)
LEMMA SiblingsClosed ==
  ASSUME NEW t, IsTree(t)
  PROVE  \A x \in Pointers : \A n \in Siblings(x, t) :
           /\ n \in Siblings(n, t)
           /\ Siblings(t.next[n], t) \subseteq Siblings(x, t)
<1> DEFINE S == {x \in Pointers : \A n \in Siblings(x, t) :
                   Siblings(t.next[n], t) \subseteq Siblings(x, t)}
<1>1. Null \in S
  BY SiblingsAre, Pointer
<1>2. ASSUME NEW x \in Nodes, t.children[x] \in S, t.next[x] \in S
      PROVE  x \in S
  <2>1. Siblings(x, t) = {x} \cup Siblings(t.next[x], t)
    BY SiblingsAre
  <2> QED
    BY <1>2, <2>1, Pointer
<1>3. \A x \in Pointers : x \in S
  <2> HIDE DEF S
  <2> QED
    BY <1>1, <1>2, DownInduction
<1>4. \A x \in Pointers : \A n \in Siblings(x, t) : n \in Nodes
  BY SiblingsAre
<1>5. \A n \in Nodes : n \in Siblings(n, t)
  BY SiblingsAre
<1> QED
  BY <1>3, <1>4, <1>5

(* No node is among the siblings behind it.                                *)
LEMMA NotBehindItself ==
  ASSUME NEW t, IsTree(t), NEW x \in Nodes
  PROVE  x \notin Siblings(t.next[x], t)
<1>1. PICK order, last : IsOrder(t, order, last)
  BY Ordered
<1> SUFFICES ASSUME x \in Siblings(t.next[x], t) PROVE FALSE
  OBVIOUS
<1>2. t.next[x] \in Nodes /\ order[t.next[x]] <= order[x]
  BY <1>1, SiblingsBehind, Pointer
<1>3. order[x] < order[t.next[x]]
  BY <1>1, <1>2, Pointer DEF IsOrder
<1>4. order[x] \in Nat /\ order[t.next[x]] \in Nat
  BY <1>1, <1>2 DEF IsOrder
<1> QED
  BY <1>2, <1>3, <1>4

(* A node is found among its parent's children.                            *)
LEMMA ChildrenAreListed ==
  ASSUME NEW t, IsTree(t)
  PROVE  \A n \in Nodes : t.parent[n] # Null => n \in Siblings(t.children[t.parent[n]], t)
<1> DEFINE S == {n \in Nodes : t.parent[n] # Null =>
                   n \in Siblings(t.children[t.parent[n]], t)}
<1> SUFFICES ASSUME NEW x \in Nodes, x \notin S PROVE FALSE
  OBVIOUS
<1>1. PICK order, last : IsOrder(t, order, last)
  BY Ordered
<1> DEFINE T == {order[y] : y \in Nodes \ S}
<1>2. T \in SUBSET Nat /\ T # {}
  BY <1>1 DEF IsOrder
<1>3. PICK m \in T : \A k \in T : m <= k
  BY <1>2, Least
<1>4. PICK n \in Nodes \ S : m = order[n]
  OBVIOUS
<1>5. \A z \in Nodes : order[z] < order[n] => z \in S
  <2> SUFFICES ASSUME NEW z \in Nodes, order[z] < order[n], z \notin S PROVE FALSE
    OBVIOUS
  <2>1. order[n] <= order[z]
    BY <1>3, <1>4
  <2>2. order[n] \in Nat /\ order[z] \in Nat
    BY <1>1 DEF IsOrder
  <2> QED
    BY <2>1, <2>2
<1>6. t.parent[n] # Null /\ n \notin Siblings(t.children[t.parent[n]], t)
  BY <1>4
<1>7. t.parent[n] \in Nodes /\ t.children[t.parent[n]] \in Pointers
  BY <1>6, Linked, Pointer
<1>8. n \in Siblings(n, t)
  BY SiblingsAre
<1>9. PICK p \in Nodes : t.next[p] = n
  BY <1>6, <1>8, Linked
<1>10. t.parent[p] = t.parent[n] /\ order[p] < order[n]
  BY <1>1, <1>9, Linked, Pointer DEF IsOrder
<1>11. p \in Siblings(t.children[t.parent[n]], t)
  BY <1>5, <1>6, <1>10
<1>12. Siblings(n, t) \subseteq Siblings(t.children[t.parent[n]], t)
  BY <1>7, <1>9, <1>11, SiblingsClosed
<1> QED
  BY <1>6, <1>8, <1>12

(* No node is shown above itself.                                          *)
LEMMA NotAboveItself ==
  ASSUME NEW t, IsTree(t), NEW n \in Nodes
  PROVE  ~Above(n, n, t)
<1> SUFFICES ASSUME NEW a \in Line(n, t), NEW b \in Line(n, t), b \in Siblings(t.next[a], t)
             PROVE  FALSE
  BY Lines DEF Above, Line
<1>1. a \in Nodes /\ b \in Nodes
  BY Lines
<1>2. t.next[a] \in Nodes /\ t.parent[b] = t.parent[t.next[a]]
  BY <1>1, SameParent, Pointer
<1>3. t.parent[a] # Null /\ t.parent[b] = t.parent[a]
  BY <1>1, <1>2, Linked, Pointer
<1>4. a # b
  BY <1>1, NotBehindItself
<1>5. a \in Ancestors(b, t) \/ b \in Ancestors(a, t)
  BY <1>4, Lines
<1>6. Ancestors(a, t) = Ancestors(b, t)
  BY <1>1, <1>3, AncestorsAre
<1> QED
  BY <1>1, <1>5, <1>6, Lines

-----------------------------------------------------------------------------
(* The nodes of a list and below it *)

\* What is known of a node n shown of the list from x on.
Belongs(n, x, t, open) ==
  /\ n \in Nodes /\ x \in Nodes
  /\ Ancestors(x, t) \subseteq Ancestors(n, t)
  /\ Ancestors(n, t) \subseteq Ancestors(x, t) \cup open
  /\ \E b \in Line(n, t) : b \in Siblings(x, t)

(* Nodes are shown from a sibling of x or below one that is expanded.      *)
LEMMA ShownBelong ==
  ASSUME NEW t, IsTree(t), NEW open
  PROVE  \A x \in Pointers : \A n \in Shown(x, t, open) : Belongs(n, x, t, open)
<1> DEFINE S == {x \in Pointers : \A n \in Shown(x, t, open) : Belongs(n, x, t, open)}
<1>1. Null \in S
  BY ShownIs, Pointer
<1>2. ASSUME NEW x \in Nodes, t.children[x] \in S, t.next[x] \in S
      PROVE  x \in S
  <2>1. x \in Siblings(x, t) /\ Siblings(t.next[x], t) \subseteq Siblings(x, t)
    BY SiblingsAre
  <2>2. Belongs(x, x, t, open)
    BY <2>1 DEF Belongs, Line
  <2>3. ASSUME x \in open, NEW n \in Shown(t.children[x], t, open)
        PROVE  Belongs(n, x, t, open)
    <3>1. Belongs(n, t.children[x], t, open)
      BY <1>2, <2>3
    <3>2. t.children[x] \in Nodes /\ t.parent[t.children[x]] = x /\ x # Null
      BY <3>1, Linked, Pointer DEF Belongs
    <3>3. Ancestors(t.children[x], t) = {x} \cup Ancestors(x, t)
      BY <3>2, AncestorsAre
    <3> QED
      BY <2>1, <2>3, <3>1, <3>3 DEF Belongs, Line
  <2>4. ASSUME NEW n \in Shown(t.next[x], t, open)
        PROVE  Belongs(n, x, t, open)
    <3>1. Belongs(n, t.next[x], t, open)
      BY <1>2
    <3>2. t.next[x] \in Siblings(x, t)
      BY <2>1, <3>1, SiblingsAre DEF Belongs
    <3>3. Ancestors(t.next[x], t) = Ancestors(x, t)
      BY <3>2, SameParent, Pointer
    <3> QED
      BY <2>1, <3>1, <3>3 DEF Belongs
  <2>5. Shown(x, t, open) = {x} \cup (IF x \in open THEN Shown(t.children[x], t, open) ELSE {})
                                \cup Shown(t.next[x], t, open)
    BY ShownIs
  <2> HIDE DEF Belongs
  <2> QED
    BY <2>2, <2>3, <2>4, <2>5, Pointer
<1>3. \A x \in Pointers : x \in S
  <2> HIDE DEF S
  <2> QED
    BY <1>1, <1>2, DownInduction
<1> QED
  BY <1>3

(* The nodes shown of x's children are below x; those of the siblings      *)
(* behind it are not, and come below them on the screen.                   *)
LEMMA ShownApart ==
  ASSUME NEW t, IsTree(t), NEW x \in Nodes, NEW some, NEW others
  PROVE  /\ \A p \in Shown(t.children[x], t, some) :
              /\ x \in Ancestors(p, t) /\ p \in Nodes /\ p # x
              /\ Above(x, p, t)
         /\ \A q \in Shown(t.next[x], t, others) :
              Above(x, q, t) /\ q \in Nodes /\ q # x
         /\ \A p \in Shown(t.children[x], t, some) : \A q \in Shown(t.next[x], t, others) :
              Above(p, q, t) /\ p # q
<1>1. ASSUME NEW p \in Shown(t.children[x], t, some)
      PROVE  x \in Ancestors(p, t) /\ p \in Nodes
  <2>1. Belongs(p, t.children[x], t, some)
    BY ShownBelong, Pointer
  <2>2. t.children[x] \in Nodes /\ t.parent[t.children[x]] = x /\ x # Null
    BY <2>1, Linked, Pointer DEF Belongs
  <2>3. x \in Ancestors(t.children[x], t)
    BY <2>2, AncestorsAre
  <2> QED
    BY <2>1, <2>3 DEF Belongs
<1>2. ASSUME NEW q \in Shown(t.next[x], t, others)
      PROVE  q \in Nodes /\ \E b \in Ancestors(q, t) \cup {q} : b \in Siblings(t.next[x], t)
  <2>1. Belongs(q, t.next[x], t, others)
    BY ShownBelong, Pointer
  <2> QED
    BY <2>1 DEF Belongs, Line
<1>3. \A p \in Shown(t.children[x], t, some) : Above(x, p, t)
  BY <1>1 DEF Above
<1>4. \A q \in Shown(t.next[x], t, others) : Above(x, q, t)
  BY <1>2 DEF Above
<1>5. \A p \in Shown(t.children[x], t, some) : \A q \in Shown(t.next[x], t, others) :
        Above(p, q, t)
  BY <1>1, <1>2 DEF Above
<1> QED
  BY <1>1, <1>2, <1>3, <1>4, <1>5, NotAboveItself

(* From Null on nothing is shown.                                          *)
LEMMA ShownOnlyFromNodes ==
  ASSUME NEW t, IsTree(t), NEW open
  PROVE  \A x \in Pointers : Shown(x, t, open) # {} => x \in Nodes
BY ShownIs, Pointer

(* A list is shown whole, and below an expanded node that is shown its     *)
(* children are.                                                           *)
LEMMA ShownClosed ==
  ASSUME NEW t, IsTree(t), NEW open
  PROVE  \A x \in Pointers :
           /\ Siblings(x, t) \subseteq Shown(x, t, open)
           /\ \A p \in Shown(x, t, open) :
                p \in open => Shown(t.children[p], t, open) \subseteq Shown(x, t, open)
<1> DEFINE S == {x \in Pointers :
                   /\ Siblings(x, t) \subseteq Shown(x, t, open)
                   /\ \A p \in Shown(x, t, open) :
                        p \in open => Shown(t.children[p], t, open) \subseteq Shown(x, t, open)}
<1>1. Null \in S
  BY ShownIs, SiblingsAre, Pointer
<1>2. ASSUME NEW x \in Nodes, t.children[x] \in S, t.next[x] \in S
      PROVE  x \in S
  <2>1. Siblings(x, t) = {x} \cup Siblings(t.next[x], t)
    BY SiblingsAre
  <2>2. Shown(x, t, open) = {x} \cup (IF x \in open THEN Shown(t.children[x], t, open) ELSE {})
                                \cup Shown(t.next[x], t, open)
    BY ShownIs
  <2>3. Siblings(x, t) \subseteq Shown(x, t, open)
    BY <1>2, <2>1, <2>2
  <2>4. ASSUME NEW p \in Shown(x, t, open), p \in open
        PROVE  Shown(t.children[p], t, open) \subseteq Shown(x, t, open)
    BY <1>2, <2>2, <2>4
  <2> QED
    BY <2>3, <2>4, Pointer
<1>3. \A x \in Pointers : x \in S
  <2> HIDE DEF S
  <2> QED
    BY <1>1, <1>2, DownInduction
<1> QED
  BY <1>3

(* The nodes above a node of the tree are in the tree.                     *)
LEMMA ReachedUp ==
  ASSUME NEW t, IsTree(t), NEW n \in Reached(t)
  PROVE  /\ n \in Nodes /\ Ancestors(n, t) \subseteq Reached(t)
         /\ t.parent[n] # Null => t.parent[n] \in Reached(t)
         /\ t.parent[n] = Null => n = Root
<1>1. ASSUME NEW m \in Nodes, t.parent[m] # Null
      PROVE  t.parent[m] \in Reached(t)
  <2>1. t.parent[m] \in Nodes
    BY <1>1, Linked
  <2>2. m \in Siblings(t.children[t.parent[m]], t)
    BY <1>1, ChildrenAreListed
  <2>3. t.children[t.parent[m]] # Null
    BY <2>2, SiblingsAre
  <2> QED
    BY <2>1, <2>3, Linked DEF Reached
<1> DEFINE S == {m \in Nodes : Ancestors(m, t) \subseteq Reached(t)}
<1>2. ASSUME NEW m \in Nodes, t.parent[m] = Null \/ t.parent[m] \in S
      PROVE  m \in S
  BY <1>1, <1>2, AncestorsAre
<1>3. \A m \in Nodes : m \in S
  <2> HIDE DEF S
  <2> QED
    BY <1>2, UpInduction
<1> QED
  BY <1>1, <1>3 DEF Reached

(* From the root on, the nodes shown are those of the tree with nothing    *)
(* collapsed above them.                                                   *)
LEMMA ShownIsVisible ==
  ASSUME NEW t, IsTree(t), NEW open
  PROVE  Shown(Root, t, open) = {n \in Reached(t) : Ancestors(n, t) \subseteq open}
<1>1. Root \in Nodes /\ t.parent[Root] = Null /\ Root \in Pointers
  BY Linked, Pointer
<1>2. ASSUME NEW n \in Shown(Root, t, open)
      PROVE  n \in Reached(t) /\ Ancestors(n, t) \subseteq open
  <2>1. Belongs(n, Root, t, open)
    BY <1>1, ShownBelong
  <2>2. Ancestors(n, t) \subseteq open
    BY <1>1, <2>1, AncestorsAre DEF Belongs
  <2>3. t.next[Root] = Null
    BY <1>1, Linked, Pointer
  <2>4. Siblings(Root, t) = {Root}
    BY <1>1, <2>3, SiblingsAre
  <2>5. Root \in Line(n, t)
    BY <2>1, <2>4 DEF Belongs
  <2>6. n = Root \/ t.parent[n] # Null
    BY <2>1, <2>5, AncestorsAre DEF Belongs, Line
  <2> QED
    BY <2>1, <2>2, <2>6 DEF Belongs, Reached
<1> DEFINE S == {n \in Nodes : n \in Reached(t) /\ Ancestors(n, t) \subseteq open
                                 => n \in Shown(Root, t, open)}
<1>3. ASSUME NEW n \in Nodes, t.parent[n] = Null \/ t.parent[n] \in S
      PROVE  n \in S
  <2> SUFFICES ASSUME n \in Reached(t), Ancestors(n, t) \subseteq open
               PROVE  n \in Shown(Root, t, open)
    OBVIOUS
  <2>1. CASE t.parent[n] = Null
    <3>1. Root \in Shown(Root, t, open)
      <4>1. Root \in Siblings(Root, t)
        BY <1>1, SiblingsAre
      <4> QED
        BY <1>1, <4>1, ShownClosed
    <3> QED
      BY <2>1, <3>1, ReachedUp
  <2>2. CASE t.parent[n] # Null
    <3>1. t.parent[n] \in Reached(t) /\ t.parent[n] \in Nodes
      BY <2>2, ReachedUp, Linked
    <3>2. Ancestors(n, t) = {t.parent[n]} \cup Ancestors(t.parent[n], t)
      BY <2>2, AncestorsAre
    <3>3. t.parent[n] \in Shown(Root, t, open) /\ t.parent[n] \in open
      BY <1>3, <2>2, <3>1, <3>2
    <3>4. n \in Shown(t.children[t.parent[n]], t, open)
      BY <2>2, <3>1, ChildrenAreListed, ShownClosed, Pointer
    <3> QED
      BY <1>1, <3>3, <3>4, ShownClosed
  <2> QED
    BY <2>1, <2>2
<1>4. \A n \in Nodes : n \in S
  <2> HIDE DEF S
  <2> QED
    BY <1>3, UpInduction
<1> QED
  BY <1>2, <1>4 DEF Reached

(* Everything under x's children is what is below x.                       *)
LEMMA UnderIsBelow ==
  ASSUME NEW t, IsTree(t), NEW x \in Nodes
  PROVE  Under(t.children[x], t) = Below(x, t)
<1>1. ASSUME NEW n \in Under(t.children[x], t)
      PROVE  n \in Below(x, t)
  BY ShownApart DEF Under, Below
<1> DEFINE S == {n \in Nodes : x \in Ancestors(n, t) => n \in Under(t.children[x], t)}
<1>2. ASSUME NEW n \in Nodes, t.parent[n] = Null \/ t.parent[n] \in S
      PROVE  n \in S
  <2> SUFFICES ASSUME x \in Ancestors(n, t) PROVE n \in Under(t.children[x], t)
    OBVIOUS
  <2>1. t.parent[n] # Null
    BY AncestorsAre
  <2>2. n \in Siblings(t.children[t.parent[n]], t) /\ t.parent[n] \in Nodes
    BY <2>1, ChildrenAreListed, Linked
  <2>3. n \in Shown(t.children[t.parent[n]], t, Nodes)
    BY <2>2, ShownClosed, Pointer
  <2>4. CASE t.parent[n] = x
    BY <2>3, <2>4 DEF Under
  <2>5. CASE t.parent[n] # x
    <3>1. x \in Ancestors(t.parent[n], t)
      BY <2>1, <2>5, AncestorsAre
    <3>2. t.parent[n] \in Under(t.children[x], t)
      BY <1>2, <2>1, <3>1
    <3> QED
      BY <2>2, <2>3, <3>2, ShownClosed, Pointer DEF Under
  <2> QED
    BY <2>4, <2>5
<1>3. \A n \in Nodes : n \in S
  <2> HIDE DEF S
  <2> QED
    BY <1>2, UpInduction
<1> QED
  BY <1>1, <1>3 DEF Below

\* A node and two lists apart from it and from each other.
AddUp(x, A, B) ==
  /\ IsFiniteSet({x} \cup A \cup B)
  /\ Cardinality({x} \cup A \cup B) = 1 + Cardinality(A) + Cardinality(B)
  /\ Cardinality(A) \in Nat /\ Cardinality(B) \in Nat

(* They do add up.                                                         *)
LEMMA SizeOfParts ==
  ASSUME NEW x, NEW A, NEW B, IsFiniteSet(A), IsFiniteSet(B),
         x \notin A, x \notin B, A \cap B = {}
  PROVE  AddUp(x, A, B)
<1>1. IsFiniteSet(A \cup B) /\ Cardinality(A \cup B) = Cardinality(A) + Cardinality(B)
  <2>1. /\ IsFiniteSet(A \cup B)
        /\ Cardinality(A \cup B) = Cardinality(A) + Cardinality(B) - Cardinality(A \cap B)
    BY FS_Union
  <2>2. Cardinality(A \cap B) = 0
    BY FS_EmptySet
  <2>3. Cardinality(A) \in Nat /\ Cardinality(B) \in Nat
    BY FS_CardinalityType
  <2> QED
    BY <2>1, <2>2, <2>3
<1>2. /\ IsFiniteSet((A \cup B) \cup {x})
      /\ Cardinality((A \cup B) \cup {x}) = Cardinality(A \cup B) + 1
  BY <1>1, FS_AddElement
<1>3. (A \cup B) \cup {x} = {x} \cup A \cup B
  OBVIOUS
<1>4. Cardinality(A) \in Nat /\ Cardinality(B) \in Nat
  BY FS_CardinalityType
<1>5. 1 + Cardinality(A) + Cardinality(B) = (Cardinality(A) + Cardinality(B)) + 1
  BY <1>4
<1> QED
  BY <1>1, <1>2, <1>3, <1>4, <1>5 DEF AddUp

(* VisibleSize counts the nodes shown; with everything expanded that is    *)
(* TotalSize counts the nodes under x.                                     *)
LEMMA VisibleSizeCounts ==
  ASSUME NEW t, IsTree(t), NEW open
  PROVE  \A x \in Pointers : /\ IsFiniteSet(Shown(x, t, open))
                             /\ VisibleSize(x, t, open) = Cardinality(Shown(x, t, open))
<1> DEFINE S == {x \in Pointers : /\ IsFiniteSet(Shown(x, t, open))
                                  /\ VisibleSize(x, t, open) = Cardinality(Shown(x, t, open))}
<1>1. Null \in S
  BY ShownIs, VisibleSizeIs, FS_EmptySet, Pointer
<1>2. ASSUME NEW x \in Nodes, t.children[x] \in S, t.next[x] \in S
      PROVE  x \in S
  <2> DEFINE A == IF x \in open THEN Shown(t.children[x], t, open) ELSE {}
             B == Shown(t.next[x], t, open)
  <2>1. IsFiniteSet(A) /\ IsFiniteSet(B)
    BY <1>2, FS_EmptySet
  <2>2. x \notin A /\ x \notin B /\ A \cap B = {}
    BY ShownApart
  <2>3. Cardinality(A) = IF x \in open THEN VisibleSize(t.children[x], t, open) ELSE 0
    BY <1>2, FS_EmptySet
  <2>4. Cardinality(B) = VisibleSize(t.next[x], t, open)
    BY <1>2
  <2>5. Shown(x, t, open) = {x} \cup A \cup B
    BY ShownIs
  <2>6. VisibleSize(x, t, open) = 1 + Cardinality(A) + Cardinality(B)
    BY <2>3, <2>4, VisibleSizeIs
  <2> HIDE DEF A, B
  <2>7. AddUp(x, A, B)
    BY <2>1, <2>2, SizeOfParts
  <2> QED
    BY <2>5, <2>6, <2>7, Pointer DEF AddUp
<1>3. \A x \in Pointers : x \in S
  <2> HIDE DEF S
  <2> QED
    BY <1>1, <1>2, DownInduction
<1> QED
  BY <1>3

(* TotalSize counts the nodes under x.                                     *)
LEMMA TotalSizeCounts ==
  ASSUME NEW t, IsTree(t)
  PROVE  \A x \in Pointers : /\ IsFiniteSet(Under(x, t))
                             /\ TotalSize(x, t) = Cardinality(Under(x, t))
<1> DEFINE S == {x \in Pointers : TotalSize(x, t) = VisibleSize(x, t, Nodes)}
<1>1. Null \in S
  BY TotalSizeIs, VisibleSizeIs, Pointer
<1>2. ASSUME NEW x \in Nodes, t.children[x] \in S, t.next[x] \in S
      PROVE  x \in S
  <2>1. TotalSize(x, t) = 1 + TotalSize(t.children[x], t) + TotalSize(t.next[x], t)
    BY TotalSizeIs
  <2>2. VisibleSize(x, t, Nodes)
          = 1 + VisibleSize(t.children[x], t, Nodes) + VisibleSize(t.next[x], t, Nodes)
    BY VisibleSizeIs
  <2> QED
    BY <1>2, <2>1, <2>2, Pointer
<1>3. \A x \in Pointers : x \in S
  <2> HIDE DEF S
  <2> QED
    BY <1>1, <1>2, DownInduction
<1> QED
  BY <1>3, VisibleSizeCounts DEF Under

(* So at most all nodes of the tree are rows of the screen.                *)
LEMMA VisibleSizeBound ==
  ASSUME NEW t, IsTree(t), NEW open
  PROVE  /\ IsFiniteSet(Reached(t))
         /\ VisibleSize(Root, t, open) <= Cardinality(Reached(t))
<1>1. IsFiniteSet(Reached(t))
  BY CommentTreeAssumption, FS_Subset DEF Reached
<1>2. Shown(Root, t, open) \subseteq Reached(t)
  BY ShownIsVisible
<1>3. VisibleSize(Root, t, open) = Cardinality(Shown(Root, t, open))
  BY VisibleSizeCounts, Pointer
<1> QED
  BY <1>1, <1>2, <1>3, FS_Subset

-----------------------------------------------------------------------------
(* The rows of a list and below it *)

\* s is r, then B, then C.
IsJoin(s, r, B, C) ==
  /\ Len(s) = 1 + Len(B) + Len(C) /\ Len(B) \in Nat /\ Len(C) \in Nat
  /\ s[1] = r
  /\ \A i \in 1..Len(B) : s[1 + i] = B[i]
  /\ \A i \in 1..Len(C) : s[1 + Len(B) + i] = C[i]
  /\ \A k \in 1..Len(s) : \/ k = 1
                          \/ \E i \in 1..Len(B) : k = 1 + i
                          \/ \E i \in 1..Len(C) : k = 1 + Len(B) + i

(* What a sequence put together of three parts holds where.                *)
LEMMA Joined ==
  ASSUME NEW X, NEW r \in X, NEW B \in Seq(X), NEW C \in Seq(X)
  PROVE  IsJoin((<<r>> \o B) \o C, r, B, C)
<1>1. PICK p : p = <<r>> \o B
  OBVIOUS
<1>2. <<r>> \in Seq(X) /\ Len(<<r>>) = 1 /\ <<r>>[1] = r
  OBVIOUS
<1>3. /\ p \in Seq(X) /\ Len(p) = 1 + Len(B) /\ p[1] = r
      /\ \A i \in 1..Len(B) : p[1 + i] = B[i]
  BY <1>1, <1>2
<1>4. PICK s : s = p \o C
  OBVIOUS
<1>5. /\ Len(s) = Len(p) + Len(C)
      /\ \A i \in 1..Len(p) : s[i] = p[i]
      /\ \A i \in 1..Len(C) : s[Len(p) + i] = C[i]
  <2>1. p \in Seq(X)
    BY <1>3
  <2>2. Len(s) = Len(p) + Len(C)
    BY <1>4, <2>1
  <2>3. \A i \in 1..Len(p) : s[i] = p[i]
    BY <1>4, <2>1
  <2>4. \A i \in 1..Len(C) : s[Len(p) + i] = C[i]
    BY <1>4, <2>1
  <2> QED
    BY <2>2, <2>3, <2>4
<1>6. PICK b, c : b = Len(B) /\ c = Len(C)
  OBVIOUS
<1>7. b \in Nat /\ c \in Nat
  BY <1>6
<1>8. Len(p) = 1 + b /\ Len(s) = 1 + b + c
  BY <1>3, <1>5, <1>6
<1>9. s[1] = r
  BY <1>3, <1>5, <1>7, <1>8
<1>10. \A i \in 1..b : s[1 + i] = B[i]
  <2> SUFFICES ASSUME NEW i \in 1..b PROVE s[1 + i] = B[i]
    OBVIOUS
  <2>1. 1 + i \in 1..Len(p)
    BY <1>7, <1>8
  <2> QED
    BY <1>3, <1>5, <1>6, <2>1
<1>11. \A i \in 1..c : s[1 + b + i] = C[i]
  BY <1>5, <1>6, <1>8
<1>12. ASSUME NEW k \in 1..(1 + b + c)
       PROVE  k = 1 \/ (\E i \in 1..b : k = 1 + i) \/ (\E i \in 1..c : k = 1 + b + i)
  <2>1. CASE k <= 1 + b
    <3>1. k = 1 \/ (k - 1 \in 1..b /\ k = 1 + (k - 1))
      BY <1>7, <2>1
    <3> QED
      BY <3>1
  <2>2. CASE ~(k <= 1 + b)
    <3>1. k - (1 + b) \in 1..c /\ k = 1 + b + (k - (1 + b))
      BY <1>7, <2>2
    <3> QED
      BY <3>1
  <2> QED
    BY <2>1, <2>2
<1> QED
  BY <1>1, <1>4, <1>6, <1>7, <1>8, <1>9, <1>10, <1>11, <1>12 DEF IsJoin

\* The rows are those of the nodes shown, in the order of the screen, and
\* depth is that of x.
Lists(rows, x, t, open, depth) ==
  /\ Len(rows) = VisibleSize(x, t, open)
  /\ \A k \in 1..Len(rows) : rows[k].node \in Shown(x, t, open)
  /\ \A k \in 1..Len(rows) :
       rows[k].depth = depth + (ComputedDepth(rows[k].node, t) - ComputedDepth(x, t))
  /\ \A n \in Shown(x, t, open) : \E k \in 1..Len(rows) : rows[k].node = n
  /\ \A j, k \in 1..Len(rows) : j < k => Above(rows[j].node, rows[k].node, t)

(* Listing is such a list.                                                 *)
LEMMA ListingLists ==
  ASSUME NEW t, IsTree(t), NEW open
  PROVE  \A x \in Pointers, d \in Nat : Lists(Listing(x, t, open, d), x, t, open, d)
<1>0. /\ \A y \in Pointers, d \in Nat : Listing(y, t, open, d) \in Rows
      /\ \A d \in Nat : Listing(Null, t, open, d) = << >>
      /\ \A y \in Nodes, d \in Nat :
           Listing(y, t, open, d) =
             (<<[node |-> y, depth |-> d]>>
                \o (IF y \in open THEN Listing(t.children[y], t, open, d + 1) ELSE << >>))
                \o Listing(t.next[y], t, open, d)
  <2>1. ListingFollows(t, open)
    BY ListingIs
  <2> QED
    BY <2>1 DEF ListingFollows
<1> DEFINE S == {x \in Pointers : \A d \in Nat : Lists(Listing(x, t, open, d), x, t, open, d)}
<1>1. ASSUME NEW rows, rows = << >>
      PROVE  Len(rows) = 0 /\ \A k : ~(k \in 1..Len(rows))
  BY <1>1
<1>2. Null \in S
  <2> SUFFICES ASSUME NEW d \in Nat PROVE Lists(Listing(Null, t, open, d), Null, t, open, d)
    BY Pointer
  <2>1. Listing(Null, t, open, d) = << >>
    BY <1>0
  <2>2. Shown(Null, t, open) = {} /\ VisibleSize(Null, t, open) = 0
    BY ShownIs, VisibleSizeIs
  <2> QED
    BY <1>1, <2>1, <2>2 DEF Lists
<1>3. ASSUME NEW x \in Nodes, t.children[x] \in S, t.next[x] \in S
      PROVE  x \in S
  <2> SUFFICES ASSUME NEW d \in Nat PROVE Lists(Listing(x, t, open, d), x, t, open, d)
    BY Pointer
  <2>1. PICK r : r = [node |-> x, depth |-> d]
    OBVIOUS
  <2>2. PICK B : B = IF x \in open THEN Listing(t.children[x], t, open, d + 1) ELSE << >>
    OBVIOUS
  <2>3. PICK C : C = Listing(t.next[x], t, open, d)
    OBVIOUS
  <2>4. PICK s : s = Listing(x, t, open, d)
    OBVIOUS
  <2>5. s = (<<r>> \o B) \o C
    BY <2>1, <2>2, <2>3, <2>4, <1>0
  <2>6. IsJoin(s, r, B, C)
    <3>1. << >> \in Rows /\ r \in [node : Nodes, depth : Nat]
      BY <2>1 DEF Rows
    <3>2. t.children[x] \in Pointers /\ t.next[x] \in Pointers /\ d + 1 \in Nat
      BY Pointer
    <3>3. B \in Rows /\ C \in Rows
      BY <1>0, <2>2, <2>3, <3>1, <3>2
    <3> QED
      BY <2>5, <3>1, <3>3, Joined DEF Rows
  <2>7. PICK A : A = IF x \in open THEN Shown(t.children[x], t, open) ELSE {}
    OBVIOUS
  <2>8. PICK D : D = Shown(t.next[x], t, open)
    OBVIOUS
  <2>9. Shown(x, t, open) = {x} \cup A \cup D
    BY <2>7, <2>8, ShownIs
  <2>10. \A n \in A \cup D : n \in Nodes /\ ComputedDepth(n, t) \in Nat
    <3>1. \A n \in A \cup D : n \in Nodes
      BY <2>7, <2>8, ShownApart
    <3> QED
      BY <3>1, DepthIs
  <2>11. PICK level \in Nat : level = ComputedDepth(x, t)
    BY DepthIs
  <2>12. /\ Len(B) = IF x \in open THEN VisibleSize(t.children[x], t, open) ELSE 0
         /\ \A k \in 1..Len(B) : B[k].node \in A
         /\ \A k \in 1..Len(B) : B[k].depth = d + (ComputedDepth(B[k].node, t) - level)
         /\ \A n \in A : \E k \in 1..Len(B) : B[k].node = n
         /\ \A j, k \in 1..Len(B) : j < k => Above(B[j].node, B[k].node, t)
    <3>1. CASE x \notin open
      BY <1>1, <2>2, <2>7, <3>1
    <3>2. CASE x \in open
      <4>1. Lists(B, t.children[x], t, open, d + 1)
        BY <1>3, <2>2, <3>2
      <4>2. ASSUME NEW k \in 1..Len(B)
            PROVE  B[k].depth = d + (ComputedDepth(B[k].node, t) - level)
        <5>1. B[k].node \in A
          BY <2>7, <3>2, <4>1 DEF Lists
        <5>2. PICK i \in Nat : i = ComputedDepth(B[k].node, t)
          BY <2>10, <5>1
        <5>3. t.children[x] \in Nodes
          BY <2>7, <3>2, <5>1, ShownOnlyFromNodes, Pointer
        <5>4. t.parent[t.children[x]] = x /\ x # Null
          BY <5>3, Linked, Pointer
        <5>5. ComputedDepth(t.children[x], t) = 1 + level
          BY <2>11, <5>3, <5>4, DepthIs
        <5>6. B[k].depth = (d + 1) + (i - (1 + level))
          BY <4>1, <5>2, <5>5 DEF Lists
        <5> QED
          BY <5>2, <5>6
      <4> QED
        BY <2>7, <3>2, <4>1, <4>2 DEF Lists
    <3> QED
      BY <3>1, <3>2
  <2>13. /\ Len(C) = VisibleSize(t.next[x], t, open)
         /\ \A k \in 1..Len(C) : C[k].node \in D
         /\ \A k \in 1..Len(C) : C[k].depth = d + (ComputedDepth(C[k].node, t) - level)
         /\ \A n \in D : \E k \in 1..Len(C) : C[k].node = n
         /\ \A j, k \in 1..Len(C) : j < k => Above(C[j].node, C[k].node, t)
    <3>1. Lists(C, t.next[x], t, open, d)
      BY <1>3, <2>3
    <3>2. ASSUME NEW k \in 1..Len(C)
          PROVE  C[k].depth = d + (ComputedDepth(C[k].node, t) - level)
      <4>1. C[k].node \in D
        BY <2>8, <3>1 DEF Lists
      <4>2. t.next[x] \in Nodes
        BY <2>8, <4>1, ShownOnlyFromNodes, Pointer
      <4>3. t.next[x] \in Siblings(x, t)
        BY <4>2, SiblingsAre
      <4>4. ComputedDepth(t.next[x], t) = level
        BY <2>11, <4>3, SameParent, Pointer
      <4> QED
        BY <3>1, <4>4 DEF Lists
    <3> QED
      BY <2>8, <3>1, <3>2 DEF Lists
  <2>14. Len(s) = VisibleSize(x, t, open)
    <3>1. VisibleSize(x, t, open)
            = 1 + (IF x \in open THEN VisibleSize(t.children[x], t, open) ELSE 0)
                + VisibleSize(t.next[x], t, open)
      BY VisibleSizeIs
    <3> QED
      BY <2>6, <2>12, <2>13, <3>1 DEF IsJoin
  <2>15. \A k \in 1..Len(s) :
           /\ s[k].node \in {x} \cup A \cup D
           /\ s[k].depth = d + (ComputedDepth(s[k].node, t) - level)
    <3> SUFFICES ASSUME NEW k \in 1..Len(s)
                 PROVE  /\ s[k].node \in {x} \cup A \cup D
                        /\ s[k].depth = d + (ComputedDepth(s[k].node, t) - level)
      OBVIOUS
    <3>1. CASE k = 1
      <4>1. s[k].node = x /\ s[k].depth = d
        BY <2>1, <2>6, <3>1 DEF IsJoin
      <4> QED
        BY <2>11, <4>1
    <3>2. ASSUME NEW i \in 1..Len(B), k = 1 + i
          PROVE  /\ s[k].node \in {x} \cup A \cup D
                 /\ s[k].depth = d + (ComputedDepth(s[k].node, t) - level)
      <4>1. s[k] = B[i]
        BY <2>6, <3>2 DEF IsJoin
      <4> QED
        BY <2>12, <4>1
    <3>3. ASSUME NEW i \in 1..Len(C), k = 1 + Len(B) + i
          PROVE  /\ s[k].node \in {x} \cup A \cup D
                 /\ s[k].depth = d + (ComputedDepth(s[k].node, t) - level)
      <4>1. s[k] = C[i]
        BY <2>6, <3>3 DEF IsJoin
      <4> QED
        BY <2>13, <4>1
    <3> QED
      BY <2>6, <3>1, <3>2, <3>3 DEF IsJoin
  <2>16. \A n \in {x} \cup A \cup D : \E k \in 1..Len(s) : s[k].node = n
    <3>0. PICK b \in Nat, c \in Nat : b = Len(B) /\ c = Len(C) /\ Len(s) = 1 + b + c
      BY <2>6 DEF IsJoin
    <3>1. 1 \in 1..Len(s) /\ s[1].node = x
      BY <2>1, <2>6, <3>0 DEF IsJoin
    <3>2. ASSUME NEW n \in A
          PROVE  \E k \in 1..Len(s) : s[k].node = n
      <4>1. PICK i \in 1..b : B[i].node = n
        BY <2>12, <3>0
      <4>2. 1 + i \in 1..Len(s) /\ s[1 + i] = B[i]
        BY <2>6, <3>0 DEF IsJoin
      <4> QED
        BY <4>1, <4>2
    <3>3. ASSUME NEW n \in D
          PROVE  \E k \in 1..Len(s) : s[k].node = n
      <4>1. PICK i \in 1..c : C[i].node = n
        BY <2>13, <3>0
      <4>2. 1 + b + i \in 1..Len(s) /\ s[1 + b + i] = C[i]
        BY <2>6, <3>0 DEF IsJoin
      <4> QED
        BY <4>1, <4>2
    <3> QED
      BY <3>1, <3>2, <3>3
  <2>17. \A j, k \in 1..Len(s) : j < k => Above(s[j].node, s[k].node, t)
    <3>0. PICK b \in Nat, c \in Nat : b = Len(B) /\ c = Len(C) /\ Len(s) = 1 + b + c
      BY <2>6 DEF IsJoin
    <3> DEFINE First(k) == k = 1 /\ s[k].node = x
               Second(k) == \E i \in 1..b : k = 1 + i /\ s[k] = B[i]
               Third(k) == \E i \in 1..c : k = 1 + b + i /\ s[k] = C[i]
    <3>1. \A k \in 1..Len(s) : First(k) \/ Second(k) \/ Third(k)
      BY <2>1, <2>6, <3>0 DEF IsJoin
    <3>2. \A n \in A : Above(x, n, t)
      BY <2>7, ShownApart
    <3>3. \A n \in D : Above(x, n, t)
      BY <2>8, ShownApart
    <3>4. \A m \in A, n \in D : Above(m, n, t)
      BY <2>7, <2>8, ShownApart
    <3> SUFFICES ASSUME NEW j \in 1..Len(s), NEW k \in 1..Len(s), j < k
                 PROVE  Above(s[j].node, s[k].node, t)
      OBVIOUS
    <3>5. ASSUME First(k) PROVE FALSE
      BY <3>0, <3>5
    <3>6. ASSUME First(j), Second(k) PROVE Above(s[j].node, s[k].node, t)
      BY <2>12, <3>0, <3>2, <3>6
    <3>7. ASSUME First(j), Third(k) PROVE Above(s[j].node, s[k].node, t)
      BY <2>13, <3>0, <3>3, <3>7
    <3>8. ASSUME Second(j), Second(k) PROVE Above(s[j].node, s[k].node, t)
      <4>1. PICK i \in 1..b : j = 1 + i /\ s[j] = B[i]
        BY <3>8
      <4>2. PICK l \in 1..b : k = 1 + l /\ s[k] = B[l]
        BY <3>8
      <4>3. i < l
        BY <4>1, <4>2
      <4> QED
        BY <2>12, <3>0, <4>1, <4>2, <4>3
    <3>9. ASSUME Second(j), Third(k) PROVE Above(s[j].node, s[k].node, t)
      BY <2>12, <2>13, <3>0, <3>4, <3>9
    <3>10. ASSUME Third(j), Second(k) PROVE FALSE
      BY <3>0, <3>10
    <3>11. ASSUME Third(j), Third(k) PROVE Above(s[j].node, s[k].node, t)
      <4>1. PICK i \in 1..c : j = 1 + b + i /\ s[j] = C[i]
        BY <3>11
      <4>2. PICK l \in 1..c : k = 1 + b + l /\ s[k] = C[l]
        BY <3>11
      <4>3. i < l
        BY <3>0, <4>1, <4>2
      <4> QED
        BY <2>13, <3>0, <4>1, <4>2, <4>3
    <3> HIDE DEF First, Second, Third
    <3> QED
      BY <3>1, <3>5, <3>6, <3>7, <3>8, <3>9, <3>10, <3>11
  <2> QED
    BY <2>4, <2>9, <2>11, <2>14, <2>15, <2>16, <2>17 DEF Lists
<1>4. \A x \in Pointers : x \in S
  <2> HIDE DEF S
  <2> QED
    BY <1>2, <1>3, DownInduction
<1> QED
  BY <1>4

\* Concatenation and its laws, hidden from the provers below.
Cat(p, q) == p \o q
Nil == << >>

\* What concatenation does to the sequences of Q.
Units(Q) ==
  /\ Nil \in Q /\ Len(Nil) = 0
  /\ \A p \in Q : /\ Cat(p, Nil) = p /\ Cat(Nil, p) = p /\ Len(p) \in Nat
                  /\ Len(p) = 0 => p = Nil
Lengths(Q) == \A p, q \in Q : Cat(p, q) \in Q /\ Len(Cat(p, q)) = Len(p) + Len(q)
Grouping(Q) == \A p, q, r \in Q : Cat(Cat(p, q), r) = Cat(p, Cat(q, r))

(* Sequences have these laws.                                              *)
LEMMA ConcatLawsHold ==
  ASSUME NEW X
  PROVE  Units(Seq(X)) /\ Lengths(Seq(X)) /\ Grouping(Seq(X))
<1>1. << >> \in Seq(X) /\ Len(<< >>) = 0
  OBVIOUS
<1>2. ASSUME NEW p \in Seq(X)
      PROVE  /\ p \o << >> = p /\ << >> \o p = p /\ Len(p) \in Nat
             /\ Len(p) = 0 => p = << >>
  BY ConcatEmptySeq, EmptySeq, LenProperties
<1>3. ASSUME NEW p \in Seq(X), NEW q \in Seq(X)
      PROVE  p \o q \in Seq(X) /\ Len(p \o q) = Len(p) + Len(q)
  BY ConcatProperties
<1>4. ASSUME NEW p \in Seq(X), NEW q \in Seq(X), NEW r \in Seq(X)
      PROVE  (p \o q) \o r = p \o (q \o r)
  BY ConcatAssociative
<1> QED
  BY <1>1, <1>2, <1>3, <1>4 DEF Units, Lengths, Grouping, Cat, Nil

(* No node has two rows.                                                   *)
LEMMA RowsDiffer ==
  ASSUME NEW t, IsTree(t), NEW open, NEW x \in Pointers, NEW d \in Nat,
         NEW j \in 1..Len(Listing(x, t, open, d)), NEW k \in 1..Len(Listing(x, t, open, d)),
         Listing(x, t, open, d)[j].node = Listing(x, t, open, d)[k].node
  PROVE  j = k
<1>1. PICK rows : rows = Listing(x, t, open, d)
  OBVIOUS
<1>2. Lists(rows, x, t, open, d)
  BY <1>1, ListingLists
<1>3. rows[j].node \in Nodes /\ rows[k].node = rows[j].node
  <2>1. rows[j].node \in Shown(x, t, open)
    BY <1>1, <1>2 DEF Lists
  <2>2. Shown(x, t, open) \in SUBSET Nodes
    BY ShownIs
  <2> QED
    BY <1>1, <2>1, <2>2
<1>4. ~(j < k) /\ ~(k < j)
  BY <1>1, <1>2, <1>3, NotAboveItself DEF Lists
<1> QED
  BY <1>1, <1>4

(* The flat array is the listing, as long as it fits: the walk goes on     *)
(* after the limit, but by then nothing is left.                           *)
LEMMA FlatTreeIsListing ==
  ASSUME NEW t, IsTree(t), NEW open, NEW limit \in Nat, NEW x \in Pointers,
         VisibleSize(x, t, open) <= limit + 1
  PROVE  FlatTree(x, t, open, limit) = Listing(x, t, open, 0)
<1>0. /\ \A y \in Pointers, d \in Nat : Listing(y, t, open, d) \in Rows
      /\ \A d \in Nat : Listing(Null, t, open, d) = Nil
      /\ \A y \in Nodes, d \in Nat :
           Listing(y, t, open, d) =
             Cat(Cat(<<[node |-> y, depth |-> d]>>,
                     IF y \in open THEN Listing(t.children[y], t, open, d + 1) ELSE Nil),
                 Listing(t.next[y], t, open, d))
  <2>1. ListingFollows(t, open)
    BY ListingIs
  <2> QED
    BY <2>1 DEF ListingFollows, Cat, Nil
<1>1. PICK g \in [Pointers -> [Nat -> [Rows -> Rows]]] : FlatTreeFollows(g, t, open, limit)
  BY FlatTreeIs
<1>2. Units(Rows) /\ Lengths(Rows) /\ Grouping(Rows)
  BY ConcatLawsHold DEF Rows
<1>9. /\ \A y \in Pointers : VisibleSize(y, t, open) \in Nat
      /\ VisibleSize(Null, t, open) = 0
      /\ \A y \in Nodes :
           VisibleSize(y, t, open) =
             1 + (IF y \in open THEN VisibleSize(t.children[y], t, open) ELSE 0)
               + VisibleSize(t.next[y], t, open)
  BY VisibleSizeIs
<1> DEFINE Fits(y) == \A d \in Nat, ray \in Rows :
                        Len(ray) + VisibleSize(y, t, open) <= limit + 1
                          => g[y][d][ray] = Cat(ray, Listing(y, t, open, d))
           S == {y \in Pointers : Fits(y)}
<1>3. Null \in S
  <2>1. \A d \in Nat, ray \in Rows : Cat(ray, Listing(Null, t, open, d)) = ray
    BY <1>0, <1>2 DEF Units
  <2>2. \A d \in Nat, ray \in Rows : g[Null][d][ray] = ray
    BY <1>1 DEF FlatTreeFollows
  <2> QED
    BY <2>1, <2>2, Pointer
<1>4. ASSUME NEW y \in Nodes, t.children[y] \in S, t.next[y] \in S
      PROVE  y \in S
  <2> SUFFICES ASSUME NEW d \in Nat, NEW ray \in Rows,
                      Len(ray) + VisibleSize(y, t, open) <= limit + 1
               PROVE  g[y][d][ray] = Cat(ray, Listing(y, t, open, d))
    BY Pointer
  <2>1. PICK row : row = [node |-> y, depth |-> d]
    OBVIOUS
  <2>2. PICK one : one = Append(ray, row)
    OBVIOUS
  <2>3. <<row>> \in Rows /\ one = Cat(ray, <<row>>) /\ one \in Rows /\ Len(one) = Len(ray) + 1
    BY <2>1, <2>2 DEF Rows, Cat
  <2>4. PICK b \in Nat : b = IF y \in open THEN VisibleSize(t.children[y], t, open) ELSE 0
    BY <1>9, Pointer
  <2>5. PICK c \in Nat : c = VisibleSize(t.next[y], t, open)
    BY <1>9, Pointer
  <2>6. VisibleSize(y, t, open) = 1 + b + c
    <3>1. VisibleSize(y, t, open)
            = 1 + (IF y \in open THEN VisibleSize(t.children[y], t, open) ELSE 0)
                + VisibleSize(t.next[y], t, open)
      BY <1>9
    <3> QED
      BY <2>4, <2>5, <3>1
  <2>7. PICK B : B = IF y \in open THEN Listing(t.children[y], t, open, d + 1) ELSE Nil
    OBVIOUS
  <2>8. PICK C : C = Listing(t.next[y], t, open, d)
    OBVIOUS
  <2>9. B \in Rows /\ C \in Rows
    <3>1. t.children[y] \in Pointers /\ t.next[y] \in Pointers /\ d + 1 \in Nat
      BY Pointer
    <3> QED
      BY <1>0, <1>2, <2>7, <2>8, <3>1 DEF Units, Lengths
  <2>10. Len(B) = b /\ Len(C) = c
    <3>1. \A z \in Pointers, e \in Nat : Len(Listing(z, t, open, e)) = VisibleSize(z, t, open)
      BY ListingLists DEF Lists
    <3>2. t.children[y] \in Pointers /\ t.next[y] \in Pointers /\ d + 1 \in Nat
      BY Pointer
    <3>3. Len(Nil) = 0
      BY <1>2 DEF Units
    <3> QED
      BY <2>4, <2>5, <2>7, <2>8, <3>1, <3>2, <3>3
  <2>11. Listing(y, t, open, d) = Cat(Cat(<<row>>, B), C)
    BY <1>0, <2>1, <2>7, <2>8
  <2>12. PICK k \in Nat : k = Len(ray)
    BY <1>2 DEF Units
  <2>13. k + (1 + b + c) <= limit + 1 /\ Len(one) = k + 1
    BY <2>3, <2>6, <2>12
  <2>14. PICK below : below = IF y \in open THEN g[t.children[y]][d + 1][one] ELSE one
    OBVIOUS
  <2>15. g[y][d][ray] = IF Len(one) > limit THEN one ELSE g[t.next[y]][d][below]
    BY <1>1, <2>1, <2>2, <2>14 DEF FlatTreeFollows
  <2>16. below = Cat(one, B)
    <3>1. CASE y \notin open
      BY <1>2, <2>3, <2>7, <2>14, <3>1 DEF Units
    <3>2. CASE y \in open
      <4>1. Len(one) + VisibleSize(t.children[y], t, open) <= limit + 1
        BY <2>4, <2>13, <3>2
      <4>2. Fits(t.children[y]) /\ d + 1 \in Nat /\ one \in Rows
        BY <1>4, <2>3
      <4>3. g[t.children[y]][d + 1][one] = Cat(one, Listing(t.children[y], t, open, d + 1))
        BY <4>1, <4>2
      <4> QED
        BY <2>7, <2>14, <3>2, <4>3
    <3> QED
      BY <3>1, <3>2
  <2>17. Cat(ray, Listing(y, t, open, d)) = Cat(Cat(one, B), C)
    <3>1. PICK u : u = <<row>>
      OBVIOUS
    <3>2. u \in Rows /\ one = Cat(ray, u) /\ Listing(y, t, open, d) = Cat(Cat(u, B), C)
      BY <2>3, <2>11, <3>1
    <3>3. Cat(u, B) \in Rows
      BY <1>2, <2>9, <3>2 DEF Lengths
    <3>4. Cat(Cat(ray, Cat(u, B)), C) = Cat(ray, Cat(Cat(u, B), C))
      BY <1>2, <2>9, <3>3 DEF Grouping
    <3>5. Cat(Cat(ray, u), B) = Cat(ray, Cat(u, B))
      BY <1>2, <2>9, <3>2 DEF Grouping
    <3> QED
      BY <3>2, <3>4, <3>5
  <2>18. CASE Len(one) > limit
    <3>1. b = 0 /\ c = 0
      BY <2>13, <2>18
    <3>2. B = Nil /\ C = Nil
      BY <1>2, <2>9, <2>10, <3>1 DEF Units
    <3>3. Cat(Cat(one, B), C) = one
      BY <1>2, <2>3, <3>2 DEF Units
    <3> QED
      BY <2>15, <2>17, <2>18, <3>3
  <2>19. CASE ~(Len(one) > limit)
    <3>1. below \in Rows /\ Len(below) = (k + 1) + b
      BY <1>2, <2>3, <2>9, <2>10, <2>13, <2>16 DEF Lengths
    <3>2. Len(below) + VisibleSize(t.next[y], t, open) <= limit + 1
      BY <2>5, <2>13, <3>1
    <3>3. g[t.next[y]][d][below] = Cat(below, C)
      BY <1>4, <2>8, <3>1, <3>2
    <3> QED
      BY <2>15, <2>16, <2>17, <2>19, <3>3
  <2> QED
    BY <2>18, <2>19
<1>5. \A y \in Pointers : y \in S
  <2> HIDE DEF S
  <2> QED
    BY <1>3, <1>4, DownInduction
<1>6. Nil \in Rows /\ Len(Nil) = 0
  BY <1>2 DEF Units
<1>7. VisibleSize(x, t, open) \in Nat
  BY <1>9
<1>8. g[x][0][Nil] = Cat(Nil, Listing(x, t, open, 0))
  BY <1>5, <1>6, <1>7
<1>10. FlatTree(x, t, open, limit) = g[x][0][Nil]
  BY <1>1 DEF FlatTreeFollows, Nil
<1>11. Listing(x, t, open, 0) \in Rows
  BY <1>0
<1>12. Cat(Nil, Listing(x, t, open, 0)) = Listing(x, t, open, 0)
  BY <1>2, <1>11 DEF Units
<1> QED
  BY <1>8, <1>10, <1>12

\* What is kept of the rows when m is expanded or collapsed: all of them if
\* m is not among them, and otherwise those down to m.
Keeps(old, new, m) ==
  /\ (\A k \in 1..Len(old) : old[k].node # m) => new = old
  /\ \A k \in 1..Len(old) :
       old[k].node = m => k \in 1..Len(new) /\ \A i \in 1..k : new[i] = old[i]

(* Expanding or collapsing a node leaves the rows down to its own.         *)
LEMMA TogglingKeeps ==
  ASSUME NEW t, IsTree(t), NEW before, NEW after, NEW m \in Nodes,
         \A n \in Nodes : n # m => (n \in before <=> n \in after)
  PROVE  \A x \in Pointers, d \in Nat :
           Keeps(Listing(x, t, before, d), Listing(x, t, after, d), m)
<1> DEFINE S == {x \in Pointers : \A d \in Nat :
                   Keeps(Listing(x, t, before, d), Listing(x, t, after, d), m)}
<1>0. ListingFollows(t, before) /\ ListingFollows(t, after)
  BY ListingIs
<1>1. Null \in S
  <2> SUFFICES ASSUME NEW d \in Nat
               PROVE  Keeps(Listing(Null, t, before, d), Listing(Null, t, after, d), m)
    BY Pointer
  <2>1. Listing(Null, t, before, d) = << >> /\ Listing(Null, t, after, d) = << >>
    BY <1>0 DEF ListingFollows
  <2>2. \A k : ~(k \in 1..Len(<< >>))
    OBVIOUS
  <2> QED
    BY <2>1, <2>2 DEF Keeps
<1>2. ASSUME NEW x \in Nodes, t.children[x] \in S, t.next[x] \in S
      PROVE  x \in S
  <2> SUFFICES ASSUME NEW d \in Nat
               PROVE  Keeps(Listing(x, t, before, d), Listing(x, t, after, d), m)
    BY Pointer
  <2>1. PICK r : r = [node |-> x, depth |-> d]
    OBVIOUS
  <2>2. PICK B : B = IF x \in before THEN Listing(t.children[x], t, before, d + 1) ELSE << >>
    OBVIOUS
  <2>3. PICK C : C = Listing(t.next[x], t, before, d)
    OBVIOUS
  <2>4. PICK B2 : B2 = IF x \in after THEN Listing(t.children[x], t, after, d + 1) ELSE << >>
    OBVIOUS
  <2>5. PICK C2 : C2 = Listing(t.next[x], t, after, d)
    OBVIOUS
  <2>6. PICK old : old = Listing(x, t, before, d)
    OBVIOUS
  <2>7. PICK new : new = Listing(x, t, after, d)
    OBVIOUS
  <2>8. << >> \in Rows /\ r \in [node : Nodes, depth : Nat]
    BY <2>1 DEF Rows
  <2>9. t.children[x] \in Pointers /\ t.next[x] \in Pointers /\ d + 1 \in Nat
    BY Pointer
  <2>10. B \in Rows /\ C \in Rows /\ B2 \in Rows /\ C2 \in Rows
    BY <1>0, <2>2, <2>3, <2>4, <2>5, <2>8, <2>9 DEF ListingFollows
  <2>11. old = (<<r>> \o B) \o C /\ new = (<<r>> \o B2) \o C2
    BY <1>0, <2>1, <2>2, <2>3, <2>4, <2>5, <2>6, <2>7 DEF ListingFollows
  <2>12. IsJoin(old, r, B, C) /\ IsJoin(new, r, B2, C2)
    BY <2>8, <2>10, <2>11, Joined DEF Rows
  <2>13. ASSUME NEW j \in 1..Len(old), NEW k \in 1..Len(old), old[j].node = old[k].node
         PROVE  j = k
    BY <2>6, <2>13, RowsDiffer, Pointer
  <2>14. PICK b \in Nat, c \in Nat : b = Len(B) /\ c = Len(C)
    BY <2>12 DEF IsJoin
  <2>15. PICK b2 \in Nat, c2 \in Nat : b2 = Len(B2) /\ c2 = Len(C2)
    BY <2>12 DEF IsJoin
  <2>16. /\ Len(old) = 1 + b + c /\ old[1] = r /\ r.node = x
         /\ \A i \in 1..b : old[1 + i] = B[i]
         /\ \A i \in 1..c : old[1 + b + i] = C[i]
         /\ \A k \in 1..(1 + b + c) : \/ k = 1
                                      \/ \E i \in 1..b : k = 1 + i
                                      \/ \E i \in 1..c : k = 1 + b + i
    BY <2>1, <2>12, <2>14 DEF IsJoin
  <2>17. /\ Len(new) = 1 + b2 + c2 /\ new[1] = r
         /\ \A i \in 1..b2 : new[1 + i] = B2[i]
         /\ \A i \in 1..c2 : new[1 + b2 + i] = C2[i]
    BY <2>12, <2>15 DEF IsJoin
  <2>18. CASE x = m
    <3>1. 1 \in 1..Len(old) /\ old[1].node = m
      BY <2>16, <2>18
    <3>2. \A k \in 1..Len(old) : old[k].node = m => k = 1
      BY <2>13, <3>1
    <3>3. 1 \in 1..Len(new) /\ \A i \in 1..1 : new[i] = old[i]
      BY <2>16, <2>17
    <3>4. ~ \A k \in 1..Len(old) : old[k].node # m
      BY <3>1
    <3>5. \A k \in 1..Len(old) :
            old[k].node = m => k \in 1..Len(new) /\ \A i \in 1..k : new[i] = old[i]
      BY <3>2, <3>3
    <3> QED
      BY <2>6, <2>7, <3>4, <3>5 DEF Keeps
  <2>19. CASE x # m
    <3>1. Keeps(B, B2, m)
      <4>1. CASE x \in before
        <5>1. B = Listing(t.children[x], t, before, d + 1) /\
              B2 = Listing(t.children[x], t, after, d + 1)
          BY <2>2, <2>4, <2>19, <4>1
        <5> QED
          BY <1>2, <2>9, <5>1
      <4>2. CASE x \notin before
        <5>1. B = << >> /\ B2 = << >>
          BY <2>2, <2>4, <2>19, <4>2
        <5>2. \A k : ~(k \in 1..Len(<< >>))
          OBVIOUS
        <5> QED
          BY <5>1, <5>2 DEF Keeps
      <4> QED
        BY <4>1, <4>2
    <3>2. Keeps(C, C2, m)
      BY <1>2, <2>3, <2>5
    <3>3. ASSUME \A k \in 1..Len(old) : old[k].node # m
          PROVE  new = old
      <4>1. \A i \in 1..b : 1 + i \in 1..Len(old)
        BY <2>16
      <4>2. \A i \in 1..c : 1 + b + i \in 1..Len(old)
        BY <2>16
      <4>3. (\A i \in 1..b : B[i].node # m) /\ (\A i \in 1..c : C[i].node # m)
        BY <2>16, <3>3, <4>1, <4>2
      <4>4. B2 = B /\ C2 = C
        BY <2>14, <3>1, <3>2, <4>3 DEF Keeps
      <4> QED
        BY <2>11, <4>4
    <3>4. ASSUME NEW k \in 1..Len(old), old[k].node = m, NEW i \in 1..b, k = 1 + i
          PROVE  k \in 1..Len(new) /\ \A l \in 1..k : new[l] = old[l]
      <4>1. B[i].node = m
        BY <2>16, <3>4
      <4>2. i \in 1..b2 /\ \A l \in 1..i : B2[l] = B[l]
        BY <2>14, <2>15, <3>1, <4>1 DEF Keeps
      <4>3. k \in 1..Len(new)
        BY <2>17, <3>4, <4>2
      <4>4. ASSUME NEW l \in 1..k PROVE new[l] = old[l]
        <5>1. CASE l = 1
          BY <2>16, <2>17, <5>1
        <5>2. CASE l # 1
          <6>1. PICK e \in 1..i : l = 1 + e
            <7>1. l - 1 \in 1..i /\ l = 1 + (l - 1)
              BY <3>4, <5>2
            <7> QED
              BY <7>1
          <6>2. e \in 1..b /\ e \in 1..b2
            BY <4>2, <6>1
          <6> QED
            BY <2>16, <2>17, <4>2, <6>1, <6>2
        <5> QED
          BY <5>1, <5>2
      <4> QED
        BY <4>3, <4>4
    <3>5. ASSUME NEW k \in 1..Len(old), old[k].node = m, NEW i \in 1..c, k = 1 + b + i
          PROVE  k \in 1..Len(new) /\ \A l \in 1..k : new[l] = old[l]
      <4>1. C[i].node = m
        BY <2>16, <3>5
      <4>2. i \in 1..c2 /\ \A l \in 1..i : C2[l] = C[l]
        BY <2>14, <2>15, <3>2, <4>1 DEF Keeps
      <4>3. \A l \in 1..b : B[l].node # m
        <5> SUFFICES ASSUME NEW l \in 1..b, B[l].node = m PROVE FALSE
          OBVIOUS
        <5>1. 1 + l \in 1..Len(old) /\ old[1 + l].node = m
          BY <2>16
        <5>2. 1 + l = k
          BY <2>13, <3>5, <5>1
        <5> QED
          BY <3>5, <5>2
      <4>4. B2 = B /\ b2 = b
        BY <2>14, <2>15, <3>1, <4>3 DEF Keeps
      <4>5. k \in 1..Len(new)
        BY <2>17, <3>5, <4>2, <4>4
      <4>6. ASSUME NEW l \in 1..k PROVE new[l] = old[l]
        <5>1. l \in 1..(1 + b + c)
          BY <3>5
        <5>2. CASE l = 1
          BY <2>16, <2>17, <5>2
        <5>3. ASSUME NEW e \in 1..b, l = 1 + e PROVE new[l] = old[l]
          BY <2>16, <2>17, <4>4, <5>3
        <5>4. ASSUME NEW e \in 1..c, l = 1 + b + e PROVE new[l] = old[l]
          <6>1. e \in 1..i
            BY <3>5, <5>4
          <6>2. e \in 1..c2
            BY <4>2, <6>1
          <6>3. new[l] = C2[e] /\ old[l] = C[e]
            BY <2>16, <2>17, <4>4, <5>4, <6>2
          <6> QED
            BY <4>2, <6>1, <6>3
        <5> QED
          BY <2>16, <5>1, <5>2, <5>3, <5>4
      <4> QED
        BY <4>5, <4>6
    <3>6. ASSUME NEW k \in 1..Len(old), old[k].node = m
          PROVE  k \in 1..Len(new) /\ \A l \in 1..k : new[l] = old[l]
      <4>1. k # 1
        BY <2>16, <2>19, <3>6
      <4> QED
        BY <2>16, <3>4, <3>5, <3>6, <4>1
    <3> QED
      BY <2>6, <2>7, <3>3, <3>6 DEF Keeps
  <2> QED
    BY <2>18, <2>19
<1>3. \A x \in Pointers : x \in S
  <2> HIDE DEF S
  <2> QED
    BY <1>1, <1>2, DownInduction
<1> QED
  BY <1>3

(* ChildCount at the end of a list and at a node.                          *)
LEMMA ChildCountIs ==
  ASSUME NEW t, IsTree(t), NEW recurse
  PROVE  \E g \in [Pointers -> Nat] :
           ChildCountFollows(g, t, recurse)
<1> DEFINE V == Nat
           Step(y, i, j) == 1 + (IF recurse THEN TotalSize(t.children[y], t) ELSE 0) + j
           Body(h, y) == IF y = Null THEN 0
                         ELSE 1 + (IF recurse THEN TotalSize(t.children[y], t) ELSE 0)
                                + h[t.next[y]]
<1>1. PICK base : base = 0
  OBVIOUS
<1>2. base \in V
  BY <1>1, Pointer DEF Pointers
<1>3. ASSUME NEW y \in Nodes, NEW i \in V, NEW j \in V
      PROVE  Step(y, i, j) \in V
  <2>1. TotalSize(t.children[y], t) \in Nat
    BY TotalSizeIs, Pointer
  <2> QED
    BY <2>1
<1>4. ASSUME NEW h
      PROVE  /\ Body(h, Null) = base
             /\ \A y \in Nodes : Body(h, y) = Step(y, h[t.children[y]], h[t.next[y]])
  <2>1. Body(h, Null) = base
    BY <1>1
  <2>2. ASSUME NEW y \in Nodes
        PROVE  Body(h, y) = Step(y, h[t.children[y]], h[t.next[y]])
    <3>1. y # Null
      BY Pointer
    <3> QED
      BY <3>1
  <2> HIDE DEF Body, Step
  <2> QED
    BY <2>1, <2>2
<1> HIDE DEF V, Step, Body
<1>5. PICK step : step = [y \in Nodes |-> [i \in V |-> [j \in V |-> Step(y, i, j)]]]
  OBVIOUS
<1>6. step \in [Nodes -> [V -> [V -> V]]]
  BY <1>3, <1>5
<1>7. PICK f \in [Pointers -> V] : Follows(f, t, base, step, Nodes)
  BY <1>2, <1>6, DownRecursion
<1>8. \A y \in Pointers : f[y] = Body(f, y)
  <2>1. f[Null] = Body(f, Null)
    BY <1>4, <1>7 DEF Follows
  <2>2. \A y \in Nodes : f[y] = Step(y, f[t.children[y]], f[t.next[y]])
    BY <1>5, <1>7, Pointer DEF Follows
  <2> QED
    BY <1>4, <2>1, <2>2, Pointer
<1>9. f = [y \in Pointers |-> Body(f, y)]
  BY <1>7, <1>8
<1>10. PICK g : g = CHOOSE h : h = [y \in Pointers |-> Body(h, y)]
  OBVIOUS
<1>11. g = [y \in Pointers |-> Body(g, y)]
  BY <1>9, <1>10
<1>12. \A x : ChildCount(x, recurse, t) = g[t.children[x]]
  BY <1>10 DEF ChildCount, Body
<1>13. g[Null] = base /\ \A y \in Nodes : g[y] = Step(y, g[t.children[y]], g[t.next[y]])
  BY <1>4, <1>11, Pointer
<1>14. \A y \in Pointers : g[y] \in V
  <2> DEFINE S == {y \in Pointers : g[y] \in V}
  <2>1. Null \in S
    BY <1>2, <1>13, Pointer
  <2>2. \A y \in Nodes : t.children[y] \in S /\ t.next[y] \in S => y \in S
    BY <1>3, <1>13, Pointer
  <2>3. \A y \in Pointers : y \in S
    <3> HIDE DEF S
    <3> QED
      BY <2>1, <2>2, DownInduction
  <2> QED
    BY <2>3
<1>15. g \in [Pointers -> V]
  BY <1>11, <1>14
<1> QED
  BY <1>1, <1>12, <1>13, <1>15, Pointer DEF V, Step, ChildCountFollows

(* TreeExists at the end of a list and at a node.                          *)
LEMMA TreeExistsIs ==
  ASSUME NEW t, IsTree(t), NEW wanted
  PROVE  /\ TreeExists(Null, wanted, t) = {}
         /\ \A y \in Nodes :
              TreeExists(y, wanted, t) = ({y} \cap wanted) \cup TreeExists(t.next[y], wanted, t)
                                           \cup TreeExists(t.children[y], wanted, t)
<1> DEFINE V == (SUBSET Nodes)
           Step(y, i, j) == ({y} \cap wanted) \cup j \cup i
           Body(h, y) == IF y = Null THEN {}
                         ELSE ({y} \cap wanted) \cup h[t.next[y]] \cup h[t.children[y]]
<1>1. PICK base : base = {}
  OBVIOUS
<1>2. base \in V
  BY <1>1, Pointer DEF Pointers
<1>3. ASSUME NEW y \in Nodes, NEW i \in V, NEW j \in V
      PROVE  Step(y, i, j) \in V
  BY Pointer DEF Pointers
<1>4. ASSUME NEW h
      PROVE  /\ Body(h, Null) = base
             /\ \A y \in Nodes : Body(h, y) = Step(y, h[t.children[y]], h[t.next[y]])
  <2>1. Body(h, Null) = base
    BY <1>1
  <2>2. ASSUME NEW y \in Nodes
        PROVE  Body(h, y) = Step(y, h[t.children[y]], h[t.next[y]])
    <3>1. y # Null
      BY Pointer
    <3> QED
      BY <3>1
  <2> HIDE DEF Body, Step
  <2> QED
    BY <2>1, <2>2
<1> HIDE DEF V, Step, Body
<1>5. PICK step : step = [y \in Nodes |-> [i \in V |-> [j \in V |-> Step(y, i, j)]]]
  OBVIOUS
<1>6. step \in [Nodes -> [V -> [V -> V]]]
  BY <1>3, <1>5
<1>7. PICK f \in [Pointers -> V] : Follows(f, t, base, step, Nodes)
  BY <1>2, <1>6, DownRecursion
<1>8. \A y \in Pointers : f[y] = Body(f, y)
  <2>1. f[Null] = Body(f, Null)
    BY <1>4, <1>7 DEF Follows
  <2>2. \A y \in Nodes : f[y] = Step(y, f[t.children[y]], f[t.next[y]])
    BY <1>5, <1>7, Pointer DEF Follows
  <2> QED
    BY <1>4, <2>1, <2>2, Pointer
<1>9. f = [y \in Pointers |-> Body(f, y)]
  BY <1>7, <1>8
<1>10. PICK g : g = CHOOSE h : h = [y \in Pointers |-> Body(h, y)]
  OBVIOUS
<1>11. g = [y \in Pointers |-> Body(g, y)]
  BY <1>9, <1>10
<1>12. \A x : TreeExists(x, wanted, t) = g[x]
  BY <1>10 DEF TreeExists, Body
<1>13. g[Null] = base /\ \A y \in Nodes : g[y] = Step(y, g[t.children[y]], g[t.next[y]])
  BY <1>4, <1>11, Pointer
<1>14. \A y \in Pointers : g[y] \in V
  <2> DEFINE S == {y \in Pointers : g[y] \in V}
  <2>1. Null \in S
    BY <1>2, <1>13, Pointer
  <2>2. \A y \in Nodes : t.children[y] \in S /\ t.next[y] \in S => y \in S
    BY <1>3, <1>13, Pointer
  <2>3. \A y \in Pointers : y \in S
    <3> HIDE DEF S
    <3> QED
      BY <2>1, <2>2, DownInduction
  <2> QED
    BY <2>3
<1>15. g \in [Pointers -> V]
  BY <1>11, <1>14
<1> QED
  BY <1>1, <1>12, <1>13, <1>15, Pointer DEF V, Step

(* SearchTree at the end of a list and at a node.                          *)
LEMMA SearchTreeIs ==
  ASSUME NEW t, IsTree(t), NEW wanted
  PROVE  /\ SearchTree(Null, wanted, t) = Null
         /\ \A y \in Nodes :
              SearchTree(y, wanted, t) =
                IF y \in wanted THEN y
                ELSE IF SearchTree(t.next[y], wanted, t) # Null
                THEN SearchTree(t.next[y], wanted, t)
                ELSE SearchTree(t.children[y], wanted, t)
<1> DEFINE V == Pointers
           Step(y, i, j) == IF y \in wanted \cup {Null} THEN y ELSE IF j # Null THEN j ELSE i
           Body(h, y) == IF y \in wanted \cup {Null} THEN y
                         ELSE LET found == h[t.next[y]]
                              IN  IF found # Null THEN found ELSE h[t.children[y]]
<1>1. PICK base : base = Null
  OBVIOUS
<1>2. base \in V
  BY <1>1, Pointer DEF Pointers
<1>3. ASSUME NEW y \in Nodes, NEW i \in V, NEW j \in V
      PROVE  Step(y, i, j) \in V
  BY Pointer DEF Pointers
<1>4. ASSUME NEW h
      PROVE  /\ Body(h, Null) = base
             /\ \A y \in Nodes : Body(h, y) = Step(y, h[t.children[y]], h[t.next[y]])
  <2>1. Body(h, Null) = base
    BY <1>1
  <2>2. ASSUME NEW y \in Nodes
        PROVE  Body(h, y) = Step(y, h[t.children[y]], h[t.next[y]])
    <3>1. y # Null
      BY Pointer
    <3> QED
      BY <3>1
  <2> HIDE DEF Body, Step
  <2> QED
    BY <2>1, <2>2
<1> HIDE DEF V, Step, Body
<1>5. PICK step : step = [y \in Nodes |-> [i \in V |-> [j \in V |-> Step(y, i, j)]]]
  OBVIOUS
<1>6. step \in [Nodes -> [V -> [V -> V]]]
  BY <1>3, <1>5
<1>7. PICK f \in [Pointers -> V] : Follows(f, t, base, step, Nodes)
  BY <1>2, <1>6, DownRecursion
<1>8. \A y \in Pointers : f[y] = Body(f, y)
  <2>1. f[Null] = Body(f, Null)
    BY <1>4, <1>7 DEF Follows
  <2>2. \A y \in Nodes : f[y] = Step(y, f[t.children[y]], f[t.next[y]])
    BY <1>5, <1>7, Pointer DEF Follows
  <2> QED
    BY <1>4, <2>1, <2>2, Pointer
<1>9. f = [y \in Pointers |-> Body(f, y)]
  BY <1>7, <1>8
<1>10. PICK g : g = CHOOSE h : h = [y \in Pointers |-> Body(h, y)]
  OBVIOUS
<1>11. g = [y \in Pointers |-> Body(g, y)]
  BY <1>9, <1>10
<1>12. \A x : SearchTree(x, wanted, t) = g[x]
  BY <1>10 DEF SearchTree, Body
<1>13. g[Null] = base /\ \A y \in Nodes : g[y] = Step(y, g[t.children[y]], g[t.next[y]])
  BY <1>4, <1>11, Pointer
<1>14. \A y \in Pointers : g[y] \in V
  <2> DEFINE S == {y \in Pointers : g[y] \in V}
  <2>1. Null \in S
    BY <1>2, <1>13, Pointer
  <2>2. \A y \in Nodes : t.children[y] \in S /\ t.next[y] \in S => y \in S
    BY <1>3, <1>13, Pointer
  <2>3. \A y \in Pointers : y \in S
    <3> HIDE DEF S
    <3> QED
      BY <2>1, <2>2, DownInduction
  <2> QED
    BY <2>3
<1>15. g \in [Pointers -> V]
  BY <1>11, <1>14
<1> QED
  BY <1>1, <1>12, <1>13, <1>15, Pointer DEF V, Step

(* FindById at the end of a list and at a node.                            *)
LEMMA FindByIdIs ==
  ASSUME NEW t, IsTree(t), NEW wanted
  PROVE  /\ FindById(Null, wanted, t) = Null
         /\ \A y \in Nodes :
              FindById(y, wanted, t) =
                IF y \in wanted THEN y
                ELSE IF FindById(t.children[y], wanted, t) # Null
                THEN FindById(t.children[y], wanted, t)
                ELSE FindById(t.next[y], wanted, t)
<1> DEFINE V == Pointers
           Step(y, i, j) == IF y \in wanted \cup {Null} THEN y ELSE IF i # Null THEN i ELSE j
           Body(h, y) == IF y \in wanted \cup {Null} THEN y
                         ELSE LET found == h[t.children[y]]
                              IN  IF found # Null THEN found ELSE h[t.next[y]]
<1>1. PICK base : base = Null
  OBVIOUS
<1>2. base \in V
  BY <1>1, Pointer DEF Pointers
<1>3. ASSUME NEW y \in Nodes, NEW i \in V, NEW j \in V
      PROVE  Step(y, i, j) \in V
  BY Pointer DEF Pointers
<1>4. ASSUME NEW h
      PROVE  /\ Body(h, Null) = base
             /\ \A y \in Nodes : Body(h, y) = Step(y, h[t.children[y]], h[t.next[y]])
  <2>1. Body(h, Null) = base
    BY <1>1
  <2>2. ASSUME NEW y \in Nodes
        PROVE  Body(h, y) = Step(y, h[t.children[y]], h[t.next[y]])
    <3>1. y # Null
      BY Pointer
    <3> QED
      BY <3>1
  <2> HIDE DEF Body, Step
  <2> QED
    BY <2>1, <2>2
<1> HIDE DEF V, Step, Body
<1>5. PICK step : step = [y \in Nodes |-> [i \in V |-> [j \in V |-> Step(y, i, j)]]]
  OBVIOUS
<1>6. step \in [Nodes -> [V -> [V -> V]]]
  BY <1>3, <1>5
<1>7. PICK f \in [Pointers -> V] : Follows(f, t, base, step, Nodes)
  BY <1>2, <1>6, DownRecursion
<1>8. \A y \in Pointers : f[y] = Body(f, y)
  <2>1. f[Null] = Body(f, Null)
    BY <1>4, <1>7 DEF Follows
  <2>2. \A y \in Nodes : f[y] = Step(y, f[t.children[y]], f[t.next[y]])
    BY <1>5, <1>7, Pointer DEF Follows
  <2> QED
    BY <1>4, <2>1, <2>2, Pointer
<1>9. f = [y \in Pointers |-> Body(f, y)]
  BY <1>7, <1>8
<1>10. PICK g : g = CHOOSE h : h = [y \in Pointers |-> Body(h, y)]
  OBVIOUS
<1>11. g = [y \in Pointers |-> Body(g, y)]
  BY <1>9, <1>10
<1>12. \A x : FindById(x, wanted, t) = g[x]
  BY <1>10 DEF FindById, Body
<1>13. g[Null] = base /\ \A y \in Nodes : g[y] = Step(y, g[t.children[y]], g[t.next[y]])
  BY <1>4, <1>11, Pointer
<1>14. \A y \in Pointers : g[y] \in V
  <2> DEFINE S == {y \in Pointers : g[y] \in V}
  <2>1. Null \in S
    BY <1>2, <1>13, Pointer
  <2>2. \A y \in Nodes : t.children[y] \in S /\ t.next[y] \in S => y \in S
    BY <1>3, <1>13, Pointer
  <2>3. \A y \in Pointers : y \in S
    <3> HIDE DEF S
    <3> QED
      BY <2>1, <2>2, DownInduction
  <2> QED
    BY <2>3
<1>15. g \in [Pointers -> V]
  BY <1>11, <1>14
<1> QED
  BY <1>1, <1>12, <1>13, <1>15, Pointer DEF V, Step

(* SetExpansionState at the end of a list and at a node.                   *)
LEMMA SetExpansionStateIs ==
  ASSUME NEW t, IsTree(t), NEW new
  PROVE  \E g \in [Pointers -> [SUBSET Nodes -> SUBSET Nodes]] :
           ExpansionFollows(g, t, new)
<1> DEFINE V == [SUBSET Nodes -> SUBSET Nodes]
           Step(y, i, j) == [old \in SUBSET Nodes |->
             i[j[IF new THEN old \cup {y} ELSE old \ {y}]]]
           Body(h, y) == [old \in SUBSET Nodes |->
             IF y = Null THEN old
             ELSE LET one == IF new THEN old \cup {y} ELSE old \ {y}
                  IN  h[t.children[y]][h[t.next[y]][one]]]
<1>1. PICK base : base = [old \in SUBSET Nodes |-> old]
  OBVIOUS
<1>2. base \in V
  BY <1>1, Pointer DEF Pointers
<1>3. ASSUME NEW y \in Nodes, NEW i \in V, NEW j \in V
      PROVE  Step(y, i, j) \in V
  <2>1. \A old \in SUBSET Nodes :
          (IF new THEN old \cup {y} ELSE old \ {y}) \in SUBSET Nodes
    OBVIOUS
  <2>2. \A old \in SUBSET Nodes : i[old] \in SUBSET Nodes /\ j[old] \in SUBSET Nodes
    OBVIOUS
  <2>3. \A old \in SUBSET Nodes :
          i[j[IF new THEN old \cup {y} ELSE old \ {y}]] \in SUBSET Nodes
    BY <2>1, <2>2
  <2> QED
    BY <2>3
<1>4. ASSUME NEW h
      PROVE  /\ Body(h, Null) = base
             /\ \A y \in Nodes : Body(h, y) = Step(y, h[t.children[y]], h[t.next[y]])
  <2>1. Body(h, Null) = base
    BY <1>1
  <2>2. ASSUME NEW y \in Nodes
        PROVE  Body(h, y) = Step(y, h[t.children[y]], h[t.next[y]])
    <3>1. y # Null
      BY Pointer
    <3> QED
      BY <3>1
  <2> HIDE DEF Body, Step
  <2> QED
    BY <2>1, <2>2
<1> HIDE DEF V, Step, Body
<1>5. PICK step : step = [y \in Nodes |-> [i \in V |-> [j \in V |-> Step(y, i, j)]]]
  OBVIOUS
<1>6. step \in [Nodes -> [V -> [V -> V]]]
  BY <1>3, <1>5
<1>7. PICK f \in [Pointers -> V] : Follows(f, t, base, step, Nodes)
  BY <1>2, <1>6, DownRecursion
<1>8. \A y \in Pointers : f[y] = Body(f, y)
  <2>1. f[Null] = Body(f, Null)
    BY <1>4, <1>7 DEF Follows
  <2>2. \A y \in Nodes : f[y] = Step(y, f[t.children[y]], f[t.next[y]])
    BY <1>5, <1>7, Pointer DEF Follows
  <2> QED
    BY <1>4, <2>1, <2>2, Pointer
<1>9. f = [y \in Pointers |-> Body(f, y)]
  BY <1>7, <1>8
<1>10. PICK g : g = CHOOSE h : h = [y \in Pointers |-> Body(h, y)]
  OBVIOUS
<1>11. g = [y \in Pointers |-> Body(g, y)]
  BY <1>9, <1>10
<1>12. \A x, open : SetExpansionState(x, new, t, open) = g[x][open]
  BY <1>10 DEF SetExpansionState, Body
<1>13. g[Null] = base /\ \A y \in Nodes : g[y] = Step(y, g[t.children[y]], g[t.next[y]])
  BY <1>4, <1>11, Pointer
<1>14. \A y \in Pointers : g[y] \in V
  <2> DEFINE S == {y \in Pointers : g[y] \in V}
  <2>1. Null \in S
    BY <1>2, <1>13, Pointer
  <2>2. \A y \in Nodes : t.children[y] \in S /\ t.next[y] \in S => y \in S
    BY <1>3, <1>13, Pointer
  <2>3. \A y \in Pointers : y \in S
    <3> HIDE DEF S
    <3> QED
      BY <2>1, <2>2, DownInduction
  <2> QED
    BY <2>3
<1>15. g \in [Pointers -> V]
  BY <1>11, <1>14
<1> QED
  <2>1. \A old \in SUBSET Nodes : g[Null][old] = old
    BY <1>1, <1>13
  <2>2. ASSUME NEW y \in Nodes, NEW old \in SUBSET Nodes
        PROVE  g[y][old] =
                 g[t.children[y]][g[t.next[y]][IF new THEN old \cup {y} ELSE old \ {y}]]
    <3>1. PICK i, j : i = g[t.children[y]] /\ j = g[t.next[y]]
      OBVIOUS
    <3>2. g[y] = Step(y, i, j)
      BY <1>13, <3>1
    <3> USE DEF Step
    <3>3. g[y][old] = i[j[IF new THEN old \cup {y} ELSE old \ {y}]]
      BY <3>2
    <3> QED
      BY <3>1, <3>3
  <2>3. \A y \in Nodes : \A old \in SUBSET Nodes :
          g[y][old] = g[t.children[y]][g[t.next[y]][IF new THEN old \cup {y} ELSE old \ {y}]]
    BY <2>2
  <2> QED
    BY <1>12, <1>15, <2>1, <2>3 DEF V, ExpansionFollows

(* TreeMaxDepth at the end of a list and at a node.                        *)
LEMMA TreeMaxDepthIs ==
  ASSUME NEW t, IsTree(t)
  PROVE  \E g \in [Pointers -> [Nat -> Nat]] :
           /\ \A x : TreeMaxDepth(x, t) = IF x = Null THEN 0 ELSE Larger(1, g[x][1])
           /\ \A depth \in Nat : g[Null][depth] = 0
           /\ \A y \in Nodes : \A depth \in Nat :
                g[y][depth] = Larger(IF t.children[y] = Null THEN depth
                                     ELSE g[t.children[y]][depth + 1],
                                     g[t.next[y]][depth])
<1> DEFINE V == [Nat -> Nat]
           Step(y, i, j) == [depth \in Nat |->
             Larger(IF t.children[y] = Null THEN depth ELSE i[depth + 1], j[depth])]
           Body(h, y) == [depth \in Nat |->
             IF y = Null THEN 0
             ELSE Larger(IF t.children[y] = Null THEN depth
                         ELSE h[t.children[y]][depth + 1],
                         h[t.next[y]][depth])]
<1>1. PICK base : base = [depth \in Nat |-> 0]
  OBVIOUS
<1>2. base \in V
  BY <1>1, Pointer DEF Pointers
<1>3. ASSUME NEW y \in Nodes, NEW i \in V, NEW j \in V
      PROVE  Step(y, i, j) \in V
  <2>1. \A p, q \in Nat : Larger(p, q) \in Nat
    BY DEF Larger
  <2>2. \A depth \in Nat : i[depth + 1] \in Nat /\ j[depth] \in Nat
    OBVIOUS
  <2>3. \A depth \in Nat : (IF t.children[y] = Null THEN depth ELSE i[depth + 1]) \in Nat
    BY <2>2
  <2>4. \A depth \in Nat :
          Larger(IF t.children[y] = Null THEN depth ELSE i[depth + 1], j[depth]) \in Nat
    BY <2>1, <2>2, <2>3
  <2> QED
    BY <2>4
<1>4. ASSUME NEW h
      PROVE  /\ Body(h, Null) = base
             /\ \A y \in Nodes : Body(h, y) = Step(y, h[t.children[y]], h[t.next[y]])
  <2>1. Body(h, Null) = base
    BY <1>1
  <2>2. ASSUME NEW y \in Nodes
        PROVE  Body(h, y) = Step(y, h[t.children[y]], h[t.next[y]])
    <3>1. y # Null
      BY Pointer
    <3> QED
      BY <3>1
  <2> HIDE DEF Body, Step
  <2> QED
    BY <2>1, <2>2
<1> HIDE DEF V, Step, Body
<1>5. PICK step : step = [y \in Nodes |-> [i \in V |-> [j \in V |-> Step(y, i, j)]]]
  OBVIOUS
<1>6. step \in [Nodes -> [V -> [V -> V]]]
  BY <1>3, <1>5
<1>7. PICK f \in [Pointers -> V] : Follows(f, t, base, step, Nodes)
  BY <1>2, <1>6, DownRecursion
<1>8. \A y \in Pointers : f[y] = Body(f, y)
  <2>1. f[Null] = Body(f, Null)
    BY <1>4, <1>7 DEF Follows
  <2>2. \A y \in Nodes : f[y] = Step(y, f[t.children[y]], f[t.next[y]])
    BY <1>5, <1>7, Pointer DEF Follows
  <2> QED
    BY <1>4, <2>1, <2>2, Pointer
<1>9. f = [y \in Pointers |-> Body(f, y)]
  BY <1>7, <1>8
<1>10. PICK g : g = CHOOSE h : h = [y \in Pointers |-> Body(h, y)]
  OBVIOUS
<1>11. g = [y \in Pointers |-> Body(g, y)]
  BY <1>9, <1>10
<1>12. \A x : TreeMaxDepth(x, t) = IF x = Null THEN 0 ELSE Larger(1, g[x][1])
  BY <1>10 DEF TreeMaxDepth, Body
<1>13. g[Null] = base /\ \A y \in Nodes : g[y] = Step(y, g[t.children[y]], g[t.next[y]])
  BY <1>4, <1>11, Pointer
<1>14. \A y \in Pointers : g[y] \in V
  <2> DEFINE S == {y \in Pointers : g[y] \in V}
  <2>1. Null \in S
    BY <1>2, <1>13, Pointer
  <2>2. \A y \in Nodes : t.children[y] \in S /\ t.next[y] \in S => y \in S
    BY <1>3, <1>13, Pointer
  <2>3. \A y \in Pointers : y \in S
    <3> HIDE DEF S
    <3> QED
      BY <2>1, <2>2, DownInduction
  <2> QED
    BY <2>3
<1>15. g \in [Pointers -> V]
  BY <1>11, <1>14
<1> QED
  <2>1. \A depth \in Nat : g[Null][depth] = 0
    BY <1>1, <1>13
  <2>2. ASSUME NEW y \in Nodes, NEW depth \in Nat
        PROVE  g[y][depth] = Larger(IF t.children[y] = Null THEN depth
                                    ELSE g[t.children[y]][depth + 1],
                                    g[t.next[y]][depth])
    <3>1. PICK i, j : i = g[t.children[y]] /\ j = g[t.next[y]]
      OBVIOUS
    <3>2. g[y] = Step(y, i, j)
      BY <1>13, <3>1
    <3> USE DEF Step
    <3>3. g[y][depth] = Larger(IF t.children[y] = Null THEN depth ELSE i[depth + 1], j[depth])
      BY <3>2
    <3> QED
      BY <3>1, <3>3
  <2>3. \A y \in Nodes : \A depth \in Nat :
          g[y][depth] = Larger(IF t.children[y] = Null THEN depth
                               ELSE g[t.children[y]][depth + 1],
                               g[t.next[y]][depth])
    BY <2>2
  <2> QED
    BY <1>12, <1>15, <2>1, <2>3 DEF V

(* What is printed so far is a count and rows.                             *)
LEMMA PrintedHas ==
  \A out \in Printed : /\ out.count \in Nat /\ out.count + 1 \in Nat
                       /\ out.rows \in Seq([node : Nodes, depth : Nat, count : Nat])
BY DEF Printed

(* PrintTreeItem at the end of a list and at a node.                       *)
LEMMA PrintTreeItemIs ==
  ASSUME NEW t, IsTree(t), NEW into, NEW shown
  PROVE  \E g \in [Pointers -> [Nat -> [Printed -> Printed]]] :
           PrintFollows(g, t, into, shown)
<1> DEFINE V == [Nat -> [Printed -> Printed]]
           Step(y, i, j) == [depth \in Nat |-> [out \in Printed |->
             LET count == out.count + 1
                 row == [node |-> y, depth |-> depth, count |-> count]
                 one == [count |-> count,
                         rows |-> IF y \in shown THEN Append(out.rows, row) ELSE out.rows]
                 below == IF y \in into THEN i[depth + 1][one] ELSE one
             IN  j[depth][below]]]
           Body(h, y) == [depth \in Nat |-> [out \in Printed |->
             IF y = Null THEN out
             ELSE LET count == out.count + 1
                      row == [node |-> y, depth |-> depth, count |-> count]
                      one == [count |-> count,
                              rows |-> IF y \in shown THEN Append(out.rows, row) ELSE out.rows]
                      below == IF y \in into THEN h[t.children[y]][depth + 1][one] ELSE one
                  IN  h[t.next[y]][depth][below]]]
<1>1. PICK base : base = [depth \in Nat |-> [out \in Printed |-> out]]
  OBVIOUS
<1>2. base \in V
  BY <1>1, Pointer DEF Pointers
<1>3. ASSUME NEW y \in Nodes, NEW i \in V, NEW j \in V
      PROVE  Step(y, i, j) \in V
  <2>1. ASSUME NEW depth \in Nat, NEW out \in Printed
        PROVE  [count |-> out.count + 1,
                rows |-> IF y \in shown
                         THEN Append(out.rows,
                                     [node |-> y, depth |-> depth, count |-> out.count + 1])
                         ELSE out.rows] \in Printed
    <3>1. out.count + 1 \in Nat /\ out.rows \in Seq([node : Nodes, depth : Nat, count : Nat])
      <4> HIDE DEF V
      <4> QED
        BY PrintedHas
    <3>2. [node |-> y, depth |-> depth, count |-> out.count + 1]
            \in [node : Nodes, depth : Nat, count : Nat]
      BY <3>1
    <3>3. Append(out.rows, [node |-> y, depth |-> depth, count |-> out.count + 1])
            \in Seq([node : Nodes, depth : Nat, count : Nat])
      BY <3>1, <3>2
    <3> QED
      BY <3>1, <3>3 DEF Printed
  <2>2. \A depth \in Nat, out \in Printed :
          i[depth + 1][out] \in Printed /\ j[depth][out] \in Printed
    OBVIOUS
  <2> QED
    BY <2>1, <2>2
<1>4. ASSUME NEW h
      PROVE  /\ Body(h, Null) = base
             /\ \A y \in Nodes : Body(h, y) = Step(y, h[t.children[y]], h[t.next[y]])
  <2>1. Body(h, Null) = base
    BY <1>1
  <2>2. ASSUME NEW y \in Nodes
        PROVE  Body(h, y) = Step(y, h[t.children[y]], h[t.next[y]])
    <3>1. y # Null
      BY Pointer
    <3> QED
      BY <3>1
  <2> HIDE DEF Body, Step
  <2> QED
    BY <2>1, <2>2
<1> HIDE DEF V, Step, Body
<1>5. PICK step : step = [y \in Nodes |-> [i \in V |-> [j \in V |-> Step(y, i, j)]]]
  OBVIOUS
<1>6. step \in [Nodes -> [V -> [V -> V]]]
  BY <1>3, <1>5
<1>7. PICK f \in [Pointers -> V] : Follows(f, t, base, step, Nodes)
  BY <1>2, <1>6, DownRecursion
<1>8. \A y \in Pointers : f[y] = Body(f, y)
  <2>1. f[Null] = Body(f, Null)
    BY <1>4, <1>7 DEF Follows
  <2>2. \A y \in Nodes : f[y] = Step(y, f[t.children[y]], f[t.next[y]])
    BY <1>5, <1>7, Pointer DEF Follows
  <2> QED
    BY <1>4, <2>1, <2>2, Pointer
<1>9. f = [y \in Pointers |-> Body(f, y)]
  BY <1>7, <1>8
<1>10. PICK g : g = CHOOSE h : h = [y \in Pointers |-> Body(h, y)]
  OBVIOUS
<1>11. g = [y \in Pointers |-> Body(g, y)]
  BY <1>9, <1>10
<1>12. \A x : PrintTreeItem(x, t, into, shown) = g[x][0][[count |-> 0, rows |-> << >>]].rows
  BY <1>10 DEF PrintTreeItem, Body
<1>13. g[Null] = base /\ \A y \in Nodes : g[y] = Step(y, g[t.children[y]], g[t.next[y]])
  BY <1>4, <1>11, Pointer
<1>14. \A y \in Pointers : g[y] \in V
  <2> DEFINE S == {y \in Pointers : g[y] \in V}
  <2>1. Null \in S
    BY <1>2, <1>13, Pointer
  <2>2. \A y \in Nodes : t.children[y] \in S /\ t.next[y] \in S => y \in S
    BY <1>3, <1>13, Pointer
  <2>3. \A y \in Pointers : y \in S
    <3> HIDE DEF S
    <3> QED
      BY <2>1, <2>2, DownInduction
  <2> QED
    BY <2>3
<1>15. g \in [Pointers -> V]
  BY <1>11, <1>14
<1> QED
  <2>1. \A depth \in Nat, out \in Printed : g[Null][depth][out] = out
    BY <1>1, <1>13
  <2>2. ASSUME NEW y \in Nodes, NEW depth \in Nat, NEW out \in Printed
        PROVE  g[y][depth][out] =
                 LET count == out.count + 1
                     row == [node |-> y, depth |-> depth, count |-> count]
                     one == [count |-> count,
                             rows |-> IF y \in shown THEN Append(out.rows, row) ELSE out.rows]
                     below == IF y \in into THEN g[t.children[y]][depth + 1][one] ELSE one
                 IN  g[t.next[y]][depth][below]
    <3>1. PICK i, j : i = g[t.children[y]] /\ j = g[t.next[y]]
      OBVIOUS
    <3>2. g[y] = Step(y, i, j)
      BY <1>13, <3>1
    <3> USE DEF Step
    <3>3. g[y][depth][out] =
            LET count == out.count + 1
                row == [node |-> y, depth |-> depth, count |-> count]
                one == [count |-> count,
                        rows |-> IF y \in shown THEN Append(out.rows, row) ELSE out.rows]
                below == IF y \in into THEN i[depth + 1][one] ELSE one
            IN  j[depth][below]
      BY <3>2
    <3> QED
      BY <3>1, <3>3
  <2> HIDE DEF Step
  <2>3. \A y \in Nodes, depth \in Nat, out \in Printed :
          g[y][depth][out] =
            LET count == out.count + 1
                row == [node |-> y, depth |-> depth, count |-> count]
                one == [count |-> count,
                        rows |-> IF y \in shown THEN Append(out.rows, row) ELSE out.rows]
                below == IF y \in into THEN g[t.children[y]][depth + 1][one] ELSE one
            IN  g[t.next[y]][depth][below]
    BY <2>2
  <2> QED
    BY <1>12, <1>15, <2>1, <2>3 DEF V, PrintFollows

-----------------------------------------------------------------------------
(* What the counts, the searches and the marking come to *)

(* Size counts the siblings, and they are the children of their parent.    *)
LEMMA SizeCounts ==
  ASSUME NEW t, IsTree(t)
  PROVE  \A x \in Pointers : /\ IsFiniteSet(Siblings(x, t))
                             /\ Size(x, t) = Cardinality(Siblings(x, t))
<1> DEFINE S == {x \in Pointers : /\ IsFiniteSet(Siblings(x, t))
                                  /\ Size(x, t) = Cardinality(Siblings(x, t))}
<1>1. Null \in S
  BY SiblingsAre, SizeIs, FS_EmptySet, Pointer
<1>2. ASSUME NEW x \in Nodes, t.children[x] \in S, t.next[x] \in S
      PROVE  x \in S
  <2>1. PICK A : A = Siblings(t.next[x], t)
    OBVIOUS
  <2>2. IsFiniteSet(A) /\ Size(t.next[x], t) = Cardinality(A) /\ Cardinality(A) \in Nat
    BY <1>2, <2>1, FS_CardinalityType
  <2>3. x \notin A
    BY <2>1, NotBehindItself
  <2>4. Siblings(x, t) = A \cup {x}
    BY <2>1, SiblingsAre
  <2>5. IsFiniteSet(A \cup {x}) /\ Cardinality(A \cup {x}) = Cardinality(A) + 1
    BY <2>2, <2>3, FS_AddElement
  <2>6. Size(x, t) = 1 + Size(t.next[x], t)
    BY SizeIs
  <2>7. Size(x, t) = Cardinality(A \cup {x})
    BY <2>2, <2>5, <2>6
  <2> QED
    BY <2>4, <2>5, <2>7, Pointer
<1>3. \A x \in Pointers : x \in S
  <2> HIDE DEF S
  <2> QED
    BY <1>1, <1>2, DownInduction
<1> QED
  BY <1>3

(* The list of children has the nodes whose parent is n.                   *)
LEMMA ChildrenAre ==
  ASSUME NEW t, IsTree(t), NEW n \in Nodes
  PROVE  Siblings(t.children[n], t) = {m \in Nodes : t.parent[m] = n}
<1>1. ASSUME NEW m \in Siblings(t.children[n], t)
      PROVE  m \in Nodes /\ t.parent[m] = n
  <2>1. /\ m \in Nodes /\ t.children[n] \in Nodes
        /\ t.parent[m] = t.parent[t.children[n]]
    BY SameParent, Pointer
  <2> QED
    BY <2>1, Linked, Pointer
<1>2. ASSUME NEW m \in Nodes, t.parent[m] = n
      PROVE  m \in Siblings(t.children[n], t)
  BY <1>2, ChildrenAreListed, Pointer
<1> QED
  BY <1>1, <1>2

(* ChildCount counts them, or everything below.                            *)
LEMMA ChildCountCounts ==
  ASSUME NEW t, IsTree(t)
  PROVE  \A x \in Pointers :
           /\ x # Null => ChildCount(x, FALSE, t) = Size(t.children[x], t)
           /\ x # Null => ChildCount(x, TRUE, t) = TotalSize(t.children[x], t)
<1>1. PICK g \in [Pointers -> Nat] : ChildCountFollows(g, t, FALSE)
  BY ChildCountIs
<1>2. PICK h \in [Pointers -> Nat] : ChildCountFollows(h, t, TRUE)
  BY ChildCountIs
<1> DEFINE S == {x \in Pointers : g[x] = Size(x, t) /\ h[x] = TotalSize(x, t)}
<1>3. Null \in S
  BY <1>1, <1>2, SizeIs, TotalSizeIs, Pointer DEF ChildCountFollows
<1>4. ASSUME NEW x \in Nodes, t.children[x] \in S, t.next[x] \in S
      PROVE  x \in S
  <2>1. g[x] = 1 + g[t.next[x]]
    BY <1>1, Pointer DEF ChildCountFollows
  <2>2. h[x] = 1 + TotalSize(t.children[x], t) + h[t.next[x]]
    BY <1>2, Pointer DEF ChildCountFollows
  <2>3. Size(x, t) = 1 + Size(t.next[x], t)
    BY SizeIs
  <2>4. TotalSize(x, t) = 1 + TotalSize(t.children[x], t) + TotalSize(t.next[x], t)
    BY TotalSizeIs
  <2> QED
    BY <1>4, <2>1, <2>2, <2>3, <2>4, Pointer
<1>5. \A x \in Pointers : x \in S
  <2> HIDE DEF S
  <2> QED
    BY <1>3, <1>4, DownInduction
<1> QED
  BY <1>1, <1>2, <1>5, Pointer DEF ChildCountFollows

(* What is under the root is the tree.                                     *)
LEMMA UnderRoot ==
  ASSUME NEW t, IsTree(t)
  PROVE  Under(Root, t) = Reached(t)
<1>1. Under(Root, t) = {n \in Reached(t) : Ancestors(n, t) \subseteq Nodes}
  BY ShownIsVisible DEF Under
<1>2. \A n \in Reached(t) : Ancestors(n, t) \subseteq Nodes
  BY AncestorsAre DEF Reached
<1> QED
  BY <1>1, <1>2

(* Under at the end of a list and at a node.                               *)
LEMMA UnderIs ==
  ASSUME NEW t, IsTree(t)
  PROVE  /\ Under(Null, t) = {}
         /\ \A x \in Pointers : Under(x, t) \in SUBSET Nodes
         /\ \A x \in Nodes :
              Under(x, t) = {x} \cup Under(t.children[x], t) \cup Under(t.next[x], t)
BY ShownIs DEF Under

\* top is the largest depth under x, when x has depth.
Deepest(top, x, depth, t) ==
  /\ \A n \in Under(x, t) : depth + (ComputedDepth(n, t) - ComputedDepth(x, t)) <= top
  /\ \E n \in Under(x, t) : depth + (ComputedDepth(n, t) - ComputedDepth(x, t)) = top

(* TreeMaxDepth finds it, counted from 1.                                  *)
LEMMA MaxDepthIsDeepest ==
  ASSUME NEW t, IsTree(t)
  PROVE  /\ \A n \in Reached(t) : ComputedDepth(n, t) < TreeMaxDepth(Root, t)
         /\ \E n \in Reached(t) : ComputedDepth(n, t) + 1 = TreeMaxDepth(Root, t)
<1>1. PICK g \in [Pointers -> [Nat -> Nat]] :
           /\ \A x : TreeMaxDepth(x, t) = IF x = Null THEN 0 ELSE Larger(1, g[x][1])
           /\ \A depth \in Nat : g[Null][depth] = 0
           /\ \A y \in Nodes : \A depth \in Nat :
                g[y][depth] = Larger(IF t.children[y] = Null THEN depth
                                     ELSE g[t.children[y]][depth + 1],
                                     g[t.next[y]][depth])
  BY TreeMaxDepthIs
<1> DEFINE S == {x \in Pointers : x # Null => \A d \in Nat : Deepest(g[x][d], x, d, t)}
<1>2. Null \in S
  BY Pointer
<1>3. ASSUME NEW x \in Nodes, t.children[x] \in S, t.next[x] \in S
      PROVE  x \in S
  <2> SUFFICES ASSUME NEW d \in Nat PROVE Deepest(g[x][d], x, d, t)
    BY Pointer
  <2>1. PICK level \in Nat : level = ComputedDepth(x, t)
    BY DepthIs
  <2>2. PICK i \in Nat : i = IF t.children[x] = Null THEN d ELSE g[t.children[x]][d + 1]
    <3>1. t.children[x] \in Pointers /\ d + 1 \in Nat
      BY Pointer
    <3>2. g[t.children[x]][d + 1] \in Nat
      BY <3>1
    <3> QED
      BY <3>2
  <2>3. PICK j \in Nat : j = g[t.next[x]][d]
    BY <1>1, Pointer
  <2>4. PICK top \in Nat : top = g[x][d]
    BY <1>1, Pointer
  <2>5. top = IF i > j THEN i ELSE j
    BY <1>1, <2>2, <2>3, <2>4 DEF Larger
  <2>6. PICK A, D : A = Under(t.children[x], t) /\ D = Under(t.next[x], t)
    OBVIOUS
  <2>7. Under(x, t) = {x} \cup A \cup D
    BY <2>6, UnderIs
  <2>8. \A n \in {x} \cup A \cup D : ComputedDepth(n, t) \in Nat
    <3>1. A \cup D \subseteq Nodes
      BY <2>6, UnderIs, Pointer
    <3> QED
      BY <3>1, DepthIs
  <2>9. /\ d <= i /\ \A n \in A : d + (ComputedDepth(n, t) - level) <= i
        /\ (i = d) \/ \E n \in A : d + (ComputedDepth(n, t) - level) = i
    <3>1. CASE t.children[x] = Null
      <4>1. A = {} /\ i = d
        BY <2>2, <2>6, <3>1, UnderIs
      <4> QED
        BY <4>1
    <3>2. CASE t.children[x] # Null
      <4>1. t.children[x] \in Nodes /\ t.parent[t.children[x]] = x /\ x # Null
        BY <3>2, Linked, Pointer
      <4>2. ComputedDepth(t.children[x], t) = 1 + level
        BY <2>1, <4>1, DepthIs
      <4>3. i = g[t.children[x]][d + 1] /\ d + 1 \in Nat
        BY <2>2, <3>2
      <4>4. Deepest(i, t.children[x], d + 1, t)
        BY <1>3, <3>2, <4>3
      <4>5. ASSUME NEW n \in A
            PROVE  (d + 1) + (ComputedDepth(n, t) - (1 + level)) = d + (ComputedDepth(n, t) - level)
        <5>1. PICK k \in Nat : k = ComputedDepth(n, t)
          BY <2>8
        <5>2. (d + 1) + (k - (1 + level)) = d + (k - level)
          OBVIOUS
        <5> QED
          BY <5>1, <5>2
      <4>6. \A n \in A : d + (ComputedDepth(n, t) - level) <= i
        BY <2>6, <4>2, <4>4, <4>5 DEF Deepest
      <4>7. \E n \in A : d + (ComputedDepth(n, t) - level) = i
        BY <2>6, <4>2, <4>4, <4>5 DEF Deepest
      <4>8. t.children[x] \in A
        BY <2>6, <4>1, UnderIs
      <4>9. d + ((1 + level) - level) <= i
        BY <4>2, <4>6, <4>8
      <4>10. d <= i
        BY <4>9
      <4> QED
        BY <4>6, <4>7, <4>10
    <3> QED
      BY <3>1, <3>2
  <2>10. /\ \A n \in D : d + (ComputedDepth(n, t) - level) <= j
         /\ (j = 0) \/ \E n \in D : d + (ComputedDepth(n, t) - level) = j
    <3>1. CASE t.next[x] = Null
      BY <1>1, <2>3, <2>6, <3>1, UnderIs
    <3>2. CASE t.next[x] # Null
      <4>1. t.next[x] \in Nodes
        BY <3>2, Pointer
      <4>2. t.next[x] \in Siblings(x, t)
        BY <4>1, SiblingsAre
      <4>3. ComputedDepth(t.next[x], t) = level
        BY <2>1, <4>2, SameParent, Pointer
      <4>4. Deepest(j, t.next[x], d, t)
        BY <1>3, <2>3, <3>2
      <4> QED
        BY <2>6, <4>3, <4>4 DEF Deepest
    <3> QED
      BY <3>1, <3>2
  <2>11. i <= top /\ j <= top /\ (top = i \/ top = j)
    BY <2>5
  <2>12. ASSUME NEW n \in {x} \cup A \cup D
         PROVE  d + (ComputedDepth(n, t) - level) <= top
    <3>1. PICK k \in Nat : k = ComputedDepth(n, t)
      BY <2>8
    <3>2. CASE n = x
      BY <2>1, <2>9, <2>11, <3>1, <3>2
    <3>3. CASE n \in A
      <4>1. d + (k - level) <= i
        BY <2>9, <3>1, <3>3
      <4> QED
        BY <2>11, <3>1, <4>1
    <3>4. CASE n \in D
      <4>1. d + (k - level) <= j
        BY <2>10, <3>1, <3>4
      <4> QED
        BY <2>11, <3>1, <4>1
    <3> QED
      BY <3>2, <3>3, <3>4
  <2>13. \E n \in {x} \cup A \cup D : d + (ComputedDepth(n, t) - level) = top
    <3>1. CASE top = i
      <4>1. CASE i = d
        <5>1. d + (ComputedDepth(x, t) - level) = top
          BY <2>1, <3>1, <4>1
        <5> QED
          BY <5>1
      <4> QED
        BY <2>9, <3>1, <4>1
    <3>2. CASE top = j /\ top # i
      <4>1. j # 0
        BY <2>11, <3>2
      <4> QED
        BY <2>10, <3>2, <4>1
    <3> QED
      BY <2>11, <3>1, <3>2
  <2> QED
    BY <2>1, <2>4, <2>7, <2>12, <2>13 DEF Deepest
<1>4. \A x \in Pointers : x \in S
  <2> HIDE DEF S
  <2> QED
    BY <1>2, <1>3, DownInduction
<1>5. Root \in Nodes /\ Root \in Pointers /\ Root # Null /\ ComputedDepth(Root, t) = 0
  BY Linked, Pointer, DepthIs
<1>6. PICK top \in Nat : top = g[Root][1]
  BY <1>1, <1>5
<1>7. Deepest(top, Root, 1, t)
  BY <1>4, <1>5, <1>6
<1>8. \A n \in Reached(t) : ComputedDepth(n, t) \in Nat
  BY DepthIs DEF Reached
<1>9. \A n \in Reached(t) : 1 + ComputedDepth(n, t) <= top
  BY <1>5, <1>7, <1>8, UnderRoot DEF Deepest
<1>10. \E n \in Reached(t) : 1 + ComputedDepth(n, t) = top
  BY <1>5, <1>7, <1>8, UnderRoot DEF Deepest
<1>11. Root \in Reached(t)
  BY <1>5 DEF Reached
<1>12. 1 <= top
  BY <1>5, <1>9, <1>11
<1>13. TreeMaxDepth(Root, t) = top
  BY <1>1, <1>5, <1>6, <1>12 DEF Larger
<1> QED
  BY <1>8, <1>9, <1>10, <1>13

(* TreeExists marks the wanted nodes under x.                              *)
LEMMA TreeExistsMarks ==
  ASSUME NEW t, IsTree(t), NEW wanted
  PROVE  \A x \in Pointers : TreeExists(x, wanted, t) = wanted \cap Under(x, t)
<1> DEFINE S == {x \in Pointers : TreeExists(x, wanted, t) = wanted \cap Under(x, t)}
<1>1. Null \in S
  BY TreeExistsIs, UnderIs, Pointer
<1>2. ASSUME NEW x \in Nodes, t.children[x] \in S, t.next[x] \in S
      PROVE  x \in S
  <2>1. TreeExists(x, wanted, t) = ({x} \cap wanted) \cup TreeExists(t.next[x], wanted, t)
                                     \cup TreeExists(t.children[x], wanted, t)
    BY TreeExistsIs
  <2>2. Under(x, t) = {x} \cup Under(t.children[x], t) \cup Under(t.next[x], t)
    BY UnderIs
  <2> QED
    BY <1>2, <2>1, <2>2, Pointer
<1>3. \A x \in Pointers : x \in S
  <2> HIDE DEF S
  <2> QED
    BY <1>1, <1>2, DownInduction
<1> QED
  BY <1>3

\* found is one of there, or Null when there is none.
OneOf(found, there) == found \in IF there = {} THEN {Null} ELSE there

(* SearchTree finds one of them, when there is one.                        *)
LEMMA SearchTreeFinds ==
  ASSUME NEW t, IsTree(t), NEW wanted \in SUBSET Nodes
  PROVE  \A x \in Pointers : OneOf(SearchTree(x, wanted, t), wanted \cap Under(x, t))
<1> DEFINE S == {x \in Pointers : OneOf(SearchTree(x, wanted, t), wanted \cap Under(x, t))}
<1>1. Null \in S
  <2>1. SearchTree(Null, wanted, t) = Null
    BY SearchTreeIs
  <2>2. wanted \cap Under(Null, t) = {}
    BY UnderIs
  <2> QED
    BY <2>1, <2>2, Pointer DEF OneOf
<1>2. ASSUME NEW x \in Nodes, t.children[x] \in S, t.next[x] \in S
      PROVE  x \in S
  <2>1. PICK found : found = SearchTree(x, wanted, t)
    OBVIOUS
  <2>2. PICK i, j : i = SearchTree(t.children[x], wanted, t) /\ j = SearchTree(t.next[x], wanted, t)
    OBVIOUS
  <2>3. found = IF x \in wanted THEN x ELSE IF j # Null THEN j ELSE i
    BY <2>1, <2>2, SearchTreeIs
  <2>4. PICK A, D : A = wanted \cap Under(t.children[x], t) /\ D = wanted \cap Under(t.next[x], t)
    OBVIOUS
  <2>5. wanted \cap Under(x, t) = (wanted \cap {x}) \cup A \cup D
    BY <2>4, UnderIs
  <2>6. OneOf(i, A) /\ OneOf(j, D)
    BY <1>2, <2>2, <2>4
  <2>7. Null \notin A /\ Null \notin D
    BY <2>4, Pointer
  <2>8. CASE x \in wanted
    <3>1. found = x /\ x \in wanted \cap Under(x, t)
      BY <2>3, <2>5, <2>8
    <3>2. OneOf(found, wanted \cap Under(x, t))
      BY <3>1 DEF OneOf
    <3> QED
      BY <2>1, <3>2, Pointer
  <2>9. CASE x \notin wanted
    <3>1. wanted \cap Under(x, t) = A \cup D
      BY <2>5, <2>9
    <3>2. found = IF j # Null THEN j ELSE i
      BY <2>3, <2>9
    <3>3. OneOf(found, A \cup D)
      BY <2>6, <2>7, <3>2 DEF OneOf
    <3> QED
      BY <3>1, <3>3, <2>1, Pointer
  <2> QED
    BY <2>1, <2>8, <2>9, Pointer
<1>3. \A x \in Pointers : x \in S
  <2> HIDE DEF S
  <2> QED
    BY <1>1, <1>2, DownInduction
<1> QED
  BY <1>3

\* found is the topmost of there.
Topmost(found, there, t) ==
  IF there = {} THEN found = Null
  ELSE found \in there /\ \A m \in there \ {found} : Above(found, m, t)

(* FindById finds the topmost.                                             *)
LEMMA FindByIdFinds ==
  ASSUME NEW t, IsTree(t), NEW wanted \in SUBSET Nodes
  PROVE  \A x \in Pointers : Topmost(FindById(x, wanted, t), wanted \cap Under(x, t), t)
<1> DEFINE S == {x \in Pointers : Topmost(FindById(x, wanted, t), wanted \cap Under(x, t), t)}
<1>1. Null \in S
  <2>1. FindById(Null, wanted, t) = Null
    BY FindByIdIs
  <2>2. wanted \cap Under(Null, t) = {}
    BY UnderIs
  <2> QED
    BY <2>1, <2>2, Pointer DEF Topmost
<1>2. ASSUME NEW x \in Nodes, t.children[x] \in S, t.next[x] \in S
      PROVE  x \in S
  <2>1. PICK found : found = FindById(x, wanted, t)
    OBVIOUS
  <2>2. PICK i, j : i = FindById(t.children[x], wanted, t) /\ j = FindById(t.next[x], wanted, t)
    OBVIOUS
  <2>3. found = IF x \in wanted THEN x ELSE IF i # Null THEN i ELSE j
    BY <2>1, <2>2, FindByIdIs
  <2>4. PICK A, D : A = wanted \cap Under(t.children[x], t) /\ D = wanted \cap Under(t.next[x], t)
    OBVIOUS
  <2>5. wanted \cap Under(x, t) = (wanted \cap {x}) \cup A \cup D
    BY <2>4, UnderIs
  <2>6. Topmost(i, A, t) /\ Topmost(j, D, t)
    BY <1>2, <2>2, <2>4
  <2>7. Null \notin A /\ Null \notin D
    BY <2>4, Pointer
  <2>8. /\ \A p \in A : Above(x, p, t)
        /\ \A q \in D : Above(x, q, t)
        /\ \A p \in A : \A q \in D : Above(p, q, t)
    BY <2>4, ShownApart DEF Under
  <2>9. CASE x \in wanted
    <3>1. found = x /\ x \in wanted \cap Under(x, t)
      BY <2>3, <2>5, <2>9
    <3>2. \A m \in (wanted \cap Under(x, t)) \ {found} : Above(found, m, t)
      BY <2>5, <2>8, <3>1
    <3> QED
      BY <2>1, <3>1, <3>2, Pointer DEF Topmost
  <2>10. CASE x \notin wanted
    <3>1. wanted \cap Under(x, t) = A \cup D
      BY <2>5, <2>10
    <3>2. found = IF i # Null THEN i ELSE j
      BY <2>3, <2>10
    <3>3. CASE A # {}
      <4>1. i \in A /\ (\A m \in A \ {i} : Above(i, m, t)) /\ found = i
        BY <2>6, <2>7, <3>2, <3>3 DEF Topmost
      <4>2. \A m \in (A \cup D) \ {found} : Above(found, m, t)
        BY <2>8, <4>1
      <4>3. A \cup D # {} /\ found \in A \cup D
        BY <4>1
      <4> QED
        BY <2>1, <3>1, <4>2, <4>3, Pointer DEF Topmost
    <3>4. CASE A = {}
      <4>1. i = Null /\ found = j /\ A \cup D = D
        BY <2>6, <3>2, <3>4 DEF Topmost
      <4> QED
        BY <2>1, <2>6, <3>1, <4>1, Pointer
    <3> QED
      BY <3>3, <3>4
  <2> QED
    BY <2>9, <2>10
<1>3. \A x \in Pointers : x \in S
  <2> HIDE DEF S
  <2> QED
    BY <1>1, <1>2, DownInduction
<1> QED
  BY <1>3

(* SetExpansionState marks what is under x.                                *)
LEMMA ExpandingAllMarks ==
  ASSUME NEW t, IsTree(t), NEW open \in SUBSET Nodes
  PROVE  SetExpansionState(Root, TRUE, t, open) = open \cup Reached(t)
<1>0. PICK g \in [Pointers -> [SUBSET Nodes -> SUBSET Nodes]] : ExpansionFollows(g, t, TRUE)
  BY SetExpansionStateIs
<1>1. /\ \A x, old : SetExpansionState(x, TRUE, t, old) = g[x][old]
      /\ \A old \in SUBSET Nodes : g[Null][old] = old
      /\ \A y \in Nodes : \A old \in SUBSET Nodes :
           g[y][old] = g[t.children[y]][g[t.next[y]][old \cup {y}]]
  BY <1>0 DEF ExpansionFollows
<1> DEFINE S == {x \in Pointers : \A old \in SUBSET Nodes : g[x][old] = old \cup Under(x, t)}
<1>2. Null \in S
  BY <1>1, UnderIs, Pointer
<1>3. ASSUME NEW x \in Nodes, t.children[x] \in S, t.next[x] \in S
      PROVE  x \in S
  <2> SUFFICES ASSUME NEW old \in SUBSET Nodes PROVE g[x][old] = old \cup Under(x, t)
    BY Pointer
  <2>1. PICK A, D : A = Under(t.children[x], t) /\ D = Under(t.next[x], t)
    OBVIOUS
  <2>2. A \in SUBSET Nodes /\ D \in SUBSET Nodes
    BY <2>1, UnderIs, Pointer
  <2>3. PICK one \in SUBSET Nodes : one = old \cup {x}
    OBVIOUS
  <2>4. g[t.next[x]][one] = one \cup D
    BY <1>3, <2>1
  <2>5. PICK two \in SUBSET Nodes : two = one \cup D
    BY <2>2
  <2>6. g[t.children[x]][two] = two \cup A
    BY <1>3, <2>1
  <2>7. g[x][old] = two \cup A
    <3>1. g[x][old] = g[t.children[x]][g[t.next[x]][one]]
      BY <1>1, <2>3
    <3>2. g[x][old] = g[t.children[x]][two]
      BY <2>4, <2>5, <3>1
    <3> QED
      BY <2>6, <3>2
  <2>8. Under(x, t) = {x} \cup A \cup D
    BY <2>1, UnderIs
  <2> QED
    BY <2>3, <2>5, <2>7, <2>8
<1>4. \A x \in Pointers : x \in S
  <2> HIDE DEF S
  <2> QED
    BY <1>2, <1>3, DownInduction
<1> QED
  <2>1. g[Root][open] = open \cup Under(Root, t)
    BY <1>4, Pointer
  <2>2. SetExpansionState(Root, TRUE, t, open) = g[Root][open]
    BY <1>1
  <2> QED
    BY <2>1, <2>2, UnderRoot

(* MarkParentsExpanded marks a node and the nodes above it.                *)
LEMMA MarkingParentsMarks ==
  ASSUME NEW t, IsTree(t), NEW open, NEW x \in Nodes
  PROVE  MarkParentsExpanded(x, t, open) = open \cup Line(x, t)
<1> DEFINE Body(h, y) == {y} \cup IF t.parent[y] = Null THEN {} ELSE h[t.parent[y]]
<1>1. PICK f : f = [y \in Nodes |-> Line(y, t)]
  OBVIOUS
<1>2. ASSUME NEW y \in Nodes
      PROVE  f[y] = Body(f, y)
  <2>1. CASE t.parent[y] = Null
    BY <1>1, <2>1, AncestorsAre DEF Line
  <2>2. CASE t.parent[y] # Null
    <3>1. t.parent[y] \in Nodes
      BY <2>2, Linked
    <3>2. f[t.parent[y]] = Ancestors(t.parent[y], t) \cup {t.parent[y]}
      BY <1>1, <3>1 DEF Line
    <3>3. Ancestors(y, t) = {t.parent[y]} \cup Ancestors(t.parent[y], t)
      BY <2>2, AncestorsAre
    <3>4. f[y] = Ancestors(y, t) \cup {y}
      BY <1>1 DEF Line
    <3> QED
      BY <2>2, <3>2, <3>3, <3>4
  <2> QED
    BY <2>1, <2>2
<1> HIDE DEF Body
<1>3. f = [y \in Nodes |-> Body(f, y)]
  BY <1>1, <1>2
<1>4. PICK g : g = CHOOSE h : h = [y \in Nodes |-> Body(h, y)]
  OBVIOUS
<1>5. g = [y \in Nodes |-> Body(g, y)]
  BY <1>3, <1>4
<1>6. MarkParentsExpanded(x, t, open) = open \cup g[x]
  BY <1>4 DEF MarkParentsExpanded, Body
<1> DEFINE S == {y \in Nodes : g[y] = f[y]}
<1>7. ASSUME NEW y \in Nodes, t.parent[y] = Null \/ t.parent[y] \in S
      PROVE  y \in S
  <2>1. Body(g, y) = Body(f, y)
    BY <1>7 DEF Body
  <2> QED
    BY <1>2, <1>5, <2>1
<1>8. \A y \in Nodes : y \in S
  <2> HIDE DEF S
  <2> QED
    BY <1>7, UpInduction
<1> QED
  BY <1>1, <1>6, <1>8

-----------------------------------------------------------------------------
(* What is printed *)

\* A row as it is printed.
Numbered(row, n) == [node |-> row.node, depth |-> row.depth, count |-> n]

\* Of the rows of list, numbered from old.count on, new has those of shown
\* behind the rows of old.
Prints(new, old, list, shown) ==
  LET p == Len(old.rows)
      q == Len(new.rows)
  IN  /\ new.count = old.count + Len(list)
      /\ p <= q
      /\ \A k \in (p + 1)..q : \E i \in 1..Len(list) :
           /\ list[i].node \in shown
           /\ new.rows[k] = Numbered(list[i], old.count + i)
      /\ \A i \in 1..Len(list) : list[i].node \in shown =>
           \E k \in (p + 1)..q : new.rows[k] = Numbered(list[i], old.count + i)
      /\ \A j, k \in (p + 1)..q : j < k => new.rows[j].count < new.rows[k].count
      /\ Nodes \subseteq shown => q - p = Len(list)
      /\ Nodes \subseteq shown =>
           \A k \in (p + 1)..q : new.rows[k].count = old.count + (k - p)
      /\ \A k \in 1..p : new.rows[k] = old.rows[k]

(* One list printed behind another is their concatenation.                 *)
LEMMA PrintedTogether ==
  ASSUME NEW a \in Printed, NEW b \in Printed, NEW c \in Printed, NEW shown,
         NEW list \in Rows, NEW more \in Rows, NEW all, all = list \o more,
         Prints(b, a, list, shown), Prints(c, b, more, shown)
  PROVE  Prints(c, a, all, shown)
<1>1. PICK p \in Nat, q \in Nat, r \in Nat :
         p = Len(a.rows) /\ q = Len(b.rows) /\ r = Len(c.rows)
  BY DEF Printed
<1>2. PICK l \in Nat, m \in Nat : l = Len(list) /\ m = Len(more)
  BY DEF Rows
<1>3. PICK x \in Nat, y \in Nat, z \in Nat : x = a.count /\ y = b.count /\ z = c.count
  BY DEF Printed
<1>4. PICK B, C : B = b.rows /\ C = c.rows
  OBVIOUS
<1>5. /\ Len(all) = l + m
      /\ \A i \in 1..l : all[i] = list[i]
      /\ \A i \in 1..m : all[l + i] = more[i]
  BY <1>2 DEF Rows
<1>6. /\ y = x + l /\ p <= q
      /\ \A k \in (p + 1)..q : \E i \in 1..l :
           list[i].node \in shown /\ B[k] = Numbered(list[i], x + i)
      /\ \A i \in 1..l : list[i].node \in shown =>
           \E k \in (p + 1)..q : B[k] = Numbered(list[i], x + i)
      /\ \A j, k \in (p + 1)..q : j < k => B[j].count < B[k].count
      /\ Nodes \subseteq shown => q - p = l
      /\ Nodes \subseteq shown => \A k \in (p + 1)..q : B[k].count = x + (k - p)
      /\ \A k \in 1..p : B[k] = a.rows[k]
  BY <1>1, <1>2, <1>3, <1>4 DEF Prints
<1>7. /\ z = y + m /\ q <= r
      /\ \A k \in (q + 1)..r : \E i \in 1..m :
           more[i].node \in shown /\ C[k] = Numbered(more[i], y + i)
      /\ \A i \in 1..m : more[i].node \in shown =>
           \E k \in (q + 1)..r : C[k] = Numbered(more[i], y + i)
      /\ \A j, k \in (q + 1)..r : j < k => C[j].count < C[k].count
      /\ Nodes \subseteq shown => r - q = m
      /\ Nodes \subseteq shown => \A k \in (q + 1)..r : C[k].count = y + (k - q)
      /\ \A k \in 1..q : C[k] = B[k]
  BY <1>1, <1>2, <1>3, <1>4 DEF Prints
<1>8. \A row, n : Numbered(row, n).count = n
  BY DEF Numbered
<1>9. \A k \in (p + 1)..r : (k \in (p + 1)..q /\ C[k] = B[k]) \/ k \in (q + 1)..r
  BY <1>6, <1>7
<1>10. \A k \in (p + 1)..q : k \in (p + 1)..r /\ C[k] = B[k]
  BY <1>6, <1>7
<1>11. \A k \in (q + 1)..r : k \in (p + 1)..r
  BY <1>6, <1>7
<1>12. z = x + (l + m) /\ p <= r
  BY <1>6, <1>7
<1>13. ASSUME NEW k \in (p + 1)..r
       PROVE  \E i \in 1..(l + m) : all[i].node \in shown /\ C[k] = Numbered(all[i], x + i)
  <2>1. CASE k \in (p + 1)..q /\ C[k] = B[k]
    <3>1. PICK i \in 1..l : list[i].node \in shown /\ B[k] = Numbered(list[i], x + i)
      BY <1>6, <2>1
    <3>2. i \in 1..(l + m) /\ all[i] = list[i]
      BY <1>5
    <3> QED
      BY <2>1, <3>1, <3>2
  <2>2. CASE k \in (q + 1)..r
    <3>1. PICK i \in 1..m : more[i].node \in shown /\ C[k] = Numbered(more[i], y + i)
      BY <1>7, <2>2
    <3>2. l + i \in 1..(l + m) /\ all[l + i] = more[i] /\ y + i = x + (l + i)
      BY <1>5, <1>6
    <3> QED
      BY <3>1, <3>2
  <2> QED
    BY <1>9, <2>1, <2>2
<1>14. ASSUME NEW i \in 1..(l + m), all[i].node \in shown
       PROVE  \E k \in (p + 1)..r : C[k] = Numbered(all[i], x + i)
  <2>1. CASE i \in 1..l
    <3>1. PICK k \in (p + 1)..q : B[k] = Numbered(list[i], x + i)
      BY <1>5, <1>6, <1>14, <2>1
    <3> QED
      BY <1>5, <1>10, <2>1, <3>1
  <2>2. CASE i \notin 1..l
    <3>1. PICK n \in 1..m : i = l + n
      <4>1. i - l \in 1..m /\ i = l + (i - l)
        BY <2>2
      <4> QED
        BY <4>1
    <3>2. all[i] = more[n] /\ y + n = x + i
      BY <1>5, <1>6, <3>1
    <3>3. PICK k \in (q + 1)..r : C[k] = Numbered(more[n], y + n)
      BY <1>7, <1>14, <3>2
    <3> QED
      BY <1>11, <3>2, <3>3
  <2> QED
    BY <2>1, <2>2
<1>15. ASSUME NEW j \in (p + 1)..r, NEW k \in (p + 1)..r, j < k
       PROVE  C[j].count < C[k].count
  <2>1. CASE k \in (p + 1)..q
    <3>1. j \in (p + 1)..q
      BY <1>15, <2>1
    <3> QED
      BY <1>6, <1>10, <1>15, <2>1, <3>1
  <2>2. CASE j \in (q + 1)..r
    <3>1. k \in (q + 1)..r
      BY <1>15, <2>2
    <3> QED
      BY <1>7, <1>15, <2>2, <3>1
  <2>3. CASE j \in (p + 1)..q /\ k \in (q + 1)..r
    <3>1. PICK i \in 1..l : B[j] = Numbered(list[i], x + i)
      BY <1>6, <2>3
    <3>2. PICK n \in 1..m : C[k] = Numbered(more[n], y + n)
      BY <1>7, <2>3
    <3>3. C[j].count = x + i /\ C[k].count = y + n
      BY <1>8, <1>10, <2>3, <3>1, <3>2
    <3>4. x + i < y + n
      BY <1>6
    <3> QED
      BY <3>3, <3>4
  <2> QED
    BY <1>9, <2>1, <2>2, <2>3
<1>16. Nodes \subseteq shown => r - p = l + m
  BY <1>6, <1>7
<1>17. ASSUME Nodes \subseteq shown, NEW k \in (p + 1)..r
       PROVE  C[k].count = x + (k - p)
  <2>1. CASE k \in (p + 1)..q
    BY <1>6, <1>10, <1>17, <2>1
  <2>2. CASE k \in (q + 1)..r
    <3>1. C[k].count = y + (k - q)
      BY <1>7, <1>17, <2>2
    <3>2. y + (k - q) = x + (k - p)
      BY <1>6, <1>17
    <3> QED
      BY <3>1, <3>2
  <2> QED
    BY <1>9, <2>1, <2>2
<1>18. \A k \in 1..p : C[k] = a.rows[k]
  BY <1>6, <1>7
<1> QED
  BY <1>1, <1>3, <1>4, <1>5, <1>12, <1>13, <1>14, <1>15, <1>16, <1>17, <1>18 DEF Prints

(* PrintTreeItem prints the rows of the list whose nodes are shown.        *)
LEMMA PrintTreeItemPrints ==
  ASSUME NEW t, IsTree(t), NEW into, NEW shown, NEW x \in Pointers
  PROVE  \E out \in Printed :
           /\ PrintTreeItem(x, t, into, shown) = out.rows
           /\ Prints(out, [count |-> 0, rows |-> << >>], Listing(x, t, into, 0), shown)
<1>1. PICK g \in [Pointers -> [Nat -> [Printed -> Printed]]] : PrintFollows(g, t, into, shown)
  BY PrintTreeItemIs
<1>2. ListingFollows(t, into)
  BY ListingIs
<1> DEFINE S == {y \in Pointers : \A d \in Nat, out \in Printed :
                   Prints(g[y][d][out], out, Listing(y, t, into, d), shown)}
<1>3. ASSUME NEW out \in Printed, NEW list, list = << >>
      PROVE  Prints(out, out, list, shown)
  <2>1. PICK p \in Nat, n \in Nat : p = Len(out.rows) /\ n = out.count
    BY DEF Printed
  <2>2. Len(list) = 0 /\ \A i : ~(i \in 1..Len(list))
    BY <1>3
  <2>3. \A k : ~(k \in (p + 1)..p)
    OBVIOUS
  <2>4. n = n + 0 /\ p <= p /\ p - p = 0
    OBVIOUS
  <2> QED
    BY <2>1, <2>2, <2>3, <2>4 DEF Prints
<1>4. Null \in S
  <2> SUFFICES ASSUME NEW d \in Nat, NEW out \in Printed
               PROVE  Prints(g[Null][d][out], out, Listing(Null, t, into, d), shown)
    BY Pointer
  <2>1. g[Null][d][out] = out
    BY <1>1 DEF PrintFollows
  <2>2. Listing(Null, t, into, d) = << >>
    BY <1>2 DEF ListingFollows
  <2> QED
    BY <1>3, <2>1, <2>2
<1>5. ASSUME NEW y \in Nodes, t.children[y] \in S, t.next[y] \in S
      PROVE  y \in S
  <2> SUFFICES ASSUME NEW d \in Nat, NEW out \in Printed
               PROVE  Prints(g[y][d][out], out, Listing(y, t, into, d), shown)
    BY Pointer
  <2>1. PICK r : r = [node |-> y, depth |-> d]
    OBVIOUS
  <2>2. PICK count \in Nat : count = out.count + 1
    BY DEF Printed
  <2>3. PICK row : row = Numbered(r, count)
    OBVIOUS
  <2>4. PICK rows : rows = IF y \in shown THEN Append(out.rows, row) ELSE out.rows
    OBVIOUS
  <2>5. PICK one : one = [count |-> count, rows |-> rows]
    OBVIOUS
  <2>6. PICK below : below = IF y \in into THEN g[t.children[y]][d + 1][one] ELSE one
    OBVIOUS
  <2>7. PICK new : new = g[y][d][out]
    OBVIOUS
  <2>8. new = g[t.next[y]][d][below]
    <3>1. row = [node |-> y, depth |-> d, count |-> count]
      BY <2>1, <2>3 DEF Numbered
    <3>2. one = [count |-> out.count + 1,
                 rows |-> IF y \in shown
                          THEN Append(out.rows,
                                      [node |-> y, depth |-> d, count |-> out.count + 1])
                          ELSE out.rows]
      BY <2>2, <2>4, <2>5, <3>1
    <3>3. g[y][d][out] =
            LET count_ == out.count + 1
                row_ == [node |-> y, depth |-> d, count |-> count_]
                one_ == [count |-> count_,
                         rows |-> IF y \in shown THEN Append(out.rows, row_) ELSE out.rows]
                below_ == IF y \in into THEN g[t.children[y]][d + 1][one_] ELSE one_
            IN  g[t.next[y]][d][below_]
      BY <1>1 DEF PrintFollows
    <3> QED
      BY <2>6, <2>7, <3>2, <3>3
  <2>9. PICK B : B = IF y \in into THEN Listing(t.children[y], t, into, d + 1) ELSE << >>
    OBVIOUS
  <2>10. PICK C : C = Listing(t.next[y], t, into, d)
    OBVIOUS
  <2>11. Listing(y, t, into, d) = (<<r>> \o B) \o C
    BY <1>2, <2>1, <2>9, <2>10 DEF ListingFollows
  <2>12. t.children[y] \in Pointers /\ t.next[y] \in Pointers /\ d + 1 \in Nat
    BY Pointer
  <2>13. <<r>> \in Rows /\ B \in Rows /\ C \in Rows
    <3>1. << >> \in Rows /\ <<r>> \in Rows
      BY <2>1 DEF Rows
    <3> QED
      BY <1>2, <2>9, <2>10, <2>12, <3>1 DEF ListingFollows
  <2>14. one \in Printed /\ Prints(one, out, <<r>>, shown)
    <3>1. PICK p \in Nat, n \in Nat : p = Len(out.rows) /\ n = out.count /\ count = n + 1
      BY <2>2 DEF Printed
    <3>2. row \in [node : Nodes, depth : Nat, count : Nat] /\ row.count = n + 1
      BY <2>1, <2>2, <2>3, <3>1 DEF Numbered
    <3>3. out.rows \in Seq([node : Nodes, depth : Nat, count : Nat])
      BY DEF Printed
    <3>4. PICK list : list = <<r>>
      OBVIOUS
    <3>5. Len(list) = 1 /\ list[1] = r /\ r.node = y
      BY <2>1, <3>4
    <3>6. CASE y \in shown
      <4>1. /\ rows \in Seq([node : Nodes, depth : Nat, count : Nat])
            /\ Len(rows) = p + 1 /\ rows[p + 1] = row
            /\ \A k \in 1..p : rows[k] = out.rows[k]
        BY <2>4, <3>1, <3>2, <3>3, <3>6
      <4>2. one \in Printed
        BY <2>5, <4>1 DEF Printed
      <4>3. \A k \in (p + 1)..(p + 1) : k = p + 1
        OBVIOUS
      <4>4. one.count = n + 1 /\ one.rows = rows
        BY <2>5, <3>1
      <4>5. p <= p + 1 /\ (p + 1) - p = 1 /\ 1 \in 1..1 /\ p + 1 \in (p + 1)..(p + 1)
        OBVIOUS
      <4>6. row = Numbered(list[1], n + 1)
        BY <2>3, <3>1, <3>5
      <4>7. \A k \in (p + 1)..(p + 1) : \E i \in 1..1 :
              list[i].node \in shown /\ rows[k] = Numbered(list[i], n + i)
        BY <3>5, <3>6, <4>1, <4>3, <4>5, <4>6
      <4>8. \A i \in 1..1 : list[i].node \in shown =>
              \E k \in (p + 1)..(p + 1) : rows[k] = Numbered(list[i], n + i)
        <5>1. \A i \in 1..1 : i = 1
          OBVIOUS
        <5> QED
          BY <4>1, <4>5, <4>6, <5>1
      <4>9. \A j, k \in (p + 1)..(p + 1) : j < k => rows[j].count < rows[k].count
        OBVIOUS
      <4>10. \A k \in (p + 1)..(p + 1) : rows[k].count = n + (k - p)
        BY <3>2, <4>1, <4>3, <4>5
      <4>11. Prints(one, out, list, shown)
        <5>1. /\ Len(out.rows) = p /\ Len(one.rows) = p + 1 /\ Len(list) = 1
              /\ out.count = n /\ one.count = n + 1 /\ one.rows = rows
          BY <3>1, <3>5, <4>1, <4>4
        <5> QED
          <6>1. one.count = out.count + Len(list)
            BY <5>1
          <6>2. Len(out.rows) <= Len(one.rows)
            BY <4>5, <5>1
          <6>3. \A k \in (Len(out.rows) + 1)..Len(one.rows) : \E i \in 1..Len(list) :
                  list[i].node \in shown /\ one.rows[k] = Numbered(list[i], out.count + i)
            BY <4>7, <5>1, Zenon
          <6>4. \A i \in 1..Len(list) : list[i].node \in shown =>
                  \E k \in (Len(out.rows) + 1)..Len(one.rows) :
                    one.rows[k] = Numbered(list[i], out.count + i)
            BY <4>8, <5>1, Zenon
          <6>5. \A j, k \in (Len(out.rows) + 1)..Len(one.rows) :
                  j < k => one.rows[j].count < one.rows[k].count
            BY <4>9, <5>1, Zenon
          <6>6. Len(one.rows) - Len(out.rows) = Len(list)
            BY <4>5, <5>1
          <6>7. \A k \in (Len(out.rows) + 1)..Len(one.rows) :
                  one.rows[k].count = out.count + (k - Len(out.rows))
            BY <4>10, <5>1, Zenon
          <6>8. \A k \in 1..Len(out.rows) : one.rows[k] = out.rows[k]
            BY <4>1, <5>1, Zenon
          <6> QED
            BY <6>1, <6>2, <6>3, <6>4, <6>5, <6>6, <6>7, <6>8, Zenon DEF Prints
      <4> QED
        BY <3>4, <4>2, <4>11
    <3>7. CASE y \notin shown
      <4>1. rows = out.rows
        BY <2>4, <3>7
      <4>2. one \in Printed
        BY <2>5, <3>3, <4>1 DEF Printed
      <4>3. \A k : ~(k \in (p + 1)..p)
        OBVIOUS
      <4>4. ~(Nodes \subseteq shown)
        BY <3>7
      <4>5. Prints(one, out, list, shown)
        BY <2>5, <3>1, <3>5, <3>7, <4>1, <4>3, <4>4 DEF Prints
      <4> QED
        BY <3>4, <4>2, <4>5
    <3> QED
      BY <3>6, <3>7
  <2>15. below \in Printed /\ Prints(below, one, B, shown)
    <3>1. CASE y \in into
      <4>1. below = g[t.children[y]][d + 1][one]
        BY <2>6, <3>1
      <4>2. below \in Printed
        BY <2>12, <2>14, <4>1
      <4>3. Prints(below, one, Listing(t.children[y], t, into, d + 1), shown)
        BY <1>5, <2>12, <2>14, <4>1
      <4> QED
        BY <2>9, <3>1, <4>2, <4>3
    <3>2. CASE y \notin into
      <4>1. below = one /\ B = << >>
        BY <2>6, <2>9, <3>2
      <4> QED
        BY <1>3, <2>14, <4>1
    <3> QED
      BY <3>1, <3>2
  <2>16. new \in Printed /\ Prints(new, below, C, shown)
    <3>1. new \in Printed
      BY <2>8, <2>12, <2>15
    <3>2. Prints(new, below, Listing(t.next[y], t, into, d), shown)
      BY <1>5, <2>8, <2>15
    <3> QED
      BY <2>10, <3>1, <3>2
  <2>17. PICK head \in Rows : head = <<r>> \o B
    <3>1. <<r>> \o B \in Rows
      BY <2>13 DEF Rows
    <3> QED
      BY <3>1
  <2>18. Prints(below, out, head, shown)
    BY <2>13, <2>14, <2>15, <2>17, PrintedTogether
  <2>19. PICK all : all = head \o C
    OBVIOUS
  <2>20. Prints(new, out, all, shown)
    BY <2>13, <2>15, <2>16, <2>17, <2>18, <2>19, PrintedTogether
  <2> QED
    BY <2>7, <2>11, <2>17, <2>19, <2>20
<1>6. \A y \in Pointers : y \in S
  <2> HIDE DEF S
  <2> QED
    BY <1>4, <1>5, DownInduction
<1>7. PICK none : none = [count |-> 0, rows |-> << >>]
  OBVIOUS
<1>8. none \in Printed
  <2>1. << >> \in Seq([node : Nodes, depth : Nat, count : Nat])
    OBVIOUS
  <2> QED
    BY <1>7, <2>1 DEF Printed
<1>9. PICK out : out = g[x][0][none]
  OBVIOUS
<1>10. out \in Printed
  BY <1>8, <1>9
<1>11. Prints(out, none, Listing(x, t, into, 0), shown)
  BY <1>6, <1>8, <1>9
<1>12. PrintTreeItem(x, t, into, shown) = out.rows
  BY <1>1, <1>7, <1>9 DEF PrintFollows
<1> QED
  BY <1>7, <1>10, <1>11, <1>12

-----------------------------------------------------------------------------
(* What buildCommentTree builds *)

(* It starts with the root alone.                                          *)
LEMMA UnlinkedIsTree == IsTree(Unlinked) /\ Reached(Unlinked) = {Root}
<1>1. PICK t : t = Unlinked
  OBVIOUS
<1>2. /\ t.children = [n \in Nodes |-> Null] /\ t.next = [n \in Nodes |-> Null]
      /\ t.parent = [n \in Nodes |-> Null]
      /\ t \in [children : [Nodes -> Pointers], next : [Nodes -> Pointers],
                parent : [Nodes -> Pointers]]
  BY <1>1 DEF Unlinked, Pointers
<1>3. Root \in Nodes /\ Null \notin Nodes /\ Cardinality(Nodes) \in Nat
  BY CommentTreeAssumption, FS_CardinalityType
<1>4. \A n \in Nodes : t.children[n] = Null /\ t.next[n] = Null /\ t.parent[n] = Null
  BY <1>2
<1>5. Reached(t) = {Root} /\ Cardinality({Root}) = 1
  BY <1>3, <1>4, FS_Singleton DEF Reached
<1>6. PICK order : order = [n \in Nodes |-> 0]
  OBVIOUS
<1>7. order \in [Nodes -> 0..Cardinality(Nodes)]
  BY <1>3, <1>6
<1>8. \A m, n \in Nodes : ~(t.children[m] = n \/ t.next[m] = n \/ t.parent[n] = m)
  BY <1>3, <1>4
<1>9. \A n \in Reached(t) : order[n] < Cardinality(Reached(t))
  <2>1. order[Root] = 0
    BY <1>3, <1>6
  <2> QED
    BY <1>5, <2>1
<1>10. IsTree(t)
  BY <1>2, <1>3, <1>4, <1>7, <1>8, <1>9 DEF IsTree
<1> QED
  BY <1>1, <1>5, <1>10

(* The walk to the last sibling finds one with none behind it.             *)
LEMMA LastSiblingEnds ==
  ASSUME NEW t, IsTree(t)
  PROVE  \A x \in Pointers : x # Null =>
           LastSibling(x, t) \in Siblings(x, t) /\ t.next[LastSibling(x, t)] = Null
<1> DEFINE S == {x \in Pointers : x # Null =>
                   LastSibling(x, t) \in Siblings(x, t) /\ t.next[LastSibling(x, t)] = Null}
<1>1. Null \in S
  BY Pointer
<1>2. ASSUME NEW x \in Nodes, t.children[x] \in S, t.next[x] \in S
      PROVE  x \in S
  <2>1. LastSibling(x, t) = IF t.next[x] = Null THEN x ELSE LastSibling(t.next[x], t)
    BY LastSiblingIs
  <2>2. Siblings(x, t) = {x} \cup Siblings(t.next[x], t)
    BY SiblingsAre
  <2> QED
    BY <1>2, <2>1, <2>2, Pointer
<1>3. \A x \in Pointers : x \in S
  <2> HIDE DEF S
  <2> QED
    BY <1>1, <1>2, DownInduction
<1> QED
  BY <1>3

(* Every AppendChild of a new comment to one that is linked makes a tree   *)
(* of a tree, with the comment in it, as the last child.                   *)
THEOREM AppendingMakesTrees ==
  ASSUME NEW t, IsTree(t), NEW p \in Reached(t), NEW n \in Nodes \ Reached(t)
  PROVE  /\ IsTree(AppendChild(p, n, t))
         /\ Reached(AppendChild(p, n, t)) = Reached(t) \cup {n}
         /\ AppendChild(p, n, t).parent[n] = p /\ AppendChild(p, n, t).next[n] = Null
<1>1. /\ p \in Nodes /\ n \in Nodes /\ p # n /\ n # Root /\ p # Null /\ n # Null
      /\ p = Root \/ t.parent[p] # Null
      /\ t.parent[n] = Null
  BY Pointer DEF Reached
<1>2. /\ t \in [children : [Nodes -> Pointers], next : [Nodes -> Pointers],
                parent : [Nodes -> Pointers]]
      /\ t.parent[Root] = Null
      /\ \A m \in Nodes : t.children[m] # Null => t.parent[t.children[m]] = m
      /\ \A m \in Nodes : t.next[m] # Null => /\ t.parent[m] # Null
                                              /\ t.parent[t.next[m]] = t.parent[m]
      /\ \A m \in Nodes : t.parent[m] # Null => \/ t.children[t.parent[m]] = m
                                                \/ \E k \in Nodes : t.next[k] = m
      /\ \A m \in Nodes : t.parent[m] = Null => m = Root \/ t.children[m] = Null
  BY DEF IsTree
<1>3. t.children[n] = Null /\ t.next[n] = Null
  BY <1>1, <1>2
<1>4. \A m \in Nodes : t.children[m] # n /\ t.next[m] # n /\ t.parent[m] # n
  <2>1. \A m \in Nodes : t.children[m] # n /\ t.next[m] # n
    BY <1>1, <1>2, Pointer
  <2>2. {m \in Nodes : t.parent[m] = n} = {}
    BY <1>1, <1>3, ChildrenAre, SiblingsAre
  <2> QED
    BY <2>1, <2>2
<1>5. PICK first \in Pointers : first = t.children[p]
  BY <1>1, Pointer
<1>6. PICK last : last = LastSibling(first, t)
  OBVIOUS
<1>7. first # Null => last \in Nodes /\ t.next[last] = Null /\ t.parent[last] = p /\ last # n
  <2> SUFFICES ASSUME first # Null
               PROVE  last \in Nodes /\ t.next[last] = Null /\ t.parent[last] = p /\ last # n
    OBVIOUS
  <2>1. last \in Siblings(first, t) /\ t.next[last] = Null
    BY <1>6, LastSiblingEnds
  <2>2. last \in Nodes /\ t.parent[last] = t.parent[first]
    BY <2>1, SameParent
  <2>3. t.parent[first] = p
    BY <1>1, <1>2, <1>5
  <2> QED
    BY <1>1, <2>1, <2>2, <2>3
<1>8. PICK new : new = AppendChild(p, n, t)
  OBVIOUS
<1>9. /\ new.children = IF first = Null THEN [t.children EXCEPT ![p] = n] ELSE t.children
      /\ new.next = IF first = Null THEN t.next ELSE [t.next EXCEPT ![last] = n]
      /\ new.parent = [t.parent EXCEPT ![n] = p]
      /\ new = [children |-> new.children, next |-> new.next, parent |-> new.parent]
  BY <1>5, <1>6, <1>8 DEF AppendChild
<1>10. p \in Pointers /\ n \in Pointers
  BY <1>1, Pointer
<1>11. new \in [children : [Nodes -> Pointers], next : [Nodes -> Pointers],
                parent : [Nodes -> Pointers]]
  <2>1. /\ t.children \in [Nodes -> Pointers] /\ t.next \in [Nodes -> Pointers]
        /\ t.parent \in [Nodes -> Pointers]
    BY <1>2
  <2>2. ASSUME NEW f \in [Nodes -> Pointers], NEW at, NEW to \in Pointers
        PROVE  [f EXCEPT ![at] = to] \in [Nodes -> Pointers]
    BY <2>2
  <2>3. new.children \in [Nodes -> Pointers]
    BY <1>9, <1>10, <2>1, <2>2
  <2>4. new.next \in [Nodes -> Pointers]
    BY <1>9, <1>10, <2>1, <2>2
  <2>5. new.parent \in [Nodes -> Pointers]
    BY <1>9, <1>10, <2>1, <2>2
  <2> QED
    BY <1>9, <2>3, <2>4, <2>5
<1>12. /\ \A m \in Nodes : new.parent[m] = IF m = n THEN p ELSE t.parent[m]
       /\ \A m \in Nodes :
            new.children[m] = IF first = Null /\ m = p THEN n ELSE t.children[m]
       /\ \A m \in Nodes :
            new.next[m] = IF first # Null /\ m = last THEN n ELSE t.next[m]
  BY <1>2, <1>9
<1> HIDE DEF Reached
<1>13. new.parent[Root] = Null
  BY <1>1, <1>2, <1>12, CommentTreeAssumption
<1>14. ASSUME NEW m \in Nodes
       PROVE  new.children[m] # Null => new.parent[new.children[m]] = m
  <2>1. CASE first = Null /\ m = p
    BY <1>1, <1>12, <2>1
  <2>2. CASE ~(first = Null /\ m = p)
    BY <1>2, <1>4, <1>12, <2>2, Pointer
  <2> QED
    BY <2>1, <2>2
<1>15. ASSUME NEW m \in Nodes
       PROVE  new.next[m] # Null => /\ new.parent[m] # Null
                                    /\ new.parent[new.next[m]] = new.parent[m]
  <2>1. CASE first # Null /\ m = last
    BY <1>1, <1>7, <1>12, <2>1
  <2>2. CASE ~(first # Null /\ m = last)
    BY <1>2, <1>3, <1>4, <1>12, <2>2, Pointer
  <2> QED
    BY <2>1, <2>2
<1>16. ASSUME NEW m \in Nodes
       PROVE  new.parent[m] # Null => \/ new.children[new.parent[m]] = m
                                      \/ \E k \in Nodes : new.next[k] = m
  <2>1. CASE m = n /\ first = Null
    BY <1>1, <1>12, <2>1
  <2>2. CASE m = n /\ first # Null
    BY <1>7, <1>12, <2>2
  <2>3. CASE m # n
    <3>1. new.parent[m] = t.parent[m]
      BY <1>12, <2>3
    <3>2. ASSUME t.parent[m] # Null, t.children[t.parent[m]] = m
          PROVE  new.children[new.parent[m]] = m
      <4>1. t.parent[m] \in Nodes /\ m # Null
        BY <3>2, Pointer
      <4>2. ~(first = Null /\ t.parent[m] = p)
        BY <1>5, <3>2, <4>1
      <4> QED
        BY <1>12, <3>1, <3>2, <4>1, <4>2
    <3>3. ASSUME NEW k \in Nodes, t.next[k] = m
          PROVE  new.next[k] = m
      BY <1>7, <1>12, <3>3, Pointer
    <3> QED
      BY <1>2, <3>1, <3>2, <3>3
  <2> QED
    BY <2>1, <2>2, <2>3
<1>17. ASSUME NEW m \in Nodes
       PROVE  new.parent[m] = Null => m = Root \/ new.children[m] = Null
  <2>1. CASE m = n
    BY <1>1, <1>12, <2>1
  <2>2. CASE m # n
    BY <1>1, <1>2, <1>12, <2>2
  <2> QED
    BY <2>1, <2>2
<1>18. Reached(new) = Reached(t) \cup {n}
  BY <1>1, <1>12 DEF Reached
<1>19. PICK size \in Nat : size = Cardinality(Reached(t))
  BY VisibleSizeBound, FS_CardinalityType
<1>20. Cardinality(Reached(new)) = size + 1 /\ size + 1 <= Cardinality(Nodes)
  <2>1. IsFiniteSet(Reached(t))
    BY VisibleSizeBound
  <2>2. Cardinality(Reached(t) \cup {n}) = Cardinality(Reached(t)) + 1
    BY <2>1, FS_AddElement
  <2>3. Reached(new) \subseteq Nodes
    BY DEF Reached
  <2>4. Cardinality(Reached(new)) <= Cardinality(Nodes)
    BY <2>3, CommentTreeAssumption, FS_Subset
  <2> QED
    BY <1>18, <1>19, <2>2, <2>4
<1>21. PICK order \in [Nodes -> 0..Cardinality(Nodes)] :
         /\ \A m, k \in Nodes :
              t.children[m] = k \/ t.next[m] = k \/ t.parent[k] = m => order[m] < order[k]
         /\ \A m \in Reached(t) : order[m] < Cardinality(Reached(t))
  BY DEF IsTree
<1>22. PICK o : o = [order EXCEPT ![n] = size]
  OBVIOUS
<1>23. /\ o \in [Nodes -> 0..Cardinality(Nodes)]
       /\ o[n] = size /\ \A m \in Nodes : m # n => o[m] = order[m]
  <2>1. Cardinality(Nodes) \in Nat
    BY CommentTreeAssumption, FS_CardinalityType
  <2>2. size \in 0..Cardinality(Nodes)
    BY <1>20, <2>1
  <2> QED
    BY <1>1, <1>22, <2>2
<1>24. ASSUME NEW m \in Nodes, NEW k \in Nodes,
              new.children[m] = k \/ new.next[m] = k \/ new.parent[k] = m
       PROVE  o[m] < o[k]
  <2>1. CASE k = n
    <3>1. m \in Reached(t)
      <4>1. m = p \/ (first # Null /\ m = last)
        BY <1>4, <1>12, <1>24, <2>1
      <4>2. last \in Reached(t) \/ first = Null
        BY <1>1, <1>7 DEF Reached
      <4> QED
        BY <4>1, <4>2
    <3>2. order[m] < size /\ m # n
      BY <1>19, <1>21, <3>1
    <3> QED
      BY <1>23, <2>1, <3>2
  <2>2. CASE k # n
    <3>1. t.children[m] = k \/ t.next[m] = k \/ t.parent[k] = m
      BY <1>12, <1>24, <2>2
    <3>2. m # n
      BY <1>3, <1>4, <3>1, Pointer
    <3>3. order[m] < order[k]
      BY <1>21, <3>1
    <3> QED
      BY <1>23, <2>2, <3>2, <3>3
  <2> QED
    BY <2>1, <2>2
<1>25. ASSUME NEW m \in Reached(new)
       PROVE  o[m] < Cardinality(Reached(new))
  <2>1. CASE m = n
    BY <1>20, <1>23, <2>1
  <2>2. CASE m # n
    <3>1. m \in Reached(t) /\ m \in Nodes
      BY <1>18, <2>2 DEF Reached
    <3>2. PICK i \in Nat : i = order[m]
      <4>1. \A j \in 0..Cardinality(Nodes) : j \in Nat
        OBVIOUS
      <4> QED
        BY <1>21, <3>1, <4>1
    <3>3. i < size
      BY <1>19, <1>21, <3>1, <3>2
    <3>4. i < size + 1
      BY <3>3
    <3> QED
      BY <1>20, <1>23, <2>2, <3>1, <3>2, <3>4
  <2> QED
    BY <2>1, <2>2
<1>26. \E r \in [Nodes -> 0..Cardinality(Nodes)] :
         /\ \A m, k \in Nodes :
              new.children[m] = k \/ new.next[m] = k \/ new.parent[k] = m => r[m] < r[k]
         /\ \A m \in Reached(new) : r[m] < Cardinality(Reached(new))
  BY <1>23, <1>24, <1>25
<1>27. IsTree(new)
  BY <1>11, <1>13, <1>14, <1>15, <1>16, <1>17, <1>26 DEF IsTree
<1>28. new.parent[n] = p /\ new.next[n] = Null
  BY <1>1, <1>3, <1>7, <1>12
<1> QED
  BY <1>8, <1>18, <1>27, <1>28

-----------------------------------------------------------------------------
(* The viewer *)

\* Where the rows start: TopLevel of any state.
Top(there) == IF there THEN Root ELSE Null

\* What every redraw restores and every key keeps.
Inv ==
  /\ IsTree(tree) /\ Cardinality(Reached(tree)) <= FlatLimit + 1
  /\ loaded \in BOOLEAN /\ selected \in Int /\ expanded \in SUBSET Nodes
  /\ total = VisibleSize(Top(loaded), tree, expanded)
  /\ flat = FlatTree(Top(loaded), tree, expanded, FlatLimit)
  /\ PaneShowsSelected

(* The whole tree fits: what is drawn is the listing.                      *)
LEMMA FlatLists ==
  ASSUME NEW t, IsTree(t), Cardinality(Reached(t)) <= FlatLimit + 1,
         NEW there \in BOOLEAN, NEW open
  PROVE  /\ FlatTree(Top(there), t, open, FlatLimit) = Listing(Top(there), t, open, 0)
         /\ Lists(FlatTree(Top(there), t, open, FlatLimit), Top(there), t, open, 0)
         /\ Len(FlatTree(Top(there), t, open, FlatLimit)) = VisibleSize(Top(there), t, open)
         /\ VisibleSize(Top(there), t, open) \in Nat
         /\ Top(there) \in Pointers
<1>1. Top(there) \in Pointers
  BY Pointer DEF Top
<1>2. PICK size \in Nat : size = VisibleSize(Top(there), t, open)
  BY <1>1, VisibleSizeIs
<1>3. size <= FlatLimit + 1
  <2>1. CASE there
    <3>1. size <= Cardinality(Reached(t)) /\ Cardinality(Reached(t)) \in Nat
      BY <1>2, <2>1, VisibleSizeBound, FS_CardinalityType DEF Top
    <3> QED
      BY <3>1, TreeViewerAssumption
  <2>2. CASE ~there
    <3>1. size = 0
      BY <1>2, <2>2, VisibleSizeIs DEF Top
    <3> QED
      BY <3>1, TreeViewerAssumption
  <2> QED
    BY <2>1, <2>2
<1>4. FlatLimit \in Nat
  BY TreeViewerAssumption
<1>5. FlatTree(Top(there), t, open, FlatLimit) = Listing(Top(there), t, open, 0)
  BY <1>1, <1>2, <1>3, <1>4, FlatTreeIsListing
<1>6. Lists(Listing(Top(there), t, open, 0), Top(there), t, open, 0)
  BY <1>1, ListingLists
<1> QED
  BY <1>1, <1>2, <1>5, <1>6 DEF Lists

(* A redraw shows the tree, and the selected comment below it.             *)
LEMMA RenderDraws ==
  ASSUME IsTree(tree'), Cardinality(Reached(tree')) <= FlatLimit + 1,
         loaded' \in BOOLEAN, selected' \in Int, expanded' \in SUBSET Nodes, Render
  PROVE  Inv'
<1>1. TopLevel = Top(loaded')
  BY DEF TopLevel, Top
<1>2. /\ total' = VisibleSize(Top(loaded'), tree', expanded')
      /\ flat' = FlatTree(Top(loaded'), tree', expanded', FlatLimit)
  BY <1>1 DEF Render
<1>3. Len(flat') = total' /\ total' \in Nat
  BY <1>2, FlatLists
<1>4. PaneShowsSelected'
  <2> SUFFICES ASSUME selected' \in 0..(total' - 1)
               PROVE  pane' = flat'[selected' + 1].node
    BY DEF PaneShowsSelected, InList
  <2>1. ~(selected' < 0) /\ ~(selected' >= Len(flat'))
    <3>1. PICK n \in Nat : n = total'
      BY <1>3
    <3>3. PICK s \in 0..(n - 1) : s = selected'
      BY <3>1
    <3>2. ~(s < 0) /\ ~(s >= n)
      OBVIOUS
    <3> QED
      BY <1>3, <3>1, <3>2, <3>3
  <2> QED
    BY <2>1 DEF Render
<1> QED
  BY <1>2, <1>4 DEF Inv

(* Before the first download the tree is a root without children.          *)
LEMMA EmptyTree ==
  ASSUME Init
  PROVE  IsTree(tree) /\ Cardinality(Reached(tree)) <= FlatLimit + 1
<1>1. tree = Unlinked
  BY DEF Init
<1>2. IsTree(tree) /\ Reached(tree) = {Root}
  BY <1>1, UnlinkedIsTree
<1>3. Cardinality({Root}) = 1
  BY FS_Singleton
<1> QED
  BY <1>2, <1>3, TreeViewerAssumption

(* The empty screen satisfies it.                                          *)
LEMMA InvInit == Init => Inv
<1> SUFFICES ASSUME Init PROVE Inv
  OBVIOUS
<1>1. IsTree(tree) /\ Cardinality(Reached(tree)) <= FlatLimit + 1
  BY EmptyTree
<1>2. loaded = FALSE /\ flat = << >> /\ total = 0 /\ selected = -1 /\ Len(<< >>) = 0
  BY DEF Init
<1>3. Top(loaded) = Null
  BY <1>2 DEF Top
<1>4. VisibleSize(Null, tree, expanded) = 0
  BY <1>1, VisibleSizeIs
<1>5. FlatTree(Null, tree, expanded, FlatLimit) = Listing(Null, tree, expanded, 0)
  BY <1>1, <1>2, <1>3, FlatLists
<1>6. Listing(Null, tree, expanded, 0) = << >>
  <2>1. ListingFollows(tree, expanded)
    BY <1>1, ListingIs
  <2> QED
    BY <2>1 DEF ListingFollows
<1>7. PaneShowsSelected
  BY <1>2 DEF PaneShowsSelected, InList
<1>8. loaded \in BOOLEAN /\ selected \in Int /\ expanded \in SUBSET Nodes
  <2>1. loaded \in BOOLEAN
    BY <1>2
  <2>2. selected \in Int
    <3>1. selected = -1
      BY <1>2
    <3> QED
      BY <3>1
  <2>3. expanded \in SUBSET Nodes
    BY DEF Init
  <2> QED
    BY <2>1, <2>2, <2>3
<1>9. flat = FlatTree(Top(loaded), tree, expanded, FlatLimit)
  BY <1>2, <1>3, <1>5, <1>6
<1>10. total = VisibleSize(Top(loaded), tree, expanded)
  BY <1>2, <1>3, <1>4
<1> QED
  BY <1>1, <1>7, <1>8, <1>9, <1>10 DEF Inv

(* The size computed is the number of rows.                                *)
LEMMA InvLength == Inv => total = Len(flat) /\ total \in Nat
<1> SUFFICES ASSUME Inv PROVE total = Len(flat) /\ total \in Nat
  OBVIOUS
<1> QED
  BY FlatLists DEF Inv

(* In the list, the selected row is that of a node.                        *)
LEMMA SelectedIsNode ==
  ASSUME Inv, NEW k \in 1..Len(flat)
  PROVE  flat[k].node \in Nodes
<1>1. PICK top : top = Top(loaded)
  OBVIOUS
<1>2. IsTree(tree) /\ Cardinality(Reached(tree)) <= FlatLimit + 1 /\ loaded \in BOOLEAN
  BY DEF Inv
<1>3. Lists(flat, top, tree, expanded, 0) /\ top \in Pointers
  BY <1>1, <1>2, FlatLists DEF Inv
<1>4. flat[k].node \in Shown(top, tree, expanded)
  BY <1>3 DEF Lists
<1>5. Shown(top, tree, expanded) \in SUBSET Nodes
  BY <1>2, <1>3, ShownIs
<1> QED
  BY <1>4, <1>5

(* The keys that redraw, and what they leave alone.                        *)
LEMMA Redraws ==
  ASSUME Inv, Next
  PROVE  \/ /\ Render
            /\ IsTree(tree') /\ Cardinality(Reached(tree')) <= FlatLimit + 1
            /\ loaded' \in BOOLEAN /\ selected' \in Int /\ expanded' \in SUBSET Nodes
         \/ /\ UNCHANGED <<loaded, tree, expanded, flat, total, selected, start_row, pane>>
            /\ mode' # "keys" \/ UNCHANGED mode
<1>1. CASE Refresh
  <2>1. /\ tree' \in Trees /\ loaded' = TRUE /\ selected' = selected /\ expanded' = {}
        /\ Render
    BY <1>1 DEF Refresh
  <2>2. expanded' \in SUBSET Nodes
    BY <2>1
  <2> QED
    BY <2>1, <2>2, TreeViewerAssumption DEF Inv
<1>2. ASSUME UNCHANGED <<loaded, tree>>, Render,
             selected' = selected \/ selected' = selected + 1 \/ selected' = selected - 1
      PROVE  /\ IsTree(tree') /\ Cardinality(Reached(tree')) <= FlatLimit + 1
             /\ loaded' \in BOOLEAN /\ selected' \in Int
  BY <1>2 DEF Inv
<1>3. ASSUME UNCHANGED expanded
      PROVE  expanded' \in SUBSET Nodes
  BY <1>3 DEF Inv
<1>4. CASE Resize
  BY <1>2, <1>3, <1>4 DEF Resize
<1>5. ASSUME NEW n \in Nodes, NEW new \in BOOLEAN
      PROVE  WithState(n, new) \in SUBSET Nodes
  BY <1>5 DEF WithState, Inv
<1>6. ASSUME NEW new \in BOOLEAN, Toggle(new)
      PROVE  Render /\ UNCHANGED <<loaded, tree, selected>> /\ expanded' \in SUBSET Nodes
  <2>1. Len(flat) \in Nat
    BY InvLength
  <2>2. selected + 1 \in 1..Len(flat)
    BY <1>6, <2>1 DEF Toggle
  <2>3. expanded' \in SUBSET Nodes
    BY <1>5, <1>6, <2>2, SelectedIsNode DEF Toggle
  <2> QED
    BY <1>6, <2>3 DEF Toggle
<1>7. ASSUME NEW new \in BOOLEAN, ToggleGarbage(new)
      PROVE  Render /\ UNCHANGED <<loaded, tree, selected>> /\ expanded' \in SUBSET Nodes
  BY <1>3, <1>5, <1>7 DEF ToggleGarbage
<1>8. CASE MoveDown
  BY <1>2, <1>3, <1>8 DEF MoveDown, ScrollDown, NudgeDown, AtBottom
<1>9. CASE ScrollUp \/ NudgeUp
  BY <1>2, <1>3, <1>9 DEF ScrollUp, NudgeUp
<1>10. CASE Quit
  BY <1>10 DEF Quit
<1>11. CASE Ended
  BY <1>11 DEF Ended, vars
<1> QED
  BY <1>1, <1>2, <1>4, <1>6, <1>7, <1>8, <1>9, <1>10, <1>11 DEF Next

(* Every key keeps it.                                                     *)
LEMMA InvStep == Inv /\ [Next]_vars => Inv'
<1> SUFFICES ASSUME Inv, [Next]_vars PROVE Inv'
  OBVIOUS
<1>1. ASSUME UNCHANGED <<loaded, tree, expanded, flat, total, selected, start_row, pane>>,
             mode' # "keys" \/ UNCHANGED mode
      PROVE  Inv'
  <2>1. PaneShowsSelected'
    BY <1>1 DEF Inv, PaneShowsSelected, InList
  <2>2. /\ IsTree(tree') /\ Cardinality(Reached(tree')) <= FlatLimit + 1
        /\ loaded' \in BOOLEAN /\ selected' \in Int /\ expanded' \in SUBSET Nodes
    BY <1>1 DEF Inv
  <2>3. /\ total' = VisibleSize(Top(loaded'), tree', expanded')
        /\ flat' = FlatTree(Top(loaded'), tree', expanded', FlatLimit)
    BY <1>1 DEF Inv
  <2> QED
    BY <2>1, <2>2, <2>3 DEF Inv
<1>2. CASE UNCHANGED vars
  BY <1>1, <1>2 DEF vars
<1>3. CASE Next
  BY <1>1, <1>3, Redraws, RenderDraws
<1> QED
  BY <1>2, <1>3

(* What the redraws restore holds in every state.                          *)
THEOREM Invariant == Spec => []Inv
BY InvInit, InvStep, PTL DEF Spec

(* The pane never shows another comment than the selected one.             *)
THEOREM PaneIsRight == Spec => []PaneShowsSelected
<1>1. Inv => PaneShowsSelected
  BY DEF Inv
<1> QED
  BY <1>1, Invariant, PTL

(* The flat array is the list of the visible nodes from top to bottom with *)
(* their depths, for every tree of up to FlatLimit + 1 comments and every  *)
(* way of expanding it.                                                    *)
THEOREM ScreenIsTheTree == Spec => []FlatIsTheVisibleTree
<1>1. ASSUME Inv PROVE FlatIsTheVisibleTree
  <2>1. IsTree(tree) /\ Cardinality(Reached(tree)) <= FlatLimit + 1 /\ loaded \in BOOLEAN
    BY <1>1 DEF Inv
  <2>2. PICK top : top = Top(loaded)
    OBVIOUS
  <2>3. Lists(flat, top, tree, expanded, 0) /\ total = Len(flat)
    BY <1>1, <2>1, <2>2, FlatLists DEF Inv
  <2>4. Shown(top, tree, expanded) = Visible
    <3>1. Shown(Root, tree, expanded)
            = {n \in Reached(tree) : Ancestors(n, tree) \subseteq expanded}
      BY <2>1, ShownIsVisible
    <3>2. Shown(Null, tree, expanded) = {}
      BY <2>1, ShownIs
    <3> QED
      BY <2>1, <2>2, <3>1, <3>2 DEF Top, Visible
  <2>5. {flat[k].node : k \in 1..Len(flat)} = Visible
    BY <2>3, <2>4 DEF Lists
  <2>6. \A j, k \in 1..Len(flat) : j < k => Above(flat[j].node, flat[k].node, tree)
    BY <2>3 DEF Lists
  <2>7. ASSUME NEW k \in 1..Len(flat)
        PROVE  flat[k].depth = ComputedDepth(flat[k].node, tree)
    <3>1. flat[k].node \in Visible
      BY <2>3, <2>4 DEF Lists
    <3>2. top = Root /\ flat[k].node \in Nodes
      BY <2>1, <2>2, <3>1 DEF Visible, Top, Reached
    <3>3. ComputedDepth(flat[k].node, tree) \in Nat
      BY <2>1, <3>2, DepthIs
    <3>4. ComputedDepth(Root, tree) = 0
      BY <2>1, DepthIs, Linked, Pointer
    <3>5. flat[k].depth = 0 + (ComputedDepth(flat[k].node, tree) - ComputedDepth(top, tree))
      BY <2>3 DEF Lists
    <3> QED
      BY <3>2, <3>3, <3>4, <3>5
  <2> QED
    BY <2>3, <2>5, <2>6, <2>7 DEF FlatIsTheVisibleTree
<1>2. Inv => FlatIsTheVisibleTree
  BY <1>1
<1> QED
  BY <1>2, Invariant, PTL

(* The rows down to the selected one stay when it is toggled.              *)
LEMMA ToggleStays ==
  ASSUME Inv, Inv', NEW new \in BOOLEAN, Toggle(new)
  PROVE  InList' /\ flat'[selected' + 1] = flat[selected + 1]
<1>1. PICK top : top = Top(loaded)
  OBVIOUS
<1>2. IsTree(tree) /\ Cardinality(Reached(tree)) <= FlatLimit + 1 /\ loaded \in BOOLEAN
  BY DEF Inv
<1>3. loaded' = loaded /\ tree' = tree /\ selected' = selected /\ selected \in 0..(Len(flat) - 1)
  BY DEF Toggle
<1>4. PICK m : m = flat[selected + 1].node
  OBVIOUS
<1>5. flat = Listing(top, tree, expanded, 0)
  BY <1>1, <1>2, FlatLists DEF Inv
<1>6. flat' = Listing(top, tree, expanded', 0)
  BY <1>1, <1>2, <1>3, FlatLists DEF Inv
<1>7. total' = Len(flat') /\ total' \in Nat
  BY <1>1, <1>2, <1>3, FlatLists DEF Inv
<1>8. total = Len(flat) /\ total \in Nat
  BY InvLength
<1>9. selected + 1 \in 1..Len(flat)
  BY <1>3, <1>8
<1>10. top \in Pointers
  BY <1>1, <1>2, FlatLists
<1>11. m \in Nodes
  <2>1. Lists(flat, top, tree, expanded, 0)
    BY <1>2, <1>5, <1>10, ListingLists
  <2>2. m \in Shown(top, tree, expanded)
    BY <1>4, <1>9, <2>1 DEF Lists
  <2>3. Shown(top, tree, expanded) \in SUBSET Nodes
    BY <1>2, <1>10, ShownIs
  <2> QED
    BY <2>2, <2>3
<1>12. \A n \in Nodes : n # m => (n \in expanded <=> n \in expanded')
  BY <1>4 DEF Toggle, WithState
<1>13. Keeps(flat, flat', m)
  BY <1>2, <1>5, <1>6, <1>10, <1>11, <1>12, TogglingKeeps
<1>14. selected + 1 \in 1..Len(flat') /\ flat'[selected + 1] = flat[selected + 1]
  BY <1>4, <1>9, <1>13 DEF Keeps
<1> QED
  BY <1>3, <1>7, <1>14 DEF InList

(* Expanding or collapsing the selected node keeps it selected, for every  *)
(* tree.                                                                   *)
THEOREM ToggleKeeps == Spec => ToggleKeepsArticle
<1>1. Inv /\ Inv' /\ [Next]_vars =>
        [\A new \in BOOLEAN :
           Toggle(new) => InList' /\ flat'[selected' + 1] = flat[selected + 1]]_vars
  BY ToggleStays
<1> QED
  BY <1>1, Invariant, PTL DEF Spec, ToggleKeepsArticle

(* No other key than one that scrolls down or refreshes takes the          *)
(* selection off the list.                                                 *)
THEOREM LeavesOnlyBy == Spec => LeavesTheListOnlyBy
<1>1. ASSUME Inv, Inv', Next, InList, ~InList'
      PROVE  ScrollDown \/ Refresh
  <2>1. total = Len(flat) /\ total \in Nat /\ selected \in 0..(total - 1)
    BY <1>1, InvLength DEF InList
  <2>2. ASSUME UNCHANGED <<loaded, tree, expanded>>
        PROVE  total' = total
    BY <1>1, <2>2 DEF Inv
  <2>3. ~(selected' \in 0..(total' - 1))
    BY <1>1 DEF InList
  <2>4. CASE Resize
    BY <2>1, <2>2, <2>3, <2>4 DEF Resize
  <2>5. ASSUME NEW new \in BOOLEAN, Toggle(new)
        PROVE  FALSE
    BY <1>1, <2>5, ToggleStays
  <2>6. ASSUME NEW new \in BOOLEAN, ToggleGarbage(new)
        PROVE  FALSE
    BY <2>1, <2>6 DEF ToggleGarbage
  <2>7. CASE NudgeDown
    <3>1. total' = total /\ selected' = selected + 1 /\ selected < total - 1
      BY <2>2, <2>7 DEF NudgeDown
    <3> QED
      BY <2>1, <2>3, <3>1
  <2>8. CASE AtBottom
    BY <2>1, <2>2, <2>3, <2>8 DEF AtBottom
  <2>9. CASE ScrollUp
    <3>1. total' = total /\ selected' = selected - 1 /\ selected # 0
      BY <2>2, <2>9 DEF ScrollUp
    <3> QED
      BY <2>1, <2>3, <3>1
  <2>10. CASE NudgeUp
    <3>1. total' = total /\ selected' = selected - 1 /\ selected > 0
      BY <2>2, <2>10 DEF NudgeUp
    <3> QED
      BY <2>1, <2>3, <3>1
  <2>11. CASE Quit
    BY <2>1, <2>3, <2>11 DEF Quit
  <2>12. CASE Ended
    BY <2>1, <2>3, <2>12 DEF Ended, vars
  <2> QED
    BY <1>1, <2>4, <2>5, <2>6, <2>7, <2>8, <2>9, <2>10, <2>11, <2>12 DEF Next, MoveDown
<1>2. Inv /\ Inv' /\ [Next]_vars => [InList /\ ~InList' => ScrollDown \/ Refresh]_vars
  BY <1>1
<1> QED
  BY <1>2, Invariant, PTL DEF Spec, LeavesTheListOnlyBy

(* With the root's tree on the screen: what Inv says of it.                *)
LEMMA Loaded ==
  ASSUME Inv, loaded
  PROVE  /\ IsTree(tree) /\ expanded \in SUBSET Nodes
         /\ flat = Listing(Root, tree, expanded, 0)
         /\ Lists(flat, Root, tree, expanded, 0)
         /\ Len(flat) \in Nat
<1>1. /\ IsTree(tree) /\ Cardinality(Reached(tree)) <= FlatLimit + 1 /\ loaded \in BOOLEAN
      /\ expanded \in SUBSET Nodes
  BY DEF Inv
<1>2. Top(loaded) = Root
  BY DEF Top
<1>3. flat = FlatTree(Root, tree, expanded, FlatLimit)
  BY <1>2 DEF Inv
<1> QED
  BY <1>1, <1>2, <1>3, FlatLists

(* The counts are those of the nodes below, beside and above.              *)
LEMMA CountsDoAgree ==
  ASSUME Inv, loaded
  PROVE  CountsAgree
<1>1. IsTree(tree)
  BY Loaded
<1>2. ASSUME NEW n \in Reached(tree)
      PROVE  /\ RowLabel(n, tree) = <<Cardinality(Below(n, tree)),
                                      Cardinality({m \in Nodes : tree.parent[m] = n})>>
             /\ ChildCount(n, TRUE, tree) = Cardinality(Below(n, tree))
             /\ TotalNodeCount(n, tree) =
                  1 + Cardinality(Siblings(tree.next[n], tree)) + Cardinality(Below(n, tree))
  <2>1. /\ n \in Nodes /\ n \in Pointers /\ n # Null
        /\ tree.children[n] \in Pointers /\ tree.next[n] \in Pointers
    BY <1>1, Pointer DEF Reached
  <2>2. TotalSize(tree.children[n], tree) = Cardinality(Below(n, tree))
    BY <1>1, <2>1, TotalSizeCounts, UnderIsBelow
  <2>3. ChildCount(n, FALSE, tree) = Cardinality({m \in Nodes : tree.parent[m] = n})
    <3>1. ChildCount(n, FALSE, tree) = Size(tree.children[n], tree)
      BY <1>1, <2>1, ChildCountCounts
    <3>2. Size(tree.children[n], tree) = Cardinality(Siblings(tree.children[n], tree))
      BY <1>1, <2>1, SizeCounts
    <3>3. Siblings(tree.children[n], tree) = {m \in Nodes : tree.parent[m] = n}
      BY <1>1, <2>1, ChildrenAre
    <3> QED
      BY <3>1, <3>2, <3>3
  <2>4. ChildCount(n, TRUE, tree) = Cardinality(Below(n, tree))
    BY <1>1, <2>1, <2>2, ChildCountCounts
  <2>5. SiblingCount(n, tree) = Cardinality(Siblings(tree.next[n], tree))
    BY <1>1, <2>1, SizeCounts DEF SiblingCount
  <2> QED
    BY <2>2, <2>3, <2>4, <2>5 DEF RowLabel, TotalNodeCount
<1>3. /\ \A n \in Reached(tree) : ComputedDepth(n, tree) < TreeMaxDepth(Root, tree)
      /\ \E n \in Reached(tree) : ComputedDepth(n, tree) + 1 = TreeMaxDepth(Root, tree)
  BY <1>1, MaxDepthIsDeepest
<1> QED
  BY <1>2, <1>3 DEF CountsAgree

(* The searches find what there is.                                        *)
LEMMA SearchesDoAgree ==
  ASSUME Inv, loaded
  PROVE  SearchesAgree
<1>1. IsTree(tree) /\ Root \in Pointers
  BY Loaded, Pointer
<1>2. Under(Root, tree) = Reached(tree)
  BY <1>1, UnderRoot
<1>3. ASSUME NEW wanted \in SUBSET Nodes
      PROVE  /\ TreeExists(Root, wanted, tree) = wanted \cap Reached(tree)
             /\ OneOf(SearchTree(Root, wanted, tree), wanted \cap Reached(tree))
             /\ Topmost(FindById(Root, wanted, tree), wanted \cap Reached(tree), tree)
  BY <1>1, <1>2, TreeExistsMarks, SearchTreeFinds, FindByIdFinds
<1> QED
  BY <1>3 DEF SearchesAgree, OneOf, Topmost

(* A node whose parents are marked is on the screen.                       *)
LEMMA ExpandingDoesShow ==
  ASSUME Inv, loaded
  PROVE  ExpandingShows
<1>1. /\ IsTree(tree) /\ expanded \in SUBSET Nodes
      /\ Cardinality(Reached(tree)) <= FlatLimit + 1
  BY Loaded DEF Inv
<1>2. SetExpansionState(Root, TRUE, tree, expanded) = expanded \cup Reached(tree)
  BY <1>1, ExpandingAllMarks
<1>3. ASSUME NEW n \in Reached(tree), NEW open, open = MarkParentsExpanded(n, tree, expanded)
      PROVE  \E k \in 1..VisibleSize(Root, tree, open) :
               FlatTree(Root, tree, open, FlatLimit)[k].node = n
  <2>1. n \in Nodes
    BY DEF Reached
  <2>2. open = expanded \cup Line(n, tree)
    BY <1>1, <1>3, <2>1, MarkingParentsMarks
  <2>3. Ancestors(n, tree) \subseteq open
    BY <2>2 DEF Line
  <2>4. n \in Shown(Root, tree, open)
    BY <1>1, <2>3, ShownIsVisible
  <2>5. PICK there \in BOOLEAN : there = TRUE
    OBVIOUS
  <2>6. Top(there) = Root
    BY <2>5 DEF Top
  <2>7. /\ Lists(FlatTree(Root, tree, open, FlatLimit), Root, tree, open, 0)
        /\ Len(FlatTree(Root, tree, open, FlatLimit)) = VisibleSize(Root, tree, open)
    BY <1>1, <2>6, FlatLists
  <2> QED
    BY <2>4, <2>7 DEF Lists
<1> QED
  BY <1>2, <1>3 DEF ExpandingShows

(* The printed tree is the screen, and the log lists the expanded nodes.   *)
LEMMA PrintingDoesAgree ==
  ASSUME Inv, loaded
  PROVE  PrintingAgrees
<1>1. /\ IsTree(tree) /\ expanded \in SUBSET Nodes /\ Root \in Pointers
      /\ flat = Listing(Root, tree, expanded, 0)
      /\ Len(flat) \in Nat
  BY Loaded, Pointer
<1>2. PICK n \in Nat : n = Len(flat)
  BY <1>1
<1>3. PICK none : none = [count |-> 0, rows |-> << >>]
  OBVIOUS
<1>4. none.count = 0 /\ Len(none.rows) = 0
  BY <1>3
<1>5. PrintTree(Root, tree, expanded, FALSE)
        = [k \in 1..Len(flat) |->
             [node |-> flat[k].node, depth |-> flat[k].depth, count |-> k]]
  <2>1. PICK out \in Printed :
          /\ PrintTreeItem(Root, tree, expanded, Nodes) = out.rows
          /\ Prints(out, none, flat, Nodes)
    BY <1>1, <1>3, PrintTreeItemPrints
  <2>2. PICK rows : rows = out.rows
    OBVIOUS
  <2>3. rows \in Seq([node : Nodes, depth : Nat, count : Nat])
    BY <2>2 DEF Printed
  <2>4. PICK q \in Nat : q = Len(rows)
    BY <2>3
  <2>5. /\ \A k \in (0 + 1)..q : \E i \in 1..n : rows[k] = Numbered(flat[i], 0 + i)
        /\ q - 0 = n
        /\ \A k \in (0 + 1)..q : rows[k].count = 0 + (k - 0)
    BY <1>2, <1>4, <2>1, <2>2, <2>4 DEF Prints
  <2>6. q = n
    BY <2>5
  <2>7. ASSUME NEW k \in 1..n
        PROVE  rows[k] = Numbered(flat[k], k)
    <3>1. k \in (0 + 1)..q
      BY <2>6
    <3>2. PICK i \in 1..n : rows[k] = Numbered(flat[i], 0 + i)
      BY <2>5, <3>1
    <3>3. rows[k].count = 0 + (k - 0)
      BY <2>5, <3>1
    <3>4. rows[k].count = 0 + i
      BY <3>2 DEF Numbered
    <3>5. i = k /\ 0 + i = k
      BY <3>3, <3>4
    <3> QED
      BY <3>2, <3>5
  <2>8. rows = [k \in 1..n |-> rows[k]]
    <3>1. rows \in [1..Len(rows) -> [node : Nodes, depth : Nat, count : Nat]]
      BY <2>3, LenProperties
    <3>2. rows \in [1..n -> [node : Nodes, depth : Nat, count : Nat]]
      BY <2>4, <2>6, <3>1
    <3> QED
      BY <3>2, Zenon
  <2>9. rows = [k \in 1..n |-> Numbered(flat[k], k)]
    BY <2>7, <2>8
  <2>10. PrintTree(Root, tree, expanded, FALSE) = rows
    BY <2>1, <2>2 DEF PrintTree
  <2> QED
    BY <1>2, <2>9, <2>10 DEF Numbered
<1> DEFINE log == LogPrintTree(Root, tree, expanded, FALSE)
<1>6. PICK all : all = Listing(Root, tree, Nodes, 0)
  OBVIOUS
<1>7. PICK out \in Printed : log = out.rows /\ Prints(out, none, all, expanded)
  <2>1. log = PrintTreeItem(Root, tree, Nodes, expanded)
    BY DEF LogPrintTree
  <2> HIDE DEF log
  <2> QED
    BY <1>1, <1>3, <1>6, <2>1, PrintTreeItemPrints
<1> HIDE DEF log
<1>8. PICK m \in Nat, q \in Nat : m = Len(all) /\ q = Len(log)
  <2>1. log \in Seq([node : Nodes, depth : Nat, count : Nat])
    BY <1>7 DEF Printed
  <2>2. all \in Rows
    BY <1>1, <1>6, ListingIs DEF ListingFollows
  <2> QED
    BY <2>1, <2>2 DEF Rows
<1>9. /\ \A k \in 1..q : \E i \in 1..m : all[i].node \in expanded /\ log[k] = Numbered(all[i], i)
      /\ \A i \in 1..m : all[i].node \in expanded => \E k \in 1..q : log[k] = Numbered(all[i], i)
      /\ \A j, k \in 1..q : j < k => log[j].count < log[k].count
  <2>1. /\ \A k \in (0 + 1)..q : \E i \in 1..m :
             all[i].node \in expanded /\ log[k] = Numbered(all[i], 0 + i)
        /\ \A i \in 1..m : all[i].node \in expanded =>
             \E k \in (0 + 1)..q : log[k] = Numbered(all[i], 0 + i)
        /\ \A j, k \in (0 + 1)..q : j < k => log[j].count < log[k].count
    BY <1>4, <1>7, <1>8 DEF Prints
  <2>2. \A i \in 1..m : 0 + i = i
    OBVIOUS
  <2>3. 0 + 1 = 1
    OBVIOUS
  <2> QED
    BY <2>1, <2>2, <2>3
<1>10. /\ \A i \in 1..m : all[i].node \in Reached(tree)
       /\ \A x \in Reached(tree) : \E i \in 1..m : all[i].node = x
       /\ \A i, j \in 1..m : i < j => Above(all[i].node, all[j].node, tree)
  <2>1. Lists(all, Root, tree, Nodes, 0)
    BY <1>1, <1>6, ListingLists
  <2>2. Shown(Root, tree, Nodes) = Reached(tree)
    BY <1>1, UnderRoot DEF Under
  <2> QED
    BY <1>8, <2>1, <2>2 DEF Lists
<1>11. \A row, i : Numbered(row, i).node = row.node /\ Numbered(row, i).count = i
  BY DEF Numbered
<1>12. {log[k].node : k \in 1..q} = expanded \cap Reached(tree)
  <2>1. ASSUME NEW k \in 1..q
        PROVE  log[k].node \in expanded \cap Reached(tree)
    BY <1>9, <1>10, <1>11
  <2>2. ASSUME NEW x \in expanded \cap Reached(tree)
        PROVE  \E k \in 1..q : log[k].node = x
    <3>1. PICK i \in 1..m : all[i].node = x
      BY <1>10
    <3>2. all[i].node \in expanded
      BY <3>1
    <3>3. \E k \in 1..q : log[k] = Numbered(all[i], i)
      BY <1>9, <3>2, Zenon
    <3> QED
      BY <1>11, <3>1, <3>3
  <2> QED
    BY <2>1, <2>2
<1>13. ASSUME NEW j \in 1..q, NEW k \in 1..q, j < k
       PROVE  log[j].count < log[k].count /\ Above(log[j].node, log[k].node, tree)
  <2>1. PICK a \in 1..m : log[j] = Numbered(all[a], a)
    BY <1>9
  <2>2. PICK b \in 1..m : log[k] = Numbered(all[b], b)
    BY <1>9
  <2>3. log[j].count < log[k].count
    BY <1>9, <1>13
  <2>4. log[j].count = a /\ log[k].count = b
    BY <1>11, <2>1, <2>2
  <2>5. log[j].node = all[a].node /\ log[k].node = all[b].node
    BY <1>11, <2>1, <2>2
  <2>6. a < b
    BY <2>3, <2>4
  <2> QED
    BY <1>10, <2>3, <2>5, <2>6
<1>14. /\ {log[k].node : k \in 1..Len(log)} = expanded \cap Reached(tree)
       /\ \A j, k \in 1..Len(log) : j < k => /\ log[j].count < log[k].count
                                             /\ Above(log[j].node, log[k].node, tree)
  BY <1>8, <1>12, <1>13
<1> QED
  BY <1>5, <1>14 DEF PrintingAgrees, log

(* The counts, the searches, the marking and the printing agree with the   *)
(* tree and with the screen, for every tree of up to FlatLimit + 1         *)
(* comments and every way of expanding it.                                 *)
THEOREM WalksDoAgree == Spec => []WalksAgree
<1>1. Inv => WalksAgree
  BY CountsDoAgree, SearchesDoAgree, ExpandingDoesShow, PrintingDoesAgree DEF WalksAgree
<1> QED
  BY <1>1, Invariant, PTL

=============================================================================
