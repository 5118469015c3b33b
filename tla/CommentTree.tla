---------------------------- MODULE CommentTree ----------------------------
(***************************************************************************)
(* The walks of src/comment_tree.c.  A tree t is its pointers: for each    *)
(* node the first of its children, its next sibling and its parent.  The   *)
(* walks that loop over siblings and those that call themselves with next  *)
(* are both functions of the first node: what they do from it on.          *)
(***************************************************************************)
EXTENDS Integers, Sequences, FiniteSets

CONSTANTS Nodes,   \* the nodes a downloaded tree may have
          Root,    \* the story's node
          Null

ASSUME CommentTreeAssumption ==
  IsFiniteSet(Nodes) /\ Root \in Nodes /\ Null \notin Nodes

Pointers == Nodes \cup {Null}

\* Comments before they are linked.
Unlinked == LET none == [n \in Nodes |-> Null]
            IN  [children |-> none, next |-> none, parent |-> none]

LastSibling(x, t) ==
  LET last[y \in Pointers] ==
        IF y = Null THEN Null ELSE IF t.next[y] = Null THEN y ELSE last[t.next[y]]
  IN  last[x]

AppendChild(p, n, t) ==
  LET first == t.children[p]
      last  == LastSibling(first, t)
  IN  [children |-> IF first = Null THEN [t.children EXCEPT ![p] = n] ELSE t.children,
       next     |-> IF first = Null THEN t.next ELSE [t.next EXCEPT ![last] = n],
       parent   |-> [t.parent EXCEPT ![n] = p]]

Reached(t) == {n \in Nodes : n = Root \/ t.parent[n] # Null}

\* What buildCommentTree makes of unlinked comments, one AppendChild after the
\* other: order is that in which they were appended.
IsTree(t) ==
  /\ t \in [children : [Nodes -> Pointers], next : [Nodes -> Pointers],
            parent : [Nodes -> Pointers]]
  /\ t.parent[Root] = Null
  /\ \A n \in Nodes :
       /\ t.children[n] # Null => t.parent[t.children[n]] = n
       /\ t.next[n] # Null => t.parent[n] # Null /\ t.parent[t.next[n]] = t.parent[n]
       /\ t.parent[n] # Null => \/ t.children[t.parent[n]] = n
                                \/ \E m \in Nodes : t.next[m] = n
       /\ t.parent[n] = Null => n = Root \/ t.children[n] = Null
  /\ \E order \in [Nodes -> 0..Cardinality(Nodes)] :
       /\ \A m, n \in Nodes :
            t.children[m] = n \/ t.next[m] = n \/ t.parent[n] = m => order[m] < order[n]
       /\ \A n \in Reached(t) : order[n] < Cardinality(Reached(t))

-----------------------------------------------------------------------------
(* Sizes *)

\* x, the siblings behind it and all below them.
TotalSize(x, t) ==
  LET size[y \in Pointers] ==
        IF y = Null THEN 0 ELSE 1 + size[t.children[y]] + size[t.next[y]]
  IN  size[x]

(* Mutant: collapsed nodes are counted through.                            *)
VisibleSizeOfAll(x, t, open) == TotalSize(x, t)

\* The rows that these take up when the nodes of open are expanded.
VisibleSize(x, t, open) ==
  LET size[y \in Pointers] ==
        IF y = Null THEN 0
        ELSE 1 + (IF y \in open THEN size[t.children[y]] ELSE 0) + size[t.next[y]]
  IN  size[x]

Size(x, t) ==
  LET size[y \in Pointers] == IF y = Null THEN 0 ELSE 1 + size[t.next[y]]
  IN  size[x]

(* Mutant: the node's own siblings are counted with what is below them.    *)
ChildCountOfGrandchildren(x, recurse, t) ==
  LET count[y \in Pointers] ==
        IF y = Null THEN 0
        ELSE (IF recurse THEN TotalSize(t.children[y], t) ELSE 1) + count[t.next[y]]
  IN  count[t.children[x]]

ChildCount(x, recurse, t) ==
  LET count[y \in Pointers] ==
        IF y = Null THEN 0
        ELSE 1 + (IF recurse THEN TotalSize(t.children[y], t) ELSE 0) + count[t.next[y]]
  IN  count[t.children[x]]

SiblingCount(x, t) == Size(t.next[x], t)
TotalNodeCount(x, t) == 1 + SiblingCount(x, t) + ChildCount(x, TRUE, t)

\* The numbers in front of a collapsed row (RenderRow).
RowLabel(x, t) == <<TotalSize(t.children[x], t), ChildCount(x, FALSE, t)>>

Larger(i, j) == IF i > j THEN i ELSE j

TreeMaxDepth(x, t) ==
  LET deepest[y \in Pointers] == [depth \in Nat |->
        IF y = Null THEN 0
        ELSE Larger(IF t.children[y] = Null THEN depth
                    ELSE deepest[t.children[y]][depth + 1],
                    deepest[t.next[y]][depth])]
  IN  IF x = Null THEN 0 ELSE Larger(1, deepest[x][1])

ComputedDepth(x, t) ==
  LET depth[y \in Nodes] ==
        IF t.parent[y] = Null THEN 0 ELSE 1 + depth[t.parent[y]]
  IN  depth[x]

-----------------------------------------------------------------------------
(* Rows *)

Rows == Seq([node : Nodes, depth : Nat])

(* Mutant: a node is written after what is below it.                       *)
FlatTreeBelowFirst(x, t, open, limit) ==
  LET walk[y \in Pointers] == [depth \in Nat |-> [ray \in Rows |->
        IF y = Null THEN ray
        ELSE LET below == IF y \in open THEN walk[t.children[y]][depth + 1][ray] ELSE ray
                 one == Append(below, [node |-> y, depth |-> depth])
             IN  IF Len(one) > limit THEN one ELSE walk[t.next[y]][depth][one]]]
  IN  walk[x][0][<< >>]

\* _flatTreeInternal: ray is what is written so far.  The test of rayindex
\* comes after the write, and the caller goes on.
FlatTree(x, t, open, limit) ==
  LET walk[y \in Pointers] == [depth \in Nat |-> [ray \in Rows |->
        IF y = Null THEN ray
        ELSE LET one == Append(ray, [node |-> y, depth |-> depth])
                 below == IF y \in open THEN walk[t.children[y]][depth + 1][one] ELSE one
             IN  IF Len(one) > limit THEN one ELSE walk[t.next[y]][depth][below]]]
  IN  walk[x][0][<< >>]

\* The running count and the rows printed with it.
Printed == [count : Nat, rows : Seq([node : Nodes, depth : Nat, count : Nat])]

\* The nodes of into are entered, those of shown are printed.
PrintTreeItem(x, t, into, shown) ==
  LET print[y \in Pointers] == [depth \in Nat |-> [out \in Printed |->
        IF y = Null THEN out
        ELSE LET count == out.count + 1
                 row == [node |-> y, depth |-> depth, count |-> count]
                 one == [count |-> count,
                         rows |-> IF y \in shown THEN Append(out.rows, row) ELSE out.rows]
                 below == IF y \in into THEN print[t.children[y]][depth + 1][one] ELSE one
             IN  print[t.next[y]][depth][below]]]
  IN  print[x][0][[count |-> 0, rows |-> << >>]].rows

PrintTree(x, t, open, all) == PrintTreeItem(x, t, IF all THEN Nodes ELSE open, Nodes)

\* The log counts every node and writes those that are expanded.
LogPrintTree(x, t, open, all) == PrintTreeItem(x, t, Nodes, IF all THEN Nodes ELSE open)

-----------------------------------------------------------------------------
(* Searching for the nodes in wanted: those with a text (SearchTree) or an *)
(* id (SearchById).                                                        *)
SearchTree(x, wanted, t) ==
  LET search[y \in Pointers] ==
        IF y \in wanted \cup {Null} THEN y
        ELSE LET found == search[t.next[y]]
             IN  IF found # Null THEN found ELSE search[t.children[y]]
  IN  search[x]

FindById(x, wanted, t) ==
  LET find[y \in Pointers] ==
        IF y \in wanted \cup {Null} THEN y
        ELSE LET found == find[t.children[y]]
             IN  IF found # Null THEN found ELSE find[t.next[y]]
  IN  find[x]

\* TreeExists marks every node it finds; these are the marked ones.
TreeExists(x, wanted, t) ==
  LET located[y \in Pointers] ==
        IF y = Null THEN {}
        ELSE ({y} \cap wanted) \cup located[t.next[y]] \cup located[t.children[y]]
  IN  located[x]

-----------------------------------------------------------------------------
(* Expanding: the set of expanded nodes afterwards.                        *)

SetExpansionState(x, new, t, open) ==
  LET set[y \in Pointers] == [old \in SUBSET Nodes |->
        IF y = Null THEN old
        ELSE LET one == IF new THEN old \cup {y} ELSE old \ {y}
             IN  set[t.children[y]][set[t.next[y]][one]]]
  IN  set[x][open]

MarkParentsExpanded(x, t, open) ==
  LET mark[y \in Nodes] ==
        {y} \cup IF t.parent[y] = Null THEN {} ELSE mark[t.parent[y]]
  IN  open \cup mark[x]

-----------------------------------------------------------------------------
(* What the walks are compared with: the nodes above a node, the siblings  *)
(* from a node on, the nodes below a node, and the order on the screen.    *)

Ancestors(n, t) ==
  LET up[y \in Nodes] ==
        IF t.parent[y] = Null THEN {} ELSE {t.parent[y]} \cup up[t.parent[y]]
  IN  up[n]

Siblings(x, t) ==
  LET list[y \in Pointers] == IF y = Null THEN {} ELSE {y} \cup list[t.next[y]]
  IN  list[x]

Below(n, t) == {m \in Nodes : n \in Ancestors(m, t)}

\* m is shown above n: n is below it, or below or at a later sibling of m or
\* of a node that m is below.
Above(m, n, t) == \/ m \in Ancestors(n, t)
                  \/ \E a \in Ancestors(m, t) \cup {m}, b \in Ancestors(n, t) \cup {n} :
                       b \in Siblings(t.next[a], t)
=============================================================================
