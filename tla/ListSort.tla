------------------------------ MODULE ListSort ------------------------------
(***************************************************************************)
(* The two sorts of ll_sort_test.c, which relink the nodes of a singly     *)
(* linked list in place, pointer by pointer: SortList, a merge sort that   *)
(* keeps sorted runs in an array of NumLists slots, and SortTree, which    *)
(* swaps the first descending pair and starts again.                       *)
(*                                                                         *)
(* The nodes are numbered as they stand in the list to be sorted, so that  *)
(* the positions a stable sort keeps can be read off them; 0 is NULL.      *)
(***************************************************************************)
EXTENDS Integers, Sequences, FiniteSets, Functions

CONSTANTS NumLists,  \* NUMLISTS, 32 in the code
          MaxNodes,  \* bound: nodes of the list
          MaxKey     \* bound: the numbers are 0..MaxKey

ASSUME ListSortAssumption ==
  NumLists \in Nat \ {0} /\ MaxNodes \in Nat /\ MaxKey \in Nat

VARIABLES n,      \* the numbers of the nodes
          next,   \* the successor of each node, 0 for none
          pc,     \* where the sort stands
          head,   \* the caller's pointer to the list
          slots,  \* SortList: aList
          pNode,  \* SortList: the run being merged
          pNext,  \* SortList: the first node not yet taken
          i,      \* SortList: the slot looked at
          call,   \* SortList: the local variables of MergeLists
          tmp     \* SortTree: the node whose successor is looked at

vars == <<n, next, pc, head, slots, pNode, pNext, i, call, tmp>>

Nodes == DOMAIN n

NoCall == [from |-> "none", src1 |-> 0, src2 |-> 0, dst |-> 0, tail |-> 0]

Init == /\ \E length \in 0..MaxNodes : n \in [1..length -> 0..MaxKey]
        /\ next = [k \in Nodes |-> IF k = Len(n) THEN 0 ELSE k + 1]
        /\ head = IF n = <<>> THEN 0 ELSE 1
        /\ \/ pc = "take" /\ tmp = 0
           \/ pc = "walk" /\ tmp = head /\ head # 0
        /\ slots = [s \in 0..NumLists - 1 |-> 0]
        /\ pNode = head /\ pNext = 0 /\ i = 0 /\ call = NoCall

-----------------------------------------------------------------------------
(* SortList                                                                *)

\* The next node is cut off the list and becomes a run of its own.
TakeNode == /\ pc = "take" /\ pNode # 0
            /\ pNext' = next[pNode]
            /\ next' = [next EXCEPT ![pNode] = 0]
            /\ i' = 0 /\ pc' = "carry"
            /\ UNCHANGED <<n, head, slots, pNode, call, tmp>>

MergeLists(from) ==
  /\ call' = [from |-> from, src1 |-> slots[i], src2 |-> pNode, dst |-> 0, tail |-> 0]
  /\ pc' = "merge"
  /\ UNCHANGED <<n, next, head, slots, pNode, pNext, i, tmp>>

Carry == pc = "carry" /\ i < NumLists /\ slots[i] # 0 /\ MergeLists("carry")

\* Mutant: a run that was carried past the last slot goes to the first.
StoreAtTheFront == /\ pc = "carry" /\ (i < NumLists => slots[i] = 0)
                   /\ i' = IF i = NumLists THEN 0 ELSE i
                   /\ slots' = [slots EXCEPT ![i'] = pNode]
                   /\ pNode' = pNext /\ pc' = "take"
                   /\ UNCHANGED <<n, next, head, pNext, call, tmp>>

\* The run goes to the first free slot, or to the last one, which the loop
\* has merged into it.
Store == /\ pc = "carry" /\ (i < NumLists => slots[i] = 0)
         /\ i' = IF i = NumLists THEN i - 1 ELSE i
         /\ slots' = [slots EXCEPT ![i'] = pNode]
         /\ pNode' = pNext /\ pc' = "take"
         /\ UNCHANGED <<n, next, head, pNext, call, tmp>>

AllTaken == /\ pc = "take" /\ pNode = 0
            /\ i' = 0 /\ pc' = "gather"
            /\ UNCHANGED <<n, next, head, slots, pNode, pNext, call, tmp>>

Gather == pc = "gather" /\ i < NumLists /\ MergeLists("gather")

Gathered == /\ pc = "gather" /\ i = NumLists
            /\ head' = pNode /\ pc' = "done"
            /\ UNCHANGED <<n, next, slots, pNode, pNext, i, call, tmp>>

-----------------------------------------------------------------------------
(* MergeLists                                                              *)

\* *ppDst = x, where ppDst is the head of the destination or the next of its
\* last node.
Linked(x) == IF call.tail = 0 THEN next ELSE [next EXCEPT ![call.tail] = x]
Destination(x) == IF call.tail = 0 THEN x ELSE call.dst

\* Mutant: of two equal numbers the second comes first.
SecondFirstOnTies(x, y) == n[y] <= n[x]

SecondFirst(x, y) == n[y] < n[x]

\* The smaller of the two first nodes joins the destination.
MergeStep ==
  /\ pc = "merge" /\ call.src1 # 0 /\ call.src2 # 0
  /\ LET x == IF SecondFirst(call.src1, call.src2) THEN call.src2 ELSE call.src1
     IN  /\ next' = Linked(x)
         /\ call' = [call EXCEPT !.dst = Destination(x), !.tail = x,
                                 !.src1 = IF x = @ THEN next[x] ELSE @,
                                 !.src2 = IF x = @ THEN next[x] ELSE @]
  /\ UNCHANGED <<n, pc, head, slots, pNode, pNext, i, tmp>>

\* One source is empty: what is left of the other follows.  The slot that was
\* carried is cleared, the slots that are gathered are not.
MergeReturns ==
  /\ pc = "merge" /\ (call.src1 = 0 \/ call.src2 = 0)
  /\ LET rest == IF call.src1 = 0 THEN call.src2 ELSE call.src1
     IN  next' = Linked(rest) /\ pNode' = Destination(rest)
  /\ slots' = IF call.from = "carry" THEN [slots EXCEPT ![i] = 0] ELSE slots
  /\ i' = i + 1 /\ pc' = call.from /\ call' = NoCall
  /\ UNCHANGED <<n, head, pNext, tmp>>

-----------------------------------------------------------------------------
(* SortTree                                                                *)

\* findPreva: the node before x, or NULL for the head.
Previous(x) == IF x = head THEN 0 ELSE CHOOSE p \in Nodes : next[p] = x

Descending == next[tmp] # 0 /\ n[tmp] > n[next[tmp]]

Walk == /\ pc = "walk" /\ next[tmp] # 0 /\ ~Descending
        /\ tmp' = next[tmp]
        /\ UNCHANGED <<n, next, pc, head, slots, pNode, pNext, i, call>>

\* swap is called with the neighbours only, of which the second is read
\* through the next pointer of the first; the iteration ends and another
\* begins at the head.
Swap == /\ pc = "walk" /\ Descending
        /\ LET b == next[tmp]
               through == IF tmp = head THEN next ELSE [next EXCEPT ![Previous(tmp)] = b]
           IN  /\ head' = IF tmp = head THEN b ELSE head
               /\ next' = [through EXCEPT ![b] = tmp, ![tmp] = next[b]]
        /\ tmp' = head'
        /\ UNCHANGED <<n, pc, slots, pNode, pNext, i, call>>

\* An iteration without a swap is the last.
NothingSwapped == /\ pc = "walk" /\ next[tmp] = 0
                  /\ pc' = "done"
                  /\ UNCHANGED <<n, next, head, slots, pNode, pNext, i, call, tmp>>

-----------------------------------------------------------------------------
Sorted == pc = "done" /\ UNCHANGED vars

Next == \/ TakeNode \/ Carry \/ Store \/ AllTaken \/ Gather \/ Gathered
        \/ MergeStep \/ MergeReturns
        \/ Walk \/ Swap \/ NothingSwapped
        \/ Sorted

\* A sequential program: it goes on while it can.
Spec == Init /\ [][Next]_vars /\ WF_vars(Next)

-----------------------------------------------------------------------------
(* Lists and their order                                                   *)

\* The nodes reached from x, no more than so many.
Reached(links, x, most) ==
  LET at[k \in 1..most] ==
        IF k = 1 THEN x ELSE LET y == at[k - 1] IN IF y = 0 THEN 0 ELSE links[y]
      length == Cardinality({k \in 1..most : at[k] # 0})
  IN  [k \in 1..length |-> at[k]]

\* One more than there are if it is a ring.
ChainIn(links, x) == Reached(links, x, Len(n) + 1)

Chain(x) == ChainIn(next, x)

Elements(s) == {s[k] : k \in 1..Len(s)}

\* The order of a stable sort: by number, equal numbers as they stood.
Before(x, y) == n[x] < n[y] \/ (n[x] = n[y] /\ x < y)

\* s has every node once, in that order.
IsStableOrder(s) == /\ Len(s) = Len(n)
                    /\ Elements(s) = Nodes
                    /\ \A j, k \in 1..Len(s) : j < k => Before(s[j], s[k])

Power2[k \in 0..NumLists] == IF k = 0 THEN 1 ELSE 2 * Power2[k - 1]

-----------------------------------------------------------------------------
(* The inductive invariant of SortList                                     *)

\* x is the first of A, 0 if there is none.
IsFirst(x, A) == IF A = {} THEN x = 0
                 ELSE x \in A /\ \A y \in A : y = x \/ Before(x, y)

After(x, A) == {y \in A : Before(x, y)}

\* The list from x is the nodes of A in their order.
IsRun(links, x, A) == IsFirst(x, A) /\ \A y \in A : IsFirst(links[y], After(y, A))

\* Slot s holds the nodes above bound s + 1 up to bound s of b: nodes taken
\* earlier have gone to higher slots.
Bounds == {b \in [0..NumLists -> 0..Len(n)] :
             b[NumLists] = 0 /\ \A r, s \in 0..NumLists : r <= s => b[s] <= b[r]}
Part(b, s) == (b[s + 1] + 1)..b[s]

\* A run as long as slot s allows: the last slot holds several.
FullRun(s, size) == IF s < NumLists - 1 THEN size = Power2[s]
                    ELSE \E c \in 0..Len(n) : size = c * Power2[NumLists - 1]

SlotOK(b, s) == /\ IsRun(next, slots[s], Part(b, s))
                /\ slots[s] = 0 \/ FullRun(s, b[s] - b[s + 1])

\* The nodes up to here were taken off the list; the others stand in it as
\* they stood.
Taken == LET rest == IF pc = "take" THEN pNode ELSE pNext
         IN  IF rest = 0 THEN Len(n) ELSE rest - 1
UntakenInv == \A x \in (Taken + 1)..Len(n) : next[x] = IF x = Len(n) THEN 0 ELSE x + 1

TakeInv(b) == /\ pc = "take"
              /\ b[0] = Taken /\ (pNode = 0 => pNext = 0)
              /\ \A s \in 0..(NumLists - 1) : SlotOK(b, s)

\* A run that is carried has the nodes above bound i.
CarryInv(b) == /\ pc = "carry"
               /\ i \in 0..NumLists /\ b[i] < Taken
               /\ IsRun(next, pNode, (b[i] + 1)..Taken)
               /\ FullRun(i, Taken - b[i])
               /\ \A s \in 0..(i - 1) : slots[s] = 0
               /\ \A s \in i..(NumLists - 1) : SlotOK(b, s)

GatherInv(b) == /\ pc = "gather"
                /\ i \in 0..NumLists /\ pNext = 0
                /\ IsRun(next, pNode, (b[i] + 1)..Len(n))
                /\ \A s \in i..(NumLists - 1) : SlotOK(b, s)

\* MergeLists has moved the nodes up to the tail from the two runs, of slot i
\* and of the nodes above, to the destination.
Moved(A) == IF call.tail = 0 THEN {} ELSE {x \in A : x = call.tail \/ Before(x, call.tail)}

MergeInv(b) ==
  /\ pc = "merge"
  /\ i \in 0..(NumLists - 1)
  /\ call.from \in {"carry", "gather"}
  /\ call.from = "gather" => pNext = 0
  /\ call.from = "carry" =>
       /\ b[i] < Taken /\ slots[i] # 0
       /\ FullRun(i, Taken - b[i]) /\ FullRun(i, b[i] - b[i + 1])
       /\ \A s \in 0..(i - 1) : slots[s] = 0
  /\ LET old == Part(b, i)
         new == (b[i] + 1)..Taken
         out == Moved(old \cup new)
     IN  /\ IsRun(next, call.src1, old \ out)
         /\ IsRun(next, call.src2, new \ out)
         /\ IsFirst(call.dst, out)
         /\ call.tail # 0 => call.tail \in out
         /\ \A y \in out \ {call.tail} : IsFirst(next[y], After(y, out))
  /\ \A s \in (i + 1)..(NumLists - 1) : SlotOK(b, s)

SlotsInv == \E b \in Bounds :
              /\ b[0] <= Taken
              /\ TakeInv(b) \/ CarryInv(b) \/ GatherInv(b) \/ MergeInv(b)

-----------------------------------------------------------------------------
(* The inductive invariant of SortTree                                     *)

\* The list is all nodes; equal numbers are never swapped, and up to tmp
\* nothing descends.
WalkInv ==
  pc = "walk" =>
    LET s == Chain(head)
    IN  /\ s \in Seq(Nodes) /\ s # << >> /\ head = s[1]
        /\ Elements(s) = Nodes /\ Len(s) = Len(n)
        /\ \A j, k \in 1..Len(s) : s[j] = s[k] => j = k
        /\ \A k \in 1..Len(s) : next[s[k]] = IF k = Len(s) THEN 0 ELSE s[k + 1]
        /\ \A j, k \in 1..Len(s) : j < k /\ n[s[j]] = n[s[k]] => s[j] < s[k]
        /\ \E k \in 1..Len(s) : /\ tmp = s[k]
                                 /\ \A j \in 1..(k - 1) : n[s[j]] <= n[s[j + 1]]

-----------------------------------------------------------------------------
TypeOK == /\ n \in Seq(0..MaxKey)
          /\ next \in [Nodes -> Nodes \cup {0}]
          /\ slots \in [0..(NumLists - 1) -> Nodes \cup {0}]
          /\ pNode \in Nodes \cup {0} /\ pNext \in Nodes \cup {0}
          /\ call \in [from : {"none", "carry", "gather"}, src1 : Nodes \cup {0},
                       src2 : Nodes \cup {0}, dst : Nodes \cup {0}, tail : Nodes \cup {0}]
          /\ pc \in {"take", "carry", "merge", "gather", "walk", "done"}

DoneInv == pc = "done" => IsRun(next, head, Nodes)

Inv == /\ TypeOK /\ WalkInv /\ DoneInv
       /\ pc \in {"take", "carry", "merge", "gather"} => SlotsInv
       /\ pc \in {"take", "carry", "merge"} => UntakenInv

-----------------------------------------------------------------------------
(* Properties                                                              *)

(* When a sort ends the list has every node once, in ascending order, and  *)
(* equal numbers in the order they came ("compare uses pSrc2 < pSrc1 to    *)
(* follow the STL rule").                                                  *)
SortedWhenDone == pc = "done" => IsStableOrder(Chain(head))

(* "aList[i] == NULL or ptr to list with 2^i nodes" (ll_sort_test.c:20),   *)
(* whenever a node is about to be taken.  The last slot cannot carry       *)
(* further: it holds a number of such lists.  No node is in two slots or   *)
(* in a slot and still to be taken, and none is lost.                      *)
SlotsArePowersOfTwo ==
  pc = "take" =>
    LET held == [s \in 0..NumLists |-> Chain(IF s = NumLists THEN pNode ELSE slots[s])]
    IN  /\ \A s \in 0..(NumLists - 2) : slots[s] # 0 => Len(held[s]) = Power2[s]
        /\ \E c \in 0..Len(n) : Len(held[NumLists - 1]) = c * Power2[NumLists - 1]
        /\ \A s \in 0..NumLists : IsInjective(held[s])
        /\ \A s \in 0..NumLists : \A r \in 0..(s - 1) :
             Elements(held[r]) \cap Elements(held[s]) = {}
        /\ UNION {Elements(held[s]) : s \in 0..NumLists} = Nodes
=============================================================================
