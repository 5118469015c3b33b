----------------------------- MODULE MergeSorts -----------------------------
(***************************************************************************)
(* The recursive merge sorts of simple.c and Articles.c, which differ in a *)
(* test, beside the sorts of ll_sort_test.c on the same list.              *)
(***************************************************************************)
EXTENDS ListSort

Input == [k \in Nodes |-> k]

\* FrontBackSplit: the slow pointer stops at the end of the front half, which
\* has the odd node.
FrontHalf(s) == (Len(s) + 1) \div 2

\* The test of SortedMerge: the node of the front half is taken first.
\* Articles.c asks only whether the texts differ.
FrontFirst(program, x, y) == IF program = "simple" THEN n[x] <= n[y] ELSE n[x] # n[y]

SortedMerge(program, a, b) ==
  LET merge[p \in Seq(Nodes) \X Seq(Nodes)] ==
        LET x == p[1]
            y == p[2]
        IN  IF x = <<>> THEN y
            ELSE IF y = <<>> THEN x
            ELSE IF FrontFirst(program, x[1], y[1]) THEN <<x[1]>> \o merge[<<Tail(x), y>>]
            ELSE <<y[1]>> \o merge[<<x, Tail(y)>>]
  IN  merge[<<a, b>>]

MergeSort(program, list) ==
  LET sort[s \in Seq(Nodes)] ==
        IF Len(s) < 2 THEN s
        ELSE SortedMerge(program, sort[SubSeq(s, 1, FrontHalf(s))],
                                  sort[SubSeq(s, FrontHalf(s) + 1, Len(s))])
  IN  sort[list]

-----------------------------------------------------------------------------
(* Properties                                                              *)

\* simple.c sorts as the others do.  Articles.c does not sort: different texts
\* stay as they were, whatever their order, and only equal neighbours of two
\* halves change places.
RecursiveSorts == /\ IsStableOrder(MergeSort("simple", Input))
                  /\ IsInjective(n) => MergeSort("articles", Input) = Input

(* Whatever the list, SortList and SortTree come to an end, and leave a    *)
(* list with every node once, in ascending order, equal numbers in the     *)
(* order they came, the order simple.c's recursive sort gives the same     *)
(* list; the sort of Articles.c leaves different texts alone.              *)
SortsEndStable == <>[](pc = "done" /\ SortedWhenDone /\ RecursiveSorts)
=============================================================================
