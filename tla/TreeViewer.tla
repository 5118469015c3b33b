----------------------------- MODULE TreeViewer -----------------------------
(***************************************************************************)
(* The comment viewer of src/crs_tree_test.c: one key at a time changes    *)
(* the tree, the selection or the scroll position, and redraws.  Every     *)
(* redraw flattens the tree anew (ToFlatTree) and prints the selected      *)
(* comment in the pane below.  The selection is a row number, kept across  *)
(* redraws, refreshes and resizes.                                         *)
(***************************************************************************)
EXTENDS CommentTree

CONSTANTS Trees,       \* what BuildTree may return
          WindowSize,  \* WINDOW_SIZE: LINES / 2 when the program started
          FlatLimit,   \* the limit of _flatTreeInternal, 1000
          Bound,       \* bound: how far a run scrolls either way
          Nothing,     \* the pane: nothing printed
          Garbage      \* the pane: whatever lay behind the flat array

ASSUME TreeViewerAssumption ==
  /\ {Nothing, Garbage} \cap Nodes = {}
  /\ WindowSize \in Nat \ {0} /\ FlatLimit \in Nat /\ Bound \in Nat
  /\ \A t \in Trees : IsTree(t) /\ Cardinality(Reached(t)) <= FlatLimit + 1

VARIABLES
  loaded,     \* tree # NULL
  tree,       \* its pointers
  expanded,   \* the nodes whose NODE_EXPANDED flag is set
  flat,       \* _flat: the entries written
  total,      \* _total_tree_size
  selected,   \* _selected
  start_row,
  pane,       \* the comment printed in the pane
  mode        \* "keys": waiting for a key; "quit"; "crashed"

vars == <<loaded, tree, expanded, flat, total, selected, start_row, pane, mode>>

Init == /\ loaded = FALSE
        /\ tree = Unlinked
        /\ expanded = {}
        /\ flat = << >>
        /\ total = 0
        /\ selected = -1
        /\ start_row = 0
        /\ pane = Nothing
        /\ mode = "keys"

TopLevel == IF loaded' THEN Root ELSE Null

(* RenderTreeIntoWindow, after the other variables got their new values.   *)
(* _flat[_selected] is read with no test: behind the array it is a stale   *)
(* or null pointer, and its text is printed or the program dies.           *)
Render ==
  /\ total' = VisibleSize(TopLevel, tree', expanded')
  /\ flat' = FlatTree(TopLevel, tree', expanded', FlatLimit)
  /\ \/ /\ selected' < 0
        /\ UNCHANGED <<pane, mode>>
     \/ /\ selected' \in 0..(Len(flat') - 1)
        /\ pane' = flat'[selected' + 1].node
        /\ UNCHANGED mode
     \/ /\ selected' >= Len(flat')
        /\ \/ pane' = Garbage /\ UNCHANGED mode
           \/ mode' = "crashed" /\ UNCHANGED pane

-----------------------------------------------------------------------------
Key == mode = "keys"

(* F3: a new tree, nothing expanded in it, and the selection as it was.    *)
Refresh == /\ Key
           /\ loaded' = TRUE
           /\ tree' \in Trees
           /\ expanded' = {}
           /\ UNCHANGED <<selected, start_row>>
           /\ Render

Resize == /\ Key
          /\ UNCHANGED <<loaded, tree, expanded, selected, start_row>>
          /\ Render

WithState(n, new) == IF new THEN expanded \cup {n} ELSE expanded \ {n}

(* Left collapses and Right expands the selected node.                     *)
Toggle(new) == /\ Key /\ selected \in 0..(Len(flat) - 1)
               /\ expanded' = WithState(flat[selected + 1].node, new)
               /\ UNCHANGED <<loaded, tree, selected, start_row>>
               /\ Render

(* The same behind the array: the flag of some node is set or cleared, or  *)
(* none is (a null or foreign pointer); the redraw may crash.              *)
ToggleGarbage(new) == /\ Key /\ selected >= Len(flat)
                      /\ \/ \E n \in Nodes : expanded' = WithState(n, new)
                         \/ UNCHANGED expanded
                      /\ UNCHANGED <<loaded, tree, selected, start_row>>
                      /\ Render

AtWindowEnd == selected - start_row >= WindowSize - 1

(* moveDown: off the bottom of the screen, down a row, or at the bottom.   *)
ScrollDown == /\ Key /\ start_row < Bound
              /\ AtWindowEnd
              /\ start_row' = start_row + 1
              /\ selected' = selected + 1
              /\ UNCHANGED <<loaded, tree, expanded>>
              /\ Render

(* Mutant: one row too far.                                                *)
NudgeDownTooFar == /\ Key
                   /\ ~AtWindowEnd
                   /\ selected < total
                   /\ selected' = selected + 1
                   /\ UNCHANGED <<loaded, tree, expanded, start_row>>
                   /\ Render

NudgeDown == /\ Key
             /\ ~AtWindowEnd
             /\ selected < total - 1
             /\ selected' = selected + 1
             /\ UNCHANGED <<loaded, tree, expanded, start_row>>
             /\ Render

AtBottom == /\ Key /\ start_row < Bound
            /\ ~AtWindowEnd
            /\ selected >= total - 1
            /\ start_row' = start_row + 1
            /\ UNCHANGED <<loaded, tree, expanded, selected>>
            /\ Render

MoveDown == ScrollDown \/ NudgeDown \/ AtBottom

(* moveUp.  At row 0, or below none and not at the window's top, nothing   *)
(* moves.                                                                  *)
ScrollUp == /\ Key /\ start_row > -Bound
            /\ selected # 0
            /\ selected - start_row <= 0
            /\ start_row' = start_row - 1
            /\ selected' = selected - 1
            /\ UNCHANGED <<loaded, tree, expanded>>
            /\ Render

(* Mutant: the window is not drawn again.                                  *)
NudgeUpNotDrawn == /\ Key
                   /\ selected > 0
                   /\ selected - start_row > 0
                   /\ selected' = selected - 1
                   /\ UNCHANGED <<loaded, tree, expanded, start_row, flat, total,
                                  pane, mode>>

NudgeUp == /\ Key
           /\ selected > 0
           /\ selected - start_row > 0
           /\ selected' = selected - 1
           /\ UNCHANGED <<loaded, tree, expanded, start_row>>
           /\ Render

Quit == /\ Key
        /\ mode' = "quit"
        /\ UNCHANGED <<loaded, tree, expanded, flat, total, selected, start_row, pane>>

Ended == mode # "keys" /\ UNCHANGED vars

Next == \/ Refresh \/ Resize
        \/ \E new \in BOOLEAN : Toggle(new) \/ ToggleGarbage(new)
        \/ MoveDown \/ ScrollUp \/ NudgeUp
        \/ Quit \/ Ended

Spec == Init /\ [][Next]_vars

-----------------------------------------------------------------------------
(* Properties *)

\* A node is on the screen when all nodes above it are expanded.
Visible == IF loaded THEN {n \in Reached(tree) : Ancestors(n, tree) \subseteq expanded} ELSE {}

(* Whatever key was pressed last, the flat array is the list of the        *)
(* visible nodes from top to bottom, each once, with its depth; the size   *)
(* ToFlatTree allocated for is the number of entries it wrote, so no row   *)
(* is drawn from an entry never written, in spite of the recursion's limit *)
(* (comment_tree.c:488-547).                                               *)
FlatIsTheVisibleTree ==
  /\ total = Len(flat)
  /\ {flat[k].node : k \in 1..Len(flat)} = Visible
  /\ \A j, k \in 1..Len(flat) : j < k => Above(flat[j].node, flat[k].node, tree)
  /\ \A k \in 1..Len(flat) : flat[k].depth = ComputedDepth(flat[k].node, tree)

CountsAgree ==
  /\ \A n \in Reached(tree) :
       /\ RowLabel(n, tree) = <<Cardinality(Below(n, tree)),
                                Cardinality({m \in Nodes : tree.parent[m] = n})>>
       /\ ChildCount(n, TRUE, tree) = Cardinality(Below(n, tree))
       /\ TotalNodeCount(n, tree) =
            1 + Cardinality(Siblings(tree.next[n], tree)) + Cardinality(Below(n, tree))
       /\ ComputedDepth(n, tree) < TreeMaxDepth(Root, tree)
  /\ \E n \in Reached(tree) : ComputedDepth(n, tree) + 1 = TreeMaxDepth(Root, tree)

SearchesAgree ==
  \A wanted \in SUBSET Nodes :
    LET there == wanted \cap Reached(tree)
        found == FindById(Root, wanted, tree)
    IN  /\ TreeExists(Root, wanted, tree) = there
        /\ SearchTree(Root, wanted, tree) \in IF there = {} THEN {Null} ELSE there
        /\ IF there = {} THEN found = Null
           ELSE found \in there /\ \A m \in there \ {found} : Above(found, m, tree)

ExpandingShows ==
  /\ SetExpansionState(Root, TRUE, tree, expanded) = expanded \cup Reached(tree)
  /\ \A n \in Reached(tree) :
       LET open == MarkParentsExpanded(n, tree, expanded)
       IN  \E k \in 1..VisibleSize(Root, tree, open) :
             FlatTree(Root, tree, open, FlatLimit)[k].node = n

PrintingAgrees ==
  LET printed == PrintTree(Root, tree, expanded, FALSE)
      log == LogPrintTree(Root, tree, expanded, FALSE)
  IN  /\ printed = [k \in 1..Len(flat) |->
                      [node |-> flat[k].node, depth |-> flat[k].depth, count |-> k]]
      /\ {log[k].node : k \in 1..Len(log)} = expanded \cap Reached(tree)
      /\ \A j, k \in 1..Len(log) : j < k => /\ log[j].count < log[k].count
                                            /\ Above(log[j].node, log[k].node, tree)

(* Every other walk of comment_tree.c agrees with the tree and with what   *)
(* the screen shows of it, however much of it is expanded                  *)
(* (comment_tree.c:124-241, 288-486, 549-669): the counts in front of a    *)
(* collapsed row are those of what it hides; both searches and the marking *)
(* find a node when there is one, FindById the topmost; a node whose       *)
(* parents are marked expanded is on the screen; the printed tree is the   *)
(* screen, row by row, and the log lists the expanded nodes from top to    *)
(* bottom, also those that a collapsed one hides.                          *)
WalksAgree == loaded => CountsAgree /\ SearchesAgree /\ ExpandingShows /\ PrintingAgrees

InList == selected \in 0..(total - 1)

(* The pane never lags behind the selection: it shows the selected node,   *)
(* on every path through the key handlers (crs_tree_test.c:488-588).       *)
PaneShowsSelected == mode = "keys" /\ InList => pane = flat[selected + 1].node

(* Expanding or collapsing leaves the same node selected, though all rows  *)
(* below it move (crs_tree_test.c:531-541).                                *)
ToggleKeepsArticle ==
  [][\A new \in BOOLEAN : Toggle(new) => InList' /\ flat'[selected' + 1] = flat[selected + 1]]_vars

(* The selection leaves the list only by scrolling off its end or by a     *)
(* refresh: no other key can make _flat[_selected] a bad read.             *)
LeavesTheListOnlyBy == [][InList /\ ~InList' => ScrollDown \/ Refresh]_vars

(* Moving down stops at the last article ("which ever we hit sooner",      *)
(* crs_tree_test.c:298-301, and the "At bottom" branch of moveDown).       *)
DownStopsAtTheEnd == [][MoveDown /\ InList => InList']_vars

=============================================================================
