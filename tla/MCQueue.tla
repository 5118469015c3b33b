------------------------------ MODULE MCQueue ------------------------------
(* Small instances of QueueHistory for TLC. *)
EXTENDS QueueHistory, TLC

TwoIds   == {1, 2}
ThreeIds == {1, 2, 3}

(* The workers are interchangeable, and so are the nodes of the heap; ids  *)
(* are numbers and are not.  Used by the safety runs only.                 *)
Symmetry == Permutations(Threads) \cup Permutations(Nodes)
=============================================================================
