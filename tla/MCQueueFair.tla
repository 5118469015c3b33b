---------------------------- MODULE MCQueueFair ----------------------------
(* A small instance of Queue under fair scheduling, for the liveness run. *)
EXTENDS Queue

ThreeIds == {1, 2, 3}
=============================================================================
