---------------------------- MODULE MCTreeViewer ----------------------------
(* Small instances of TreeViewer for TLC. *)
EXTENDS TreeViewer

FourNodes == 1..4

(* Every tree of one to four nodes in which a child has a larger number    *)
(* than its parent, appended from the largest down as the download leaves  *)
(* them; a node with no parent here was not downloaded.                    *)
AllTrees ==
  LET parents == {f \in [2..4 -> 0..3] :
                    \A n \in 2..4 : f[n] < n /\ (f[n] < 2 \/ f[f[n]] # 0)}
      Built(f) ==
        LET built[n \in 2..5] ==
              IF n = 5 THEN Unlinked
              ELSE IF f[n] = 0 THEN built[n + 1]
              ELSE AppendChild(f[n], n, built[n + 1])
        IN  built[2]
  IN  {Built(f) : f \in parents}
=============================================================================
