---------------------------- MODULE MCDownloader ----------------------------
(* Small instances of Downloader for TLC: a story and up to four comments. *)
EXTENDS Downloader, SequencesExt

FiveItems == 1..5

(* Every tree over the items in which a comment is younger than what it    *)
(* answers, with the kids listed in ascending or in descending order.      *)
Kids(parent, p) == {i \in Items \ {Root} : parent[i] = p}

AllStories ==
  LET parents == {f \in [Items \ {Root} -> Items] : \A i \in Items \ {Root} : f[i] < i}
  IN {[p \in Items |-> SetToSortSeq(Kids(f, p), <)] : f \in parents}
     \cup {[p \in Items |-> SetToSortSeq(Kids(f, p), >)] : f \in parents}
=============================================================================
