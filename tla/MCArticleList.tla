--------------------------- MODULE MCArticleList ---------------------------
(* Small instances of ArticleList for TLC. *)
EXTENDS ArticleList, SequencesExt

Sent(h, s) == [hash |-> h, saved |-> s]

Order == SetToSeq(Hashes)

(* Answers with more and more of the articles.                             *)
LongReplies == {[k \in 1..len |-> Sent(Order[k], FALSE)] : len \in 1..Len(Order)}

(* Answers with articles without a hash: one with two of them at the end,  *)
(* so that two matches and two others come in any order, the last article  *)
(* excepted; one with such an article first, an article twice and a saved  *)
(* one, which the other repeats.                                           *)
MixedReplies ==
  { <<Sent(Order[1], FALSE), Sent(Order[2], FALSE), Sent(NoHash, FALSE), Sent(NoHash, FALSE)>>,
    <<Sent(NoHash, FALSE), Sent(Order[1], FALSE), Sent(Order[1], FALSE), Sent(Order[2], TRUE)>> }
=============================================================================
