----------------------------- MODULE MCSegments -----------------------------
(* Words of every length up to the width and one beyond it, a break on its *)
(* own and in a word, words with a newline, one of them wider than the     *)
(* line though its parts are not, words the decoding touches, and two      *)
(* links.                                                                  *)
EXTENDS CommentText

MCWords == { <<"a">>, <<"b", "'", "+", "c", ";">>,
             <<"h", "i", "j", "k", "l">>, <<"m", "m", "m", "m", "m", "m">>,
             <<"n", "\n", "o">>, <<"d", "d", "d", "d", "\n", "e", "e", "e", "e">>, Break, <<"q">> \o Break \o <<"r">>,
             Break \o <<"s", "t">> }

MCAnchors == { [url |-> <<"u", "/">>, caption |-> <<"v">>],
               [url |-> <<"w">>, caption |-> <<"x", " ", "y">>] }
==============================================================================
