---------------------------- MODULE CommentText ----------------------------
(***************************************************************************)
(* A comment from the server's answer to the lines on the screen: Links    *)
(* when it is downloaded, Segments when it is drawn.                       *)
(*                                                                         *)
(* What the author wrote is a sequence of words and links, at least one of *)
(* them; the server puts a space between two of them, writes ' and / as    *)
(* hexadecimal entities and a link as an anchor.  Left out: percent signs, *)
(* decimal entities, links with a quotation mark in them, and the          *)
(* attributes behind the address of a link.                                *)
(***************************************************************************)
EXTENDS Links, Segments

CONSTANTS Words,     \* the words an author may write
          Anchors,   \* the links: records with a url and a caption
          MaxPieces  \* bound: words and links of a comment

VARIABLES written,  \* history: what the author wrote
          links     \* what extract_links returned, none before

textVars == <<vars, written, links>>

NoLinks == [text |-> <<>>, slots |-> ScanStart.slots, count |-> 0, spilled |-> FALSE]

\* A piece is a word, or a link, which has none.
Pieces == {[word |-> w, url |-> <<>>, caption |-> <<>>] : w \in Words}
            \cup {[word |-> <<>>, url |-> a.url, caption |-> a.caption] : a \in Anchors}
IsLink(piece) == piece.word = <<>>

TextInit == /\ written \in BoundedSeq(Pieces, MaxPieces) \ {<<>>}
            /\ links = NoLinks
            /\ pc = "answer"
            /\ Entered(<<>>)

-----------------------------------------------------------------------------
(* The server's side *)

Entity(ch) == CASE ch = "'" -> <<"&", "#", "x", "2", "7", ";">>
                [] ch = "/" -> <<"&", "#", "x", "2", "F", ";">>
                [] OTHER -> <<ch>>
Encoded(s) == FlattenSeq([k \in 1..Len(s) |-> Entity(s[k])])

Markup(piece) ==
  IF ~IsLink(piece) THEN Encoded(piece.word)
  ELSE LinkStart \o Encoded(piece.url) \o <<"\"", " ", ">">>
         \o Encoded(piece.caption) \o LinkEnd

Answer == FlattenSeq([k \in 1..Len(written) |->
            IF k = 1 THEN Markup(written[k]) ELSE <<Space>> \o Markup(written[k])])

\* strtok: the words between the spaces of t.
SpaceCut(t) == LET Step(acc, ch) == IF ch = Space THEN Append(acc, <<>>)
                                    ELSE Append(Front(acc), Append(Last(acc), ch))
               IN  SelectSeq(FoldLeft(Step, <<<<>>>>, t), LAMBDA w : w # <<>>)

-----------------------------------------------------------------------------
(* downloadURL: the text of the node.  Then it is drawn, and the function  *)
(* that breaks it clears as many bytes of targetstring as it has.          *)
Extract == /\ pc = "answer"
           /\ links' = ExtractLinks(UrlDecode(Dedup(Answer)))
           /\ words' = SpaceCut(links'.text)
           /\ pc' = IF links'.spilled THEN "undefined"
                    ELSE IF Len(links'.text) + 1 > TargetRoom THEN "textfull"
                    ELSE "words"
           /\ UNCHANGED <<text, breaks, pos, wb, start, stop, segs, written>>

Ended == /\ pc \in {"done", "undefined", "textfull", "breaksfull", "linesfull"}
         /\ UNCHANGED textVars

TextNext == \/ Extract
            \/ Split /\ UNCHANGED <<written, links>>
            \/ Ended

TextSpec == TextInit /\ [][TextNext]_textVars

-----------------------------------------------------------------------------
(* Properties *)

WrittenLinks == SelectSeq(written, IsLink)

\* What is left of a word: no semicolon, and spaces for its plus signs.
\* A newline does not part words until they are measured.
Plain(word) == SpaceCut(FlattenSeq([k \in 1..Len(word) |->
                 CASE word[k] = ";" -> <<>>
                   [] word[k] = "+" -> <<Space>>
                   [] OTHER -> <<word[k]>>]))

\* How many characters of the decoded text follow piece k, up to three.
Behind(k) ==
  LET next == written[k + 1].word
  IN  CASE k = Len(written) -> 0
        [] k = Len(written) - 1 /\ Len(next) = 1 -> 2
        [] OTHER -> 3

\* A link is its mark, with as much of the end of its anchor as lies in the
\* last three characters of the text.
ShownWords(k) == IF IsLink(written[k])
                 THEN <<LinkMark \o SubSeq(<<"/", "a", ">">>, Behind(k) + 1, 3)>>
                 ELSE Plain(written[k].word)

Fitting == SelectSeq(FlattenSeq([k \in 1..Len(written) |-> ShownWords(k)]),
                     LAMBDA w : Len(w) <= Width)

\* The words and the breaks of the words ws, with a newline now a space; a
\* break at the end of the text is taken for a word.
MeaningOf(ws) ==
  LET joined == FlattenSeq([k \in 1..Len(ws) |-> <<Space>> \o ws[k]])
      t == [k \in 1..Len(joined) |-> IF joined[k] = NewLine THEN Space ELSE joined[k]]
  IN  Tokens(t, {p \in 0..(Len(t) - 4) : StandsAt(Break, t, p)})

(* The lines on the screen say what the author wrote: the same words, in   *)
(* the same order, whole, with its paragraphs and a mark for every link,   *)
(* through three rewritings and the cutting into lines                     *)
(* (string_utils.c:23-172, 258-428, 512-535).  Lost are only semicolons,   *)
(* plus signs, and what stands between two spaces and is wider than the    *)
(* line: several words, when there are newlines between them.  And the     *)
(* text overflows its 4000 bytes only if it is as long as they are, less   *)
(* the byte that ends it: joining the words adds one space at most.        *)
LinesSayTheText ==
  /\ pc = "done" => Collapsed(OfLines(segs)) = Collapsed(MeaningOf(Fitting))
  /\ pc = "textfull" => Len(links.text) + 1 >= TargetRoom

(* The strings of a comment are the addresses and the captions of its      *)
(* links, in turn, and their number is the count; they run out when the    *)
(* links need more of them than there are and not before                   *)
(* (string_utils.c:34-117).                                                *)
LinksAreKept ==
  pc # "answer" =>
    /\ links.spilled <=> 2 * Len(WrittenLinks) > Slots
    /\ ~links.spilled => links.count = 2 * Len(WrittenLinks)
    /\ \A k \in 1..Len(WrittenLinks) :
         2 * k <= Slots => /\ links.slots[2 * k - 2] = WrittenLinks[k].url
                           /\ links.slots[2 * k - 1] = WrittenLinks[k].caption
=============================================================================
