------------------------------- MODULE Segments -------------------------------
(***************************************************************************)
(* The line breaker of the comment viewers, splitIntoSegments of           *)
(* string_utils.c: the text of a comment, already free of entities and of  *)
(* links, becomes the lines drawn in a window of Width columns.  Where the *)
(* text comes from is CommentText's part.                                  *)
(*                                                                         *)
(* strtok cuts the text at its spaces and the words that fit are joined    *)
(* again with one space in FRONT of each; newlines become spaces; "<p>"    *)
(* starts a paragraph.  One pass over the result then cuts it, remembering *)
(* the last space (wb), where the current line starts and where the last   *)
(* one stopped.  Positions count from 0 as in the code.                    *)
(*                                                                         *)
(* The arrays the function fills are allocated once, of a fixed size, and  *)
(* written unchecked: to write behind the end of one is undefined, and     *)
(* ends the model in a state of its own.                                   *)
(*                                                                         *)
(* Left out: the search and replacement of entities (lines 308-319): the   *)
(* callers decode the text before they split it, so it is never entered.   *)
(***************************************************************************)
EXTENDS Integers, Sequences, SequencesExt, FiniteSetsExt

CONSTANTS Width,      \* columns of a line
          TargetRoom, \* the bytes of targetstring, 4000
          BreakRoom,  \* the numbers pointers has room for, 200
          LineRoom    \* the pointers segments has room for: 50 structures of
                      \* the size of two pointers each, so 100

ASSUME SegmentsAssumption == /\ Width \in Nat \ {0}
                             /\ TargetRoom \in Nat /\ BreakRoom \in Nat
                             /\ LineRoom \in Nat \ {0}

Space == " "
NewLine == "\n"
Break == <<"<", "p", ">">>

VARIABLES words,   \* the tokens strtok has not returned yet
          text,    \* targetstring, then endString
          breaks,  \* pointers: the positions of the paragraph breaks
          pos,     \* _p
          wb,      \* _last_wb
          start,   \* _last_start
          stop,    \* _last_stop
          segs,    \* the lines so far
          pc       \* "words", "scan", "done"; or, behind the end of an array,
                   \* "textfull", "breaksfull", "linesfull"

vars == <<words, text, breaks, pos, wb, start, stop, segs, pc>>

-----------------------------------------------------------------------------
\* The local variables when the function is entered with the words of ws.
Entered(ws) == /\ words = ws
               /\ text = <<>> /\ breaks = {} /\ segs = <<>>
               /\ pos = 0 /\ wb = -1 /\ start = 0 /\ stop = 0

\* A word that fits is appended behind a space; a wider one is dropped.
\* The text is followed by the byte that ends it.
TakeWord == /\ pc = "words" /\ words # <<>>
            /\ words' = Tail(words)
            /\ text' = IF Len(Head(words)) > Width THEN text
                       ELSE text \o <<Space>> \o Head(words)
            /\ pc' = IF Len(text') + 1 > TargetRoom THEN "textfull" ELSE "words"
            /\ UNCHANGED <<breaks, pos, wb, start, stop, segs>>

\* No word fits: the blank answer, a header that counts no line.
BlankSeg == /\ pc = "words" /\ words = <<>> /\ text = <<>>
            /\ pc' = "done"
            /\ UNCHANGED <<words, text, breaks, pos, wb, start, stop, segs>>

\* The newlines become spaces and the breaks are located.  The loop ends
\* three characters early, so a break at the very end is not seen.
FindBreaks ==
  /\ pc = "words" /\ words = <<>> /\ text # <<>>
  /\ text' = [i \in 1..Len(text) |-> IF text[i] = NewLine THEN Space ELSE text[i]]
  /\ breaks' = {p \in 0..(Len(text) - 4) : SubSeq(text', p + 1, p + 3) = Break}
  /\ pc' = IF Cardinality(breaks') > BreakRoom THEN "breaksfull" ELSE "scan"
  /\ UNCHANGED <<words, pos, wb, start, stop, segs>>

\* substring: a count below zero is taken for a large one, and the string
\* ends what it returns.
Substring(from, count) ==
  SubSeq(text, from + 1, IF count < 0 THEN Len(text) ELSE Min({from + count, Len(text)}))

WordBreak == IF text[pos + 1] = Space THEN pos ELSE wb
AtBreak == pos \in breaks
IsFull == pos - stop > Width

ScanOn == /\ pc = "scan" /\ pos < Len(text)
          /\ ~AtBreak /\ ~IsFull
          /\ wb' = WordBreak /\ pos' = pos + 1
          /\ UNCHANGED <<words, text, breaks, start, stop, segs, pc>>

\* After a line was stored: back to the loop, unless there was no room.
Stored(then) == pc' = IF Len(segs') > LineRoom THEN "linesfull" ELSE then

\* The line ends before the last space; the last stop becomes STOPPED and
\* the next line starts at NEXT.
EndLineAt(stopped, next) ==
  /\ pc = "scan" /\ pos < Len(text)
  /\ IsFull /\ ~AtBreak
  /\ wb' = WordBreak /\ stop' = stopped
  /\ segs' = Append(segs, Substring(start, WordBreak - start))
  /\ start' = next
  /\ pos' = pos + 1
  /\ Stored("scan")
  /\ UNCHANGED <<words, text, breaks>>

(* Mutant: the last stop stays where it was. *)
EndLineKeepsStop == EndLineAt(stop, WordBreak + 1)

(* Mutant: the next line starts behind three characters, as after a break. *)
EndLineSkipsThree == EndLineAt(WordBreak, WordBreak + 3)

(* Mutant: the next line starts at the space itself. *)
EndLineAtTheSpace == EndLineAt(WordBreak, WordBreak)

\* The line is full: it ends at the last space.
EndLine == EndLineAt(WordBreak, WordBreak + 1)

\* A break ends the line where it stands and adds an empty one.
EndParagraphAt(next) ==
  /\ pc = "scan" /\ pos < Len(text)
  /\ AtBreak
  /\ wb' = WordBreak /\ stop' = pos
  /\ segs' = segs \o <<Substring(start, pos - start), <<>>>>
  /\ start' = next
  /\ pos' = pos + 1
  /\ Stored("scan")
  /\ UNCHANGED <<words, text, breaks>>

(* Mutant: only the first character of the break is skipped. *)
EndParagraphSkipsOne == EndParagraphAt(pos + 1)

\* The next line starts behind the three characters of the break.
EndParagraph == EndParagraphAt(pos + 3)

\* What is left is the last line.
LastLine == /\ pc = "scan" /\ pos = Len(text)
            /\ segs' = Append(segs, Substring(start, Len(text) - start))
            /\ Stored("done")
            /\ UNCHANGED <<words, text, breaks, pos, wb, start, stop>>

Split == \/ TakeWord \/ BlankSeg \/ FindBreaks
         \/ ScanOn \/ EndLine \/ EndParagraph \/ LastLine

-----------------------------------------------------------------------------
(* The meaning of a text and of the lines: a sequence of words and breaks, *)
(* several breaks in a row counting as one.                                *)

\* The sequence of tokens cs stands for, when BREAK stands at the positions
\* of at.
Tokens(cs, at) ==
  LET StepOn(acc, i) ==
        LET gap == acc.skip > 0 \/ cs[i] = Space \/ i - 1 \in at
        IN  [skip |-> IF i - 1 \in at THEN 2 ELSE Max({acc.skip - 1, 0}),
             open |-> ~gap,
             out  |-> IF i - 1 \in at THEN Append(acc.out, Break)
                      ELSE IF gap THEN acc.out
                      ELSE IF acc.open THEN [acc.out EXCEPT ![Len(acc.out)] = Append(@, cs[i])]
                      ELSE Append(acc.out, <<cs[i]>>)]
  IN  FoldLeft(StepOn, [skip |-> 0, open |-> FALSE, out |-> <<>>],
               [i \in 1..Len(cs) |-> i]).out

OfLines(lines) == FlattenSeq([k \in 1..Len(lines) |->
                    IF lines[k] = <<>> THEN <<Break>> ELSE Tokens(lines[k], {})])

\* One break for several in a row.
Collapsed(ts) == LET Keep(acc, t) == IF t = Break /\ acc # <<>> /\ Last(acc) = Break
                                     THEN acc ELSE Append(acc, t)
                 IN  FoldLeft(Keep, <<>>, ts)

(* A line starts inside the text or right behind its end, so no pointer    *)
(* passed to substring leaves the buffer (string_utils.c:383-427).         *)
TypeOK == /\ \A k \in 1..Len(words) : words[k] # <<>>
          /\ pos \in 0..Len(text) /\ wb \in -1..Len(text)
          /\ start \in 0..Len(text) /\ stop \in 0..Len(text)
          /\ breaks \subseteq 0..Len(text)

(* A line fits its window; the first may be one column wider, for the      *)
(* space in front of the first word (string_utils.c:374-418).              *)
LinesFit == \A k \in 1..Len(segs) :
              Len(segs[k]) <= IF k = 1 THEN Width + 1 ELSE Width

(* The most lines a text can become: two for each break, two for each      *)
(* Width + 1 characters, and the last one.                                 *)
MostLines == 1 + 2 * Cardinality(breaks) + 2 * (Len(text) \div (Width + 1))

(* The array of lines ("hard coded to 50 strings", string_utils.c:335) is  *)
(* written behind its end only for a text that is too long for it, by its  *)
(* length and its breaks; and a text with too many breaks never comes      *)
(* through (string_utils.c:336, 391, 399, 417).                            *)
RoomForLines == /\ pc = "linesfull" => MostLines > LineRoom
                /\ pc = "done" => 1 + 2 * Cardinality(breaks) <= LineRoom

-----------------------------------------------------------------------------
(* The inductive invariant of the properties *)

IsSpace(p) == text[p + 1] = Space

(* The text starts with a space, and no word in it is wider than a line:   *)
(* there is a space among any Width + 1 characters in a row.               *)
TextInv ==
  /\ text # <<>> => IsSpace(0)
  /\ \A from \in 0..(Len(text) - Width - 1) : \E p \in from..(from + Width) : IsSpace(p)

(* Before the pass nothing is located; then each pointer is that of a      *)
(* break, with a character behind it.                                      *)
BreaksInv ==
  IF pc \in {"scan", "done", "breaksfull", "linesfull"}
  THEN \A p \in breaks : p + 3 < Len(text) /\ SubSeq(text, p + 1, p + 3) = Break
  ELSE breaks = {} /\ segs = <<>> /\ pos = 0 /\ wb = -1 /\ start = 0 /\ stop = 0

(* The pass: wb is the last space, and the current line starts with the    *)
(* text, behind the space or behind the break where the last one stopped,  *)
(* no more than a line back.                                               *)
ScanInv ==
  pc = "scan" =>
    /\ text # <<>>
    /\ wb < pos /\ (wb = -1 => pos = 0) /\ (wb # -1 => IsSpace(wb))
    /\ \A p \in (wb + 1)..(pos - 1) : ~IsSpace(p)
    /\ pos - stop <= Width + 1
    /\ \/ segs = <<>> /\ stop = 0 /\ start = 0
       \/ segs # <<>> /\ stop < pos /\ start = stop + 1
       \/ segs # <<>> /\ stop < pos /\ start = stop + 3 /\ stop \in breaks

(* Of the lines so far, FULL ended because they were full, two for every   *)
(* Width + 1 characters: after one that ended early, in front of a long    *)
(* word, the next ends behind that word.  Each break behind pos has two.   *)
Passed == {b \in breaks : b < pos}
FullLines == Len(segs) - 2 * Cardinality(Passed)
Counted ==
  \E c \in 0..Len(text) :
    \/ FullLines <= 2 * c /\ c * (Width + 1) <= stop
    \/ /\ FullLines <= 2 * c - 1 /\ c * (Width + 1) <= pos
       /\ \A p \in (stop + 1)..(c * (Width + 1)) : p < Len(text) => ~IsSpace(p)
CountInv == pc = "scan" => 0 <= FullLines /\ Counted

Inv == TypeOK /\ TextInv /\ BreaksInv /\ ScanInv /\ LinesFit /\ CountInv /\ RoomForLines
===============================================================================
