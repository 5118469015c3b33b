------------------------------- MODULE Links -------------------------------
(***************************************************************************)
(* What downloadURL does to the text of an answer before it is stored in   *)
(* the node: extract_links(url_decode(dedup(tx))) of string_utils.c.       *)
(*                                                                         *)
(* dedup turns the server's "&#x2F;" into "%2F;", url_decode that into "/",*)
(* and extract_links moves the addresses and the texts of the links into   *)
(* an array of strings, leaving "@L" for each.  Positions count from 0 as  *)
(* in the code.  dedup and extract_links look for their marks in all but   *)
(* the last three characters, which they copy as they are.                 *)
(***************************************************************************)
EXTENDS Integers, Sequences, SequencesExt, FiniteSetsExt

CONSTANT Slots   \* the strings extract_links has room for, 10

ASSUME LinksAssumption == Slots \in Nat \ {0}

Positions(n) == [i \in 1..n |-> i - 1]

\* s stands in t at position i.
StandsAt(s, t, i) == i + Len(s) <= Len(t) /\ SubSeq(t, i + 1, i + Len(s)) = s

-----------------------------------------------------------------------------
(* dedup *)

\* Where an entity starts.  The third character of one is overwritten
\* before the loop comes to it.
Entities(t) == LET Look(found, i) == IF StandsAt(<<"&", "#">>, t, i) /\ i - 2 \notin found
                                     THEN found \cup {i} ELSE found
               IN  FoldLeft(Look, {}, Positions(Len(t) - 3))

Dedup(t) ==
  LET starts == Entities(t)
      overwritten == [k \in 1..Len(t) |-> IF k - 3 \in starts THEN "%" ELSE t[k]]
      Skipped(i) == i < Len(t) - 3 /\ {i, i - 1} \cap starts # {}
  IN  FoldLeft(LAMBDA out, i : IF Skipped(i) THEN out ELSE Append(out, overwritten[i + 1]),
               <<>>, Positions(Len(t)))

-----------------------------------------------------------------------------
(* url_decode *)

\* The characters of two hexadecimal digits that the texts need.
FromHex(high, low) == CASE <<high, low>> = <<"2", "7">> -> "'"
                        [] <<high, low>> = <<"2", "F">> -> "/"
                        [] OTHER -> "other"

\* digits: characters behind a "%" still to be passed over; unit: the
\* character before was decoded, so that a semicolon is dropped.
UrlDecode(t) ==
  LET Step(acc, i) ==
        LET ch == t[i + 1]
        IN  IF acc.digits > 0
              THEN [acc EXCEPT !.digits = @ - 1, !.unit = acc.digits = 1]
            ELSE IF ch = ";" /\ acc.unit
              THEN [acc EXCEPT !.unit = FALSE]
            ELSE IF ch = "%" /\ i + 2 < Len(t)
              THEN [out |-> Append(acc.out, FromHex(t[i + 2], t[i + 3])), digits |-> 2, unit |-> FALSE]
            ELSE [acc EXCEPT !.unit = TRUE,
                             !.out = CASE ch = "%" -> @
                                       [] ch = "+" -> Append(@, " ")
                                       [] OTHER -> Append(@, ch)]
  IN  FoldLeft(Step, [out |-> <<>>, digits |-> 0, unit |-> FALSE], Positions(Len(t))).out

-----------------------------------------------------------------------------
(* extract_links *)

LinkStart == <<"<", "a", " ", "h", "r", "e", "f", "=", "\"">>
LinkEnd == <<"<", "/", "a", ">">>
LinkMark == <<"@", "L">>

\* The variables of the scan: in is state = IN_HYL, fwd is _fwd_project,
\* num is _hy_num, out is msgout, slots the strings of hyperlinks; spilled
\* says that a character was stored behind the last of them.
ScanStart == [in |-> FALSE, fwd |-> 0, num |-> 0, out |-> <<>>,
              slots |-> [k \in 0..(Slots - 1) |-> <<>>], spilled |-> FALSE]

\* One turn of the loop: the tests stand in this order, and each sees what
\* the one before has set.
Enter(acc, t, i) == IF StandsAt(LinkStart, t, i)
                    THEN [acc EXCEPT !.in = TRUE, !.fwd = i + 9] ELSE acc
Quote(acc, t, i) == IF acc.in /\ i >= acc.fwd /\ t[i + 1] = "\""
                    THEN [acc EXCEPT !.fwd = -1] ELSE acc
Caption(acc, t, i) == IF acc.in /\ acc.fwd = -1 /\ t[i + 1] = ">"
                      THEN [acc EXCEPT !.num = @ + 1, !.fwd = i + 1] ELSE acc
(* Mutant: the caption does not get a string of its own.                   *)
LeaveKeepsTheSlot(acc, t, i) == IF StandsAt(LinkEnd, t, i)
                                THEN [acc EXCEPT !.in = FALSE, !.fwd = i + 4, !.out = @ \o LinkMark] ELSE acc
Leave(acc, t, i) == IF StandsAt(LinkEnd, t, i)
                    THEN [acc EXCEPT !.in = FALSE, !.num = @ + 1, !.fwd = i + 4, !.out = @ \o LinkMark] ELSE acc
Store(acc, t, i) ==
  IF i < acc.fwd THEN acc
  ELSE IF ~acc.in THEN [acc EXCEPT !.out = Append(@, t[i + 1])]
  ELSE IF acc.fwd = -1 THEN acc
  ELSE IF acc.num < Slots THEN [acc EXCEPT !.slots[acc.num] = Append(@, t[i + 1])]
  ELSE [acc EXCEPT !.spilled = TRUE]

\* What a turn does after a character was spilled is undefined.
ScanTurn(acc, t, i) == IF acc.spilled THEN acc
                       ELSE Store(Leave(Caption(Quote(Enter(acc, t, i), t, i), t, i), t, i), t, i)

\* The result's text, the strings, the number of them used (linkcount) and
\* whether they were too few.
ExtractLinks(t) ==
  LET end == FoldLeft(LAMBDA acc, i : ScanTurn(acc, t, i), ScanStart, Positions(Len(t) - 3))
      tail == SubSeq(t, Max({Len(t) - 2, 1}), Len(t))
      all == end.out \o tail
  IN  [text |-> SubSeq(all, 1, Min({Len(t), Len(all)})),
       slots |-> end.slots, count |-> end.num, spilled |-> end.spilled]
=============================================================================
