--------------------------- MODULE GrabberProofs ---------------------------
(***************************************************************************)
(* For every screen of at least 12 lines, every number of articles and     *)
(* every room for the search text: the window of Grabber is never scrolled *)
(* off the list, Enter searches for the characters typed, and the link is  *)
(* that of the article below the selected row, or of none at the last      *)
(* redraw.                                                                 *)
(***************************************************************************)
EXTENDS Grabber, TLAPS

(* What a draw is about.                                                   *)
WindowOK == /\ selected \in Nat /\ start \in -1..MaxSize /\ link \in -2..MaxSize
            /\ mode = "keys"
            /\ ScrollInv /\ RowInv /\ LinkInv

(* What typing is about.                                                   *)
TextOK == /\ searchText \in [Places -> Bytes]
          /\ typed \in Seq(Chars) /\ stray \in BOOLEAN
          /\ TextInv

(* The article below the selected row has a number.                         *)
LEMMA BelowIsNat ==
  ASSUME NEW top \in Int, top >= -1, NEW row \in Nat, row >= 4
  PROVE  top + row - BORDER \in Nat
  BY DEF BORDER

(* A draw with a row that may be selected, and a viewport that is not too  *)
(* far down a list of n articles, leaves both so.                          *)
LEMMA DrawKeepsInv ==
  ASSUME NEW row \in Int, NEW top \in -1..MaxSize, NEW n \in 0..MaxSize,
         row <= Lines - BORDER - 1,
         top > 0 => top + Lines <= n + 2 * BORDER + 5,
         row > BORDER, size' = n,
         Draw(row, top, n)
  PROVE  WindowOK'
<1>1. /\ start' = top
      /\ selected' = IF row <= n + BORDER THEN row ELSE FirstRow
      /\ mode' = IF top > 0 /\ top >= NodesIn(n) THEN "crashed" ELSE "keys"
  BY Zenon DEF Draw
<1>2. link' = IF top + selected' - BORDER < n THEN top + selected' - BORDER ELSE Wild
  <2>1. ~(row <= BORDER)
    BY DEF BORDER
  <2>2. QED
    BY <2>1, Zenon DEF Draw
<1>3. /\ selected' \in Nat /\ start' \in -1..MaxSize /\ mode' = "keys"
      /\ ScrollInv' /\ RowInv'
  BY <1>1, GrabberAssumption DEF ScrollInv, RowInv, NodesIn, FirstRow, BORDER
<1>4. top + selected' - BORDER \in Nat
  <2>1. selected' \in Nat /\ selected' >= 4
    BY <1>3 DEF RowInv, FirstRow, BORDER
  <2>2. top \in Int /\ top >= -1
    BY GrabberAssumption
  <2>3. QED
    BY <2>1, <2>2, BelowIsNat
<1>5. link' \in -2..MaxSize
  BY <1>2, <1>4, GrabberAssumption DEF Wild
<1>6. Target' = top + selected' - BORDER
  BY <1>1 DEF Target, BORDER
<1>7. LinkInv'
  <2>1. Target' < n \/ Target' >= n
    BY <1>4, <1>6
  <2>2. size' = n /\ link' = IF Target' < n THEN Target' ELSE Wild
    BY <1>2, <1>6
  <2>3. QED
    BY <2>1, <2>2 DEF LinkInv
<1>8. QED
  BY <1>3, <1>5, <1>7 DEF WindowOK

(* Scrolling down, with the bottom where the equality test looks for it.   *)
LEMMA ScrollDownKeepsInv ==
  ASSUME Inv, ScrollDown, UNCHANGED size
  PROVE  WindowOK'
<1>1. /\ size \in 0..MaxSize /\ selected \in Nat /\ start \in -1..MaxSize
      /\ ScrollInv /\ RowInv
  BY DEF Inv, TypeOK
<1>2. CASE AtBottom /\ Draw(selected, start, size)
  BY <1>1, <1>2, DrawKeepsInv DEF ScrollInv, RowInv, FirstRow, BORDER
<1>3. CASE ~AtBottom /\ AtLastRow /\ Draw(selected, start + 1, size)
  <2>1. start + 1 > 0 => start + 1 + Lines <= size + 2 * BORDER + 5
    BY <1>1, <1>3, GrabberAssumption
       DEF ScrollInv, RowInv, AtBottom, AtLastRow, NodesIn, BORDER
  <2>2. start + 1 \in -1..MaxSize
    BY <1>1, <2>1, GrabberAssumption DEF BORDER
  <2>3. QED
    BY <1>1, <1>3, <2>1, <2>2, DrawKeepsInv DEF RowInv, FirstRow, BORDER
<1>4. CASE ~AtBottom /\ ~AtLastRow /\ Draw(selected + 1, start, size)
  <2>1. selected + 1 <= Lines - BORDER - 1
    BY <1>1, <1>4, GrabberAssumption DEF RowInv, AtLastRow, BORDER
  <2>2. QED
    BY <1>1, <1>4, <2>1, DrawKeepsInv DEF ScrollInv, RowInv, FirstRow, BORDER
<1>5. QED
  BY <1>2, <1>3, <1>4, ScrollDown DEF ScrollDown

(* Scrolling up, which stops with the viewport one above the head.         *)
LEMMA ScrollUpKeepsInv ==
  ASSUME Inv, ScrollUp, UNCHANGED size
  PROVE  WindowOK'
<1>1. /\ size \in 0..MaxSize /\ selected \in Nat /\ start \in -1..MaxSize
      /\ ScrollInv /\ RowInv
  BY DEF Inv, TypeOK
<1>2. CASE AtTop /\ Draw(selected, start, size)
  BY <1>1, <1>2, DrawKeepsInv DEF ScrollInv, RowInv, FirstRow, BORDER
<1>3. CASE ~AtTop /\ AtFirstRow /\ Draw(selected, start - 1, size)
  <2>1. start - 1 \in -1..MaxSize
    BY <1>1, <1>3, GrabberAssumption DEF RowInv, AtTop, AtFirstRow, FirstRow, BORDER
  <2>2. start - 1 > 0 => start - 1 + Lines <= size + 2 * BORDER + 5
    BY <1>1, GrabberAssumption DEF ScrollInv, BORDER
  <2>3. QED
    BY <1>1, <1>3, <2>1, <2>2, DrawKeepsInv DEF RowInv, FirstRow, BORDER
<1>4. CASE ~AtTop /\ ~AtFirstRow /\ Draw(selected - 1, start, size)
  <2>1. /\ selected - 1 \in Int /\ selected - 1 <= Lines - BORDER - 1
        /\ selected - 1 > BORDER
    BY <1>1, <1>4, GrabberAssumption DEF RowInv, AtFirstRow, FirstRow, BORDER
  <2>2. QED
    BY <1>1, <1>4, <2>1, DrawKeepsInv DEF ScrollInv
<1>5. QED
  BY <1>2, <1>3, <1>4, ScrollUp DEF ScrollUp

(* strlen of a buffer that holds a string.                                  *)
LEMMA StrlenIs ==
  ASSUME NEW b, NEW s \in Seq(Chars \cup {Other}), Holds(b, s)
  PROVE  Strlen(b) = Len(s) /\ Len(s) \in Places /\ b[Len(s)] = Nul
<1>1. /\ Len(s) \in Places /\ b[Len(s)] = Nul
      /\ \A k \in 0..(Len(s) - 1) : b[k] # Nul
  <2>1. Len(s) \in Nat /\ Len(s) < TextRoom
    BY DEF Holds
  <2>2. ASSUME NEW k \in 0..(Len(s) - 1)
        PROVE  b[k] # Nul
    <3>1. k \in Places /\ k < Len(s) /\ k + 1 \in 1..Len(s)
      BY <2>1, GrabberAssumption DEF Places
    <3>2. b[k] = s[k + 1]
      BY <3>1 DEF Holds
    <3>3. s[k + 1] \in Chars \cup {Other}
      BY <3>1
    <3>4. QED
      BY <3>2, <3>3, GrabberAssumption DEF Nul, Other
  <2>3. Len(s) \in Places
    BY <2>1, GrabberAssumption DEF Places
  <2>4. b[Len(s)] = Nul
    BY <2>1, <2>3 DEF Holds
  <2>5. QED
    BY <2>2, <2>3, <2>4
<1>2. ASSUME NEW n \in Places, b[n] = Nul, \A k \in 0..(n - 1) : b[k] # Nul
      PROVE  n = Len(s)
  <2>1. n \in Nat /\ Len(s) \in Nat
    BY GrabberAssumption DEF Places
  <2>2. n < Len(s) => n \in 0..(Len(s) - 1)
    BY <2>1
  <2>3. Len(s) < n => Len(s) \in 0..(n - 1)
    BY <2>1
  <2>4. ~(n < Len(s)) /\ ~(Len(s) < n)
    BY <1>1, <1>2, <2>2, <2>3
  <2>5. QED
    BY <2>1, <2>4
<1>3. QED
  BY <1>1, <1>2, Zenon DEF Strlen

(* A byte appended to a string that has room for it.                       *)
LEMMA AppendedHolds ==
  ASSUME NEW b \in [Places -> Bytes], NEW s \in Seq(Chars \cup {Other}), Holds(b, s),
         Strlen(b) + 1 < TextRoom, NEW ch \in Chars \cup {Other}
  PROVE  /\ Append(s, ch) \in Seq(Chars \cup {Other})
         /\ Holds(Appended(b, ch), Append(s, ch))
         /\ Appended(b, ch) \in [Places -> Bytes]
<1> DEFINE t == Append(s, ch)
           c == [b EXCEPT ![Strlen(b)] = ch]
<1>1. /\ Strlen(b) = Len(s) /\ Len(s) \in Places /\ Len(s) \in Nat
      /\ Len(s) + 1 < TextRoom
  BY StrlenIs
<1>2. /\ t \in Seq(Chars \cup {Other}) /\ Len(t) = Len(s) + 1
      /\ \A k \in 1..Len(s) : t[k] = s[k]
      /\ t[Len(s) + 1] = ch
  OBVIOUS
<1>3. c \in [Places -> Bytes] /\ c = [b EXCEPT ![Len(s)] = ch]
  BY <1>1 DEF Bytes
<1> HIDE DEF t, c
<1>4. Holds(c, t)
  <2>1. ASSUME NEW k \in Places
        PROVE  c[k] = IF k < Len(t) THEN t[k + 1] ELSE Nul
    <3>1. k \in Nat /\ b[k] = IF k < Len(s) THEN s[k + 1] ELSE Nul
      BY GrabberAssumption DEF Holds, Places
    <3>2. CASE k = Len(s)
      BY <1>1, <1>2, <1>3, <3>1, <3>2
    <3>3. CASE k # Len(s)
      <4>1. c[k] = b[k] /\ (k < Len(t) <=> k < Len(s))
        BY <1>1, <1>2, <1>3, <3>1, <3>3
      <4>2. k < Len(s) => t[k + 1] = s[k + 1]
        BY <1>1, <1>2, <3>1
      <4>3. QED
        BY <3>1, <4>1, <4>2
    <3>4. QED
      BY <3>2, <3>3
  <2>2. QED
    BY <1>1, <1>2, <2>1 DEF Holds
<1>5. Strlen(c) \in Places /\ c[Strlen(c)] = Nul
  BY <1>2, <1>4, StrlenIs
<1>6. Appended(b, ch) = c
  <2>1. Appended(b, ch) = [c EXCEPT ![Strlen(c)] = Nul]
    BY DEF Appended, c
  <2>2. QED
    BY <1>3, <1>5, <2>1
<1>7. QED
  BY <1>2, <1>3, <1>4, <1>6 DEF t

(* A string without its last byte.                                          *)
LEMMA Shorter ==
  ASSUME NEW S, NEW s \in Seq(S)
  PROVE  /\ DropLast(s) \in Seq(S)
         /\ Len(s) > 0 => /\ Len(DropLast(s)) = Len(s) - 1
                          /\ \A k \in 1..(Len(s) - 1) : DropLast(s)[k] = s[k]
<1>1. CASE s = <<>>
  <2>1. Len(s) = 0 /\ DropLast(s) = <<>>
    BY <1>1 DEF DropLast
  <2>2. QED
    BY <2>1
<1>2. CASE s # <<>>
  <2>1. Len(s) \in Nat \ {0}
    BY <1>2
  <2>2. /\ SubSeq(s, 1, Len(s) - 1) \in Seq(S)
        /\ Len(SubSeq(s, 1, Len(s) - 1)) = Len(s) - 1
        /\ \A k \in 1..(Len(s) - 1) : SubSeq(s, 1, Len(s) - 1)[k] = s[k]
    <3>0. \A n \in Nat \ {0} : n - 1 \in Nat /\ n - 1 < n
      OBVIOUS
    <3>1. PICK m \in Nat : m = Len(s) - 1 /\ m < Len(s)
      BY <2>1, <3>0, Zenon
    <3>2. SubSeq(s, 1, m) \in Seq(S)
      BY <3>1
    <3>3. Len(SubSeq(s, 1, m)) = m
      BY <3>1
    <3>4. \A k \in 1..m : SubSeq(s, 1, m)[k] = s[k]
      BY <3>1
    <3>5. QED
      BY <3>1, <3>2, <3>3, <3>4
  <2>3. QED
    BY <2>2 DEF DropLast
<1>3. QED
  BY <1>1, <1>2

(* Clearing, and putting a null byte, keep a buffer a buffer.               *)
LEMMA BuffersStay ==
  ASSUME NEW b \in [Places -> Bytes]
  PROVE  /\ \A ch \in Bytes : Appended(b, ch) \in [Places -> Bytes]
         /\ LastCleared(b) \in [Places -> Bytes]
         /\ [b EXCEPT ![Strlen(b) - 1] = Nul] \in [Places -> Bytes]
<1>1. Nul \in Bytes
  BY DEF Bytes
<1>2. ASSUME NEW c \in [Places -> Bytes], NEW k, NEW ch \in Bytes
      PROVE  [c EXCEPT ![k] = ch] \in [Places -> Bytes]
  OBVIOUS
<1>3. ASSUME NEW ch \in Bytes
      PROVE  Appended(b, ch) \in [Places -> Bytes]
  BY <1>1, <1>2 DEF Appended
<1>4. LastCleared(b) \in [Places -> Bytes]
  BY <1>1 DEF LastCleared, ClearedFrom
<1>5. QED
  BY <1>1, <1>2, <1>3, <1>4

(* The last byte cleared, and all behind it.                                *)
LEMMA ClearedHolds ==
  ASSUME NEW b \in [Places -> Bytes], NEW s \in Seq(Chars \cup {Other}), Holds(b, s), Len(s) > 0
  PROVE  Holds(LastCleared(b), DropLast(s))
<1>1. Strlen(b) = Len(s) /\ Len(s) \in Nat /\ Len(s) < TextRoom
  BY StrlenIs DEF Holds
<1>2. /\ Len(DropLast(s)) = Len(s) - 1
      /\ \A k \in 1..(Len(s) - 1) : DropLast(s)[k] = s[k]
  BY Shorter
<1>3. ASSUME NEW k \in Places
      PROVE  LastCleared(b)[k] = IF k < Len(s) - 1 THEN DropLast(s)[k + 1] ELSE Nul
  <2>1. k \in Nat /\ b[k] = IF k < Len(s) THEN s[k + 1] ELSE Nul
    BY GrabberAssumption DEF Holds, Places
  <2>2. LastCleared(b)[k] = IF k >= Len(s) - 1 THEN Nul ELSE b[k]
    BY <1>1 DEF LastCleared, ClearedFrom
  <2>3. k < Len(s) - 1 => DropLast(s)[k + 1] = s[k + 1] /\ k < Len(s) /\ ~(k >= Len(s) - 1)
    BY <1>1, <1>2, <2>1
  <2>4. ~(k < Len(s) - 1) => k >= Len(s) - 1
    BY <1>1, <2>1
  <2>5. QED
    BY <2>1, <2>2, <2>3, <2>4
<1>4. Len(DropLast(s)) < TextRoom
  BY <1>1, <1>2, GrabberAssumption
<1>5. \A k \in Places : LastCleared(b)[k] = IF k < Len(DropLast(s)) THEN DropLast(s)[k + 1] ELSE Nul
  BY <1>2, <1>3, Zenon
<1>6. QED
  BY <1>4, <1>5, Zenon DEF Holds

(* A null byte on the last one: what clearing from there would do.          *)
LEMMA CutHolds ==
  ASSUME NEW b \in [Places -> Bytes], NEW s \in Seq(Chars \cup {Other}), Holds(b, s)
  PROVE  Holds([b EXCEPT ![Strlen(b) - 1] = Nul], DropLast(s))
<1>1. Strlen(b) = Len(s) /\ Len(s) \in Nat /\ Len(s) < TextRoom
  BY StrlenIs DEF Holds
<1>2. CASE Len(s) = 0
  <2>1. Len(s) - 1 \notin Places
    BY <1>2, GrabberAssumption DEF Places
  <2>2. [b EXCEPT ![Strlen(b) - 1] = Nul] = b
    BY <1>1, <2>1
  <2>3. DropLast(s) = s
    BY <1>2 DEF DropLast
  <2>4. QED
    BY <2>2, <2>3
<1>3. CASE Len(s) > 0
  <2>1. /\ Len(DropLast(s)) = Len(s) - 1
        /\ \A k \in 1..(Len(s) - 1) : DropLast(s)[k] = s[k]
    BY <1>3, Shorter
  <2>2. ASSUME NEW k \in Places
        PROVE  [b EXCEPT ![Strlen(b) - 1] = Nul][k]
                 = IF k < Len(s) - 1 THEN DropLast(s)[k + 1] ELSE Nul
    <3>1. k \in Nat /\ b[k] = IF k < Len(s) THEN s[k + 1] ELSE Nul
      BY GrabberAssumption DEF Holds, Places
    <3>2. [b EXCEPT ![Strlen(b) - 1] = Nul][k] = IF k = Len(s) - 1 THEN Nul ELSE b[k]
      BY <1>1
    <3>3. k < Len(s) - 1 => DropLast(s)[k + 1] = s[k + 1] /\ k < Len(s) /\ k # Len(s) - 1
      BY <1>1, <2>1, <3>1
    <3>4. ~(k < Len(s) - 1) => k = Len(s) - 1 \/ ~(k < Len(s))
      BY <1>1, <3>1
    <3>5. QED
      BY <3>1, <3>2, <3>3, <3>4
  <2>3. Len(DropLast(s)) < TextRoom
    BY <1>1, <2>1, GrabberAssumption
  <2>4. \A k \in Places : [b EXCEPT ![Strlen(b) - 1] = Nul][k]
                             = IF k < Len(DropLast(s)) THEN DropLast(s)[k + 1] ELSE Nul
    BY <2>1, <2>2, Zenon
  <2>5. QED
    BY <2>3, <2>4, Zenon DEF Holds
<1>4. QED
  BY <1>1, <1>2, <1>3

(* The text after a key: longer by it while a search is open, or as it was. *)
LEMMA TypingKeepsInv ==
  ASSUME Inv, Key, NEW byte \in Chars \cup {Other}, Typing(byte), input' = input
  PROVE  TextOK'
<1>1. searchText \in [Places -> Bytes] /\ typed \in Seq(Chars) /\ stray \in BOOLEAN /\ TextInv
  BY DEF Inv, TypeOK
<1>2. CASE input
  <2>1. /\ searchText' = Appended(searchText, byte)
        /\ stray' = (stray \/ byte \notin Chars)
        /\ typed' = IF stray' THEN <<>> ELSE Append(typed, byte)
    BY <1>2, Zenon DEF Typing
  <2>2. searchText' \in [Places -> Bytes] /\ stray' \in BOOLEAN
    BY <1>1, <2>1, BuffersStay DEF Bytes
  <2>3. CASE stray'
    <3>1. typed' = <<>>
      BY <2>1, <2>3
    <3>2. typed' \in Seq(Chars)
      BY <3>1
    <3>3. QED
      BY <2>2, <2>3, <3>2 DEF TextOK, TextInv
  <2>4. CASE ~stray'
    <3>1. ~stray /\ byte \in Chars /\ typed' = Append(typed, byte)
      BY <2>1, <2>4
    <3>2. Holds(searchText, typed) /\ Strlen(searchText) + 1 < TextRoom
      BY <1>1, <1>2, <3>1 DEF TextInv, Key
    <3>3. typed \in Seq(Chars \cup {Other})
      BY <1>1
    <3>4. Holds(searchText', typed')
      BY <1>1, <2>1, <3>1, <3>2, <3>3, AppendedHolds
    <3>5. typed' \in Seq(Chars)
      BY <1>1, <3>1
    <3>6. QED
      BY <2>2, <3>4, <3>5 DEF TextOK, TextInv
  <2>5. QED
    BY <2>3, <2>4
<1>3. CASE ~input
  <2>1. searchText' = searchText /\ typed' = typed /\ stray' = stray
    BY <1>3 DEF Typing, textvars
  <2>2. QED
    BY <1>1, <1>3, <2>1 DEF TextOK, TextInv
<1>4. QED
  BY <1>2, <1>3

LEMMA TypingACharacterKeepsInv ==
  ASSUME Inv, Key, TypingACharacter, input' = input
  PROVE  TextOK'
BY TypingKeepsInv DEF TypingACharacter

(* A cleared buffer is the empty string.                                    *)
LEMMA ClearedIsEmpty ==
  Cleared \in [Places -> Bytes] /\ Holds(Cleared, <<>>)
<1>1. Cleared \in [Places -> Bytes]
  BY DEF Cleared, Bytes
<1>2. Len(<<>>) = 0 /\ \A k \in Places : Cleared[k] = Nul /\ ~(k < 0)
  BY GrabberAssumption DEF Cleared, Places
<1>3. QED
  BY <1>1, <1>2, GrabberAssumption DEF Holds

LEMMA InitInv == Init => Inv
<1> SUFFICES ASSUME Init
             PROVE  Inv
  OBVIOUS
<1>1. input \in BOOLEAN /\ fetching \in BOOLEAN
  BY Zenon DEF Init
<1>2. /\ size \in 0..MaxSize /\ selected \in Nat /\ start \in -1..MaxSize
      /\ marked \in -1..MaxSize /\ mode = "keys" /\ link \in -2..MaxSize
      /\ ScrollInv /\ RowInv /\ LinkInv
  BY GrabberAssumption
     DEF Init, ScrollInv, RowInv, LinkInv, FirstRow, NodesIn, BORDER, None, NoLink
<1>3. /\ searchText \in [Places -> Bytes] /\ typed \in Seq(Chars) /\ stray \in BOOLEAN
      /\ TextInv
  <2>1. PICK rest \in [Places -> Bytes] :
          searchText = [k \in Places |-> IF k < 4 THEN Other ELSE IF k = 4 THEN Nul ELSE rest[k]]
    BY DEF Init
  <2>2. searchText \in [Places -> Bytes]
    BY <2>1 DEF Bytes
  <2>3. typed = <<>> /\ stray = FALSE /\ ~input
    BY DEF Init
  <2>4. <<>> \in Seq(Chars)
    OBVIOUS
  <2>5. QED
    BY <2>2, <2>3, <2>4, Zenon DEF TextInv
<1>4. QED
  BY <1>1, <1>2, <1>3 DEF Inv, TypeOK

LEMMA NextInv == Inv /\ [Next]_vars => Inv'
<1> SUFFICES ASSUME Inv, [Next]_vars
             PROVE  Inv'
  OBVIOUS
<1> USE GrabberAssumption
<1>1. /\ size \in 0..MaxSize /\ selected \in Nat /\ start \in -1..MaxSize
      /\ input \in BOOLEAN /\ fetching \in BOOLEAN /\ marked \in -1..MaxSize
      /\ searchText \in [Places -> Bytes] /\ typed \in Seq(Chars) /\ stray \in BOOLEAN
      /\ link \in -2..MaxSize
      /\ ScrollInv /\ RowInv /\ TextInv /\ LinkInv
  BY DEF Inv, TypeOK
(* How the parts below make the invariant.                                 *)
<1>2. ASSUME WindowOK', TextOK', size' \in 0..MaxSize, marked' \in -1..MaxSize,
             input' \in BOOLEAN, fetching' \in BOOLEAN
      PROVE  Inv'
  BY <1>2 DEF Inv, TypeOK, WindowOK, TextOK
<1>3. ASSUME UNCHANGED size, Draw(selected, start, size)
      PROVE  WindowOK'
  BY <1>1, <1>3, DrawKeepsInv DEF ScrollInv, RowInv, FirstRow, BORDER
<1>4. ASSUME UNCHANGED <<textvars, input>>
      PROVE  TextOK'
  BY <1>1, <1>4 DEF TextOK, TextInv, textvars
<1>5. Other \in Chars \cup {Other} /\ None \in -1..MaxSize
  BY DEF None
<1>6. ASSUME NEW m, m \in {"quit", "undefined", "nolink"}, mode' = m, TextOK',
             UNCHANGED <<size, selected, start, input, fetching, link>>,
             marked' \in -1..MaxSize
      PROVE  Inv'
  BY <1>1, <1>6 DEF Inv, TypeOK, ScrollInv, RowInv, LinkInv, TextOK, Target
<1>7. ASSUME mode' = "keys", TextOK', marked' \in -1..MaxSize,
             UNCHANGED <<size, selected, start, input, fetching, link>>
      PROVE  Inv'
  BY <1>1, <1>7 DEF Inv, TypeOK, ScrollInv, RowInv, LinkInv, TextOK, Target
<1>8. CASE KeyDown
  <2>1. WindowOK'
    BY <1>8, ScrollDownKeepsInv DEF KeyDown
  <2>2. TextOK'
    BY <1>5, <1>8, TypingKeepsInv DEF KeyDown
  <2>3. QED
    BY <1>1, <1>2, <1>5, <1>8, <2>1, <2>2 DEF KeyDown
<1>9. CASE KeyUp
  <2>1. WindowOK'
    BY <1>9, ScrollUpKeepsInv DEF KeyUp
  <2>2. TextOK'
    BY <1>5, <1>9, TypingKeepsInv DEF KeyUp
  <2>3. QED
    BY <1>1, <1>2, <1>5, <1>9, <2>1, <2>2 DEF KeyUp
<1>10. CASE Space
  <2>1. marked' \in -1..MaxSize
    BY <1>1, <1>10 DEF Space, None, Target, NodesIn, BORDER, RowInv, ScrollInv, FirstRow
  <2>2. WindowOK'
    BY <1>10, ScrollDownKeepsInv DEF Space
  <2>3. TextOK'
    BY <1>10, TypingACharacterKeepsInv DEF Space
  <2>4. QED
    BY <1>1, <1>2, <1>10, <2>1, <2>2, <2>3 DEF Space
<1>11. CASE PageUp
  <2>1. WindowOK'
    BY <1>1, <1>11, DrawKeepsInv DEF PageUp, ScrollInv, BORDER
  <2>2. TextOK'
    BY <1>5, <1>11, TypingKeepsInv DEF PageUp
  <2>3. QED
    BY <1>1, <1>2, <1>5, <1>11, <2>1, <2>2 DEF PageUp
<1>12. CASE PageDown
  <2>1. WindowOK'
    BY <1>1, <1>12, DrawKeepsInv DEF PageDown, ScrollInv, BORDER
  <2>2. TextOK'
    BY <1>5, <1>12, TypingKeepsInv DEF PageDown
  <2>3. QED
    BY <1>1, <1>2, <1>5, <1>12, <2>1, <2>2 DEF PageDown
<1>13. CASE ToTop
  <2>1. WindowOK'
    BY <1>1, <1>13, DrawKeepsInv DEF ToTop, BORDER
  <2>2. QED
    BY <1>1, <1>2, <1>4, <1>5, <1>13, <2>1 DEF ToTop
<1>14. CASE Redraw
  <2>1. TextOK'
    BY <1>14, TypingACharacterKeepsInv DEF Redraw
  <2>2. QED
    BY <1>1, <1>2, <1>3, <1>5, <1>14, <2>1 DEF Redraw
<1>15. CASE OpenLink
  <2>1. CASE link = NoLink /\ mode' = "nolink" /\ UNCHANGED <<selected, start, link>>
    BY <1>4, <1>5, <1>6, <1>15, <2>1 DEF OpenLink
  <2>2. CASE link = Wild /\ mode' = "undefined" /\ UNCHANGED <<selected, start, link>>
    BY <1>4, <1>5, <1>6, <1>15, <2>2 DEF OpenLink
  <2>3. CASE link # NoLink /\ Draw(selected, start, size)
    BY <1>1, <1>2, <1>3, <1>4, <1>5, <1>15, <2>3 DEF OpenLink
  <2>4. QED
    BY <1>15, <2>1, <2>2, <2>3 DEF OpenLink
<1>16. CASE OpenSearch
  <2>1. TextOK'
    <3>1. searchText' = Cleared /\ typed' = <<>> /\ stray' = FALSE
      BY <1>16 DEF OpenSearch
    <3>2. typed' \in Seq(Chars)
      BY <3>1
    <3>3. QED
      BY <3>1, <3>2, ClearedIsEmpty DEF TextOK, TextInv
  <2>2. input' \in BOOLEAN /\ fetching' \in BOOLEAN
    BY <1>1, <1>16, Zenon DEF OpenSearch
  <2>3. QED
    BY <1>1, <1>2, <1>3, <1>5, <1>16, <2>1, <2>2 DEF OpenSearch
<1>17. CASE CancelSearch
  <2>1. TextOK'
    <3>1. searchText' = Cleared /\ UNCHANGED <<typed, stray>> /\ ~input'
      BY <1>17 DEF CancelSearch
    <3>2. QED
      BY <1>1, <3>1, ClearedIsEmpty DEF TextOK, TextInv
  <2>2. QED
    BY <1>1, <1>2, <1>3, <1>5, <1>17, <2>1 DEF CancelSearch
<1>18. CASE JustType
  <2>1. PICK byte \in Chars \cup {Other} : Typing(byte)
    BY <1>18 DEF JustType
  <2>2. TextOK' /\ UNCHANGED <<size, selected, start, input, fetching, link, mode>>
                /\ mode = "keys" /\ marked' = None
    BY <1>18, <2>1, TypingKeepsInv DEF JustType, Key
  <2>3. QED
    BY <1>5, <1>7, <2>2
<1>19. CASE Backspace
  <2> DEFINE c == Appended(searchText, Other)
             b == LastCleared(c)
  <2>1. /\ searchText' = [b EXCEPT ![Strlen(b) - 1] = Nul]
        /\ typed' = DropLast(typed) /\ stray' = stray /\ input' = input /\ input
        /\ Strlen(searchText) + 1 < TextRoom
    BY <1>19 DEF Backspace, Key
  <2>2. c \in [Places -> Bytes] /\ b \in [Places -> Bytes]
    BY <1>1, BuffersStay DEF Bytes
  <2>3. typed' \in Seq(Chars)
    BY <1>1, <2>1, Shorter
  <2>4. ~stray => Holds(searchText', typed')
    <3> SUFFICES ASSUME ~stray
                 PROVE  Holds(searchText', DropLast(typed))
      BY <2>1
    <3>1. Holds(searchText, typed) /\ typed \in Seq(Chars \cup {Other})
      BY <1>1, <2>1 DEF TextInv
    <3>2. Append(typed, Other) \in Seq(Chars \cup {Other}) /\ Holds(c, Append(typed, Other))
      BY <1>1, <2>1, <3>1, AppendedHolds
    <3>3. Len(Append(typed, Other)) > 0 /\ DropLast(Append(typed, Other)) = typed
      BY <3>1 DEF DropLast
    <3>4. Holds(b, typed)
      BY <2>2, <3>2, <3>3, ClearedHolds
    <3> HIDE DEF b
    <3>5. QED
      BY <2>1, <2>2, <3>1, <3>4, CutHolds
  <2>5. TextOK'
    <3> HIDE DEF b, c
    <3>1. searchText' \in [Places -> Bytes]
      BY <2>1, <2>2, BuffersStay
    <3>2. QED
      BY <1>1, <2>1, <2>3, <2>4, <3>1 DEF TextOK, TextInv
  <2>6. QED
    BY <1>5, <1>7, <1>19, <2>5 DEF Backspace, Key
<1>20. CASE Enter
  <2>1. input' \in BOOLEAN /\ fetching' \in BOOLEAN /\ ~input'
    BY <1>1, <1>20, Zenon DEF Enter
  <2>2. /\ searchText' = LastCleared(IF input THEN Appended(searchText, Other) ELSE searchText)
        /\ typed' = <<>> /\ stray' = FALSE
    BY <1>20 DEF Enter
  <2>3. searchText' \in [Places -> Bytes]
    BY <1>1, <2>2, BuffersStay DEF Bytes
  <2>4. TextOK'
    <3>1. typed' \in Seq(Chars)
      BY <2>2
    <3>2. QED
      BY <2>1, <2>2, <2>3, <3>1 DEF TextOK, TextInv
  <2>5. QED
    BY <1>1, <1>2, <1>3, <1>5, <1>20, <2>1, <2>4 DEF Enter
<1>21. CASE TextOverflows \/ TextUnderflows
  BY <1>1, <1>4, <1>6, <1>21 DEF TextOverflows, TextUnderflows
<1>22. CASE FetchBegin
  <2>1. input' \in BOOLEAN /\ fetching' \in BOOLEAN
    BY <1>1, <1>22, Zenon DEF FetchBegin
  <2>2. QED
    BY <1>1, <1>2, <1>3, <1>4, <1>5, <1>22, <2>1 DEF FetchBegin
<1>23. CASE FetchEnd
  <2>1. input' \in BOOLEAN /\ fetching' \in BOOLEAN
    BY <1>1, <1>23, Zenon DEF FetchEnd
  <2>2. QED
    BY <1>1, <1>2, <1>3, <1>4, <1>5, <1>23, <2>1 DEF FetchEnd
<1>24. CASE Resize
  <2>1. TextOK'
    BY <1>5, <1>24, TypingKeepsInv DEF Resize
  <2>2. QED
    BY <1>1, <1>6, <1>24, <2>1 DEF Resize
<1>25. CASE Quit
  BY <1>1, <1>4, <1>6, <1>25 DEF Quit
<1>26. CASE UNCHANGED vars
  BY <1>26 DEF vars, Inv, TypeOK, ScrollInv, RowInv, TextInv, LinkInv, Target
<1>27. CASE Grow
  <2>1. PICK n \in (size + 1)..MaxSize : size' = n
    BY <1>27 DEF Grow
  <2>2. /\ n \in 0..MaxSize /\ size < n /\ mode' = "keys" /\ fetching' /\ fetching
        /\ UNCHANGED <<selected, start, link, input, textvars>> /\ marked' = None
    BY <1>1, <1>27, <2>1 DEF Grow
  <2>3. ScrollInv' /\ RowInv'
    BY <1>1, <2>1, <2>2 DEF ScrollInv, RowInv, NodesIn, BORDER
  <2>4. LinkInv'
    BY <1>1, <2>1, <2>2 DEF LinkInv, Target, BORDER
  <2>5. WindowOK'
    BY <1>1, <2>2, <2>3, <2>4 DEF WindowOK
  <2>6. input' \in BOOLEAN /\ fetching' \in BOOLEAN
    BY <1>1, <2>2
  <2>7. QED
    BY <1>2, <1>4, <1>5, <2>1, <2>2, <2>5, <2>6
<1>28. QED
  BY <1>8, <1>9, <1>10, <1>11, <1>12, <1>13, <1>14, <1>15, <1>16, <1>17, <1>18,
     <1>19, <1>20, <1>21, <1>22, <1>23, <1>24, <1>25, <1>26, <1>27
     DEF Next, Ended

(* The invariant the properties below follow from: where scrolling         *)
(* stops, in terms of the list's size and the screen's.                    *)
THEOREM Invariant == Spec => []Inv
  BY InitInv, NextInv, PTL DEF Spec

(* Every variable keeps to its type; the viewport is at most one article   *)
(* above the head.                                                         *)
THEOREM TypeCorrect == Spec => []TypeOK
<1>1. Inv => TypeOK
  BY DEF Inv
<1>2. QED
  BY <1>1, Invariant, PTL

(* refreshWin's unchecked walk finds an article (grabber.c:502-512).       *)
THEOREM SlideIsSafe == Spec => []SlideStaysOnTheList
<1>1. Inv => SlideStaysOnTheList
  BY DEF Inv, SlideStaysOnTheList
<1>2. QED
  BY <1>1, Invariant, PTL

(* The equality tests of scrollAndAdjustViewPort are never jumped over.    *)
THEOREM EndsAreFound == Spec => []EndsAreNotJumped
<1>1. Inv => EndsAreNotJumped
  BY GrabberAssumption
     DEF Inv, EndsAreNotJumped, TypeOK, ScrollInv, RowInv, NodesIn, FirstRow, BORDER
<1>2. QED
  BY <1>1, Invariant, PTL

(* What Enter searches for is the characters typed, less one for each      *)
(* backspace, in any order of the keys (grabber.c:219-222, 301-327).       *)
THEOREM SearchTextIsRight == Spec => SearchesWhatWasTyped
<1>1. Inv /\ [Next]_vars => [input /\ ~input' /\ ~stray => TheString(searchText') = typed]_vars
  <2> SUFFICES ASSUME Inv, Next, input, ~input', ~stray
               PROVE  TheString(searchText') = typed
    OBVIOUS
  <2>1. Enter
    BY DEF Next, KeyDown, KeyUp, Space, PageUp, PageDown, ToTop, Redraw, OpenLink, OpenSearch,
       CancelSearch, JustType, Backspace, TextOverflows, TextUnderflows, FetchBegin, Grow,
       FetchEnd, Resize, Quit, Ended, vars
  <2> DEFINE c == Appended(searchText, Other)
  <2>2. searchText' = LastCleared(c) /\ Strlen(searchText) + 1 < TextRoom
    BY <2>1 DEF Enter, Key
  <2>3. /\ searchText \in [Places -> Bytes] /\ Holds(searchText, typed)
        /\ typed \in Seq(Chars) /\ typed \in Seq(Chars \cup {Other})
    BY DEF Inv, TypeOK, TextInv
  <2>4. /\ Append(typed, Other) \in Seq(Chars \cup {Other}) /\ Holds(c, Append(typed, Other))
        /\ c \in [Places -> Bytes]
    BY <2>2, <2>3, AppendedHolds
  <2>5. Len(Append(typed, Other)) > 0 /\ DropLast(Append(typed, Other)) = typed
    BY <2>3 DEF DropLast
  <2>6. Holds(searchText', typed)
    BY <2>2, <2>4, <2>5, ClearedHolds
  <2>7. Strlen(searchText') = Len(typed) /\ Len(typed) \in Nat /\ Len(typed) < TextRoom
    BY <2>3, <2>6, StrlenIs DEF Holds
  <2>8. \A k \in 1..Len(typed) : searchText'[k - 1] = typed[k]
    <3> SUFFICES ASSUME NEW k \in 1..Len(typed)
                 PROVE  searchText'[k - 1] = typed[k]
      OBVIOUS
    <3>1. k - 1 \in Places /\ k - 1 < Len(typed) /\ (k - 1) + 1 = k
      BY <2>7, GrabberAssumption DEF Places
    <3>2. QED
      BY <2>6, <3>1 DEF Holds
  <2>9. typed = [k \in 1..Len(typed) |-> typed[k]]
    BY <2>3
  <2>10. QED
    BY <2>7, <2>8, <2>9 DEF TheString
<1>2. QED
  BY <1>1, Invariant, PTL DEF Spec, SearchesWhatWasTyped

(* The link 'o' opens is that of the article below the highlighted one, in *)
(* any order of keys, appends and redraws; it is uninitialised only where  *)
(* there was no such article at the last redraw (grabber.c:101-118,        *)
(* 401-443).                                                               *)
THEOREM LinkIsTheNextArticle == Spec => []OpensTheNextArticle
<1>1. Inv => OpensTheNextArticle
  <2> SUFFICES ASSUME Inv
               PROVE  OpensTheNextArticle
    OBVIOUS
  <2>1. /\ size \in Nat /\ selected \in Nat /\ start \in -1..MaxSize /\ LinkInv
        /\ selected >= 4
    BY DEF Inv, TypeOK, RowInv, FirstRow, BORDER
  <2>2. Target \in Nat
    <3>1. start \in Int /\ start >= -1 /\ selected >= 4
      BY <2>1, GrabberAssumption
    <3>2. QED
      BY <2>1, <3>1, BelowIsNat DEF Target
  <2>3. /\ link \notin {NoLink, Wild} => link = Target /\ Target < size
        /\ link = Wild => Target >= size \/ fetching
    BY <2>1, <2>2 DEF LinkInv, Wild, NoLink
  <2>4. ASSUME link = Wild, IsShown, ~fetching
        PROVE  Highlighted = size - 1
    <3>1. start + selected - 3 >= size
      BY <2>3, <2>4 DEF Target, BORDER
    <3>2. Highlighted < size
      BY <2>4 DEF IsShown
    <3>3. Highlighted \in Int /\ Highlighted >= start + selected - 4
      BY <2>1, GrabberAssumption DEF Highlighted, First, BORDER
    <3>4. QED
      BY <2>1, <3>1, <3>2, <3>3
  <2>5. QED
    BY <2>3, <2>4 DEF OpensTheNextArticle
<1>2. QED
  BY <1>1, Invariant, PTL
=============================================================================
