--------------------------- MODULE SegmentsProofs ---------------------------
(***************************************************************************)
(* Proofs about Segments for any width and any words: the function on its  *)
(* own, entered with any sequence of words that strtok can return.         *)
(***************************************************************************)
EXTENDS Segments, SequenceTheorems, FiniteSetTheorems, TLAPS

CONSTANT Char   \* the characters of the words

Init == pc = "words" /\ \E ws \in Seq(Seq(Char) \ {<<>>}) : Entered(ws)

Spec == Init /\ [][Split]_vars

Letter == Char \cup {Space}

(* The types that the words give to the text and to the lines.             *)
Typed == /\ words \in Seq(Seq(Char) \ {<<>>})
         /\ text \in Seq(Letter)
         /\ segs \in Seq(Seq(Letter))
         /\ pc \in {"words", "scan", "done", "textfull", "breaksfull", "linesfull"}

FullInv == Typed /\ Inv

-----------------------------------------------------------------------------
(* Numbers and sequences. *)

(* c lines of w columns fit in n columns only if c is at most n \div w.    *)
LEMMA DivBound ==
  ASSUME NEW n \in Nat, NEW w \in Nat, w > 0, NEW c \in Nat, c * w <= n
  PROVE  n \div w \in Nat /\ c <= n \div w
<1>1. PICK q \in Int : q = n \div w
  OBVIOUS
<1>2. PICK r \in Int : r = n % w
  OBVIOUS
<1>3. n = q * w + r /\ r >= 0 /\ r < w
  BY <1>1, <1>2
<1>4. (q + 1) * w > n
  BY <1>3
<1>5. c < q + 1
  <2>1. SUFFICES ASSUME c >= q + 1 PROVE FALSE
    OBVIOUS
  <2>2. c * w >= (q + 1) * w
    BY <2>1
  <2> QED
    BY <1>4, <2>2
<1> QED
  BY <1>1, <1>5

LEMMA SubstringFacts ==
  ASSUME NEW C, text \in Seq(C), NEW from \in 0..Len(text), NEW count \in Nat,
         from + count <= Len(text)
  PROVE  Substring(from, count) \in Seq(C) /\ Len(Substring(from, count)) = count
<1>1. Len(text) \in Nat
  BY LenProperties
<1>2. Min({from + count, Len(text)}) = from + count
  BY <1>1 DEF Min
<1>3. ~(count < 0)
  OBVIOUS
<1>4. Substring(from, count) = SubSeq(text, from + 1, from + count)
  BY <1>2, <1>3 DEF Substring
<1>5. PICK i \in Nat, j \in Nat : i = from + 1 /\ j = from + count
  BY <1>1
<1>6. SubSeq(text, i, j) \in Seq(C) /\ Len(SubSeq(text, i, j)) = count
  BY <1>1, <1>5
<1> QED
  BY <1>4, <1>5, <1>6

(* The pointers: finitely many, and those behind pos are some of them.     *)
LEMMA PassedFacts ==
  ASSUME TypeOK, text \in Seq(Letter)
  PROVE  /\ IsFiniteSet(breaks) /\ IsFiniteSet(Passed)
         /\ Cardinality(breaks) \in Nat /\ Cardinality(Passed) \in Nat
         /\ Cardinality(Passed) <= Cardinality(breaks)
         /\ pos \notin Passed
         /\ pos = Len(text) /\ (\A p \in breaks : p + 3 < Len(text)) => Passed = breaks
<1>1. Len(text) \in Nat /\ 0 \in Int
  BY LenProperties
<1>2. IsFiniteSet(0..Len(text))
  BY <1>1, FS_Interval
<1>3. breaks \subseteq 0..Len(text) /\ pos \in 0..Len(text)
  BY DEF TypeOK
<1>4. IsFiniteSet(breaks)
  BY <1>2, <1>3, FS_Subset
<1>5. Passed \subseteq breaks
  BY DEF Passed
<1>6. pos \notin Passed
  BY <1>1, <1>3 DEF Passed
<1>7. pos = Len(text) /\ (\A p \in breaks : p + 3 < Len(text)) => Passed = breaks
  <2> SUFFICES ASSUME pos = Len(text), \A p \in breaks : p + 3 < Len(text)
               PROVE  Passed = breaks
    OBVIOUS
  <2>1. \A b \in breaks : b < pos
    BY <1>1, <1>3
  <2> QED
    BY <2>1 DEF Passed
<1>8. /\ IsFiniteSet(Passed) /\ Cardinality(Passed) <= Cardinality(breaks)
      /\ Cardinality(breaks) \in Nat /\ Cardinality(Passed) \in Nat
  BY <1>4, <1>5, FS_Subset, FS_CardinalityType
<1> QED
  BY <1>4, <1>6, <1>7, <1>8

(* What the text loses or gains is behind the last word or a newline.      *)
LEMMA JoinFacts ==
  ASSUME NEW t \in Seq(Letter), NEW h \in Seq(Char)
  PROVE  /\ t \o <<Space>> \o h \in Seq(Letter)
         /\ Len(t \o <<Space>> \o h) = Len(t) + 1 + Len(h)
         /\ \A k \in 1..Len(t) : (t \o <<Space>> \o h)[k] = t[k]
         /\ (t \o <<Space>> \o h)[Len(t) + 1] = Space
<1>1. <<Space>> \in Seq(Letter) /\ Len(<<Space>>) = 1 /\ <<Space>>[1] = Space
  BY DEF Letter
<1>2. h \in Seq(Letter)
  BY DEF Letter
<1>3. PICK u \in Seq(Letter) : u = t \o <<Space>>
  BY <1>1, ConcatProperties
<1>4. /\ Len(u) = Len(t) + 1
      /\ \A k \in 1..Len(t) : u[k] = t[k]
      /\ u[Len(t) + 1] = Space
  <2>1. Len(t) \in Nat /\ Len(t) + 1 \in 1..(Len(t) + 1) /\ (Len(t) + 1) - Len(t) = 1
    BY LenProperties
  <2>2. \A k \in 1..Len(t) : k \in 1..(Len(t) + 1) /\ k <= Len(t)
    BY <2>1
  <2> QED
    BY <1>1, <1>3, <2>1, <2>2, ConcatProperties
<1>5. PICK v : v = u \o h
  OBVIOUS
<1>6. Len(t) \in Nat /\ Len(h) \in Nat
  BY LenProperties
<1>7. v \in Seq(Letter) /\ Len(v) = Len(u) + Len(h) /\ \A k \in 1..Len(u) : v[k] = u[k]
  <2>1. Len(u) \in Nat
    BY LenProperties
  <2>2. \A k \in 1..Len(u) : k \in 1..(Len(u) + Len(h)) /\ k <= Len(u)
    BY <1>6, <2>1
  <2> QED
    BY <1>2, <1>5, <2>2, ConcatProperties
<1>8. \A k \in 1..Len(t) : k \in 1..(Len(t) + 1)
  BY <1>6
<1>9. Len(t) + 1 \in 1..(Len(t) + 1)
  BY <1>6
<1> QED
  BY <1>3, <1>4, <1>5, <1>6, <1>7, <1>8, <1>9

-----------------------------------------------------------------------------
LEMMA InitInv == Init => FullInv
<1> SUFFICES ASSUME Init PROVE FullInv
  OBVIOUS
<1>0. Width \in Nat \ {0}
  BY SegmentsAssumption
<1>1. /\ pc = "words" /\ text = <<>> /\ breaks = {} /\ segs = <<>>
      /\ pos = 0 /\ wb = -1 /\ start = 0 /\ stop = 0
  BY DEF Init, Entered
<1>2. words \in Seq(Seq(Char) \ {<<>>})
  BY DEF Init, Entered
<1>3. Len(text) = 0 /\ Len(segs) = 0
  BY <1>1
<1>4. Typed
  BY <1>1, <1>2 DEF Typed
<1>5. TypeOK
  <2>1. \A k \in 1..Len(words) : words[k] # <<>>
    BY <1>2, ElementOfSeq
  <2> QED
    BY <1>1, <1>3, <2>1 DEF TypeOK
<1>6. TextInv
  BY <1>0, <1>1, <1>3 DEF TextInv
<1>7. BreaksInv /\ ScanInv /\ LinesFit /\ CountInv
  BY <1>1, <1>3 DEF BreaksInv, ScanInv, LinesFit, CountInv
<1>8. RoomForLines
  BY <1>1 DEF RoomForLines
<1> QED
  BY <1>4, <1>5, <1>6, <1>7, <1>8 DEF FullInv, Inv

(* The lines are as few as the spaces between the words make them.         *)
LEMMA FewLines ==
  Typed /\ TypeOK /\ Counted =>
    Len(segs) <= 2 * Cardinality(breaks) + 2 * (Len(text) \div (Width + 1))
<1> SUFFICES ASSUME Typed, TypeOK, Counted
             PROVE  Len(segs) <= 2 * Cardinality(breaks) + 2 * (Len(text) \div (Width + 1))
  OBVIOUS
<1>0. Width \in Nat \ {0}
  BY SegmentsAssumption
<1>1. Len(text) \in Nat /\ Len(segs) \in Nat /\ pos \in 0..Len(text) /\ stop \in 0..Len(text)
  BY LenProperties DEF Typed, TypeOK
<1>2. /\ Cardinality(breaks) \in Nat /\ Cardinality(Passed) \in Nat
      /\ Cardinality(Passed) <= Cardinality(breaks)
  BY PassedFacts DEF Typed
<1>3. PICK c \in Nat : FullLines <= 2 * c /\ c * (Width + 1) <= Len(text)
  <2>1. FullLines \in Int
    BY <1>1, <1>2 DEF FullLines
  <2>2. PICK c \in 0..Len(text) :
          \/ FullLines <= 2 * c /\ c * (Width + 1) <= stop
          \/ FullLines <= 2 * c - 1 /\ c * (Width + 1) <= pos
    BY DEF Counted
  <2>3. PICK u \in Int : u = c * (Width + 1)
    BY <1>0
  <2>4. u <= Len(text) /\ FullLines <= 2 * c
    BY <1>1, <2>1, <2>2, <2>3
  <2> QED
    BY <1>1, <2>3, <2>4
<1>4. Len(text) \div (Width + 1) \in Nat /\ c <= Len(text) \div (Width + 1)
  <2>1. Width + 1 \in Nat /\ Width + 1 > 0
    BY <1>0
  <2> QED
    BY <1>1, <1>3, <2>1, DivBound
<1>5. Len(segs) - 2 * Cardinality(Passed) <= 2 * c
  BY <1>3 DEF FullLines
<1> QED
  BY <1>1, <1>2, <1>4, <1>5

LEMMA TakeWordInv == FullInv /\ TakeWord => FullInv'
<1> SUFFICES ASSUME FullInv, TakeWord PROVE FullInv'
  OBVIOUS
<1>0. /\ Width \in Nat \ {0}
      /\ Typed /\ TypeOK /\ TextInv /\ BreaksInv /\ LinesFit
  BY SegmentsAssumption, Zenon DEF FullInv, Inv
<1>1. /\ pc = "words" /\ pc' \in {"words", "textfull"} /\ words # <<>>
      /\ words' = Tail(words)
      /\ text' = IF Len(Head(words)) > Width THEN text
                 ELSE text \o <<Space>> \o Head(words)
      /\ UNCHANGED <<breaks, pos, wb, start, stop, segs>>
  BY DEF TakeWord
<1>2. /\ breaks = {} /\ segs = <<>>
      /\ pos = 0 /\ wb = -1 /\ start = 0 /\ stop = 0
  BY <1>0, <1>1 DEF BreaksInv
<1>3. /\ Head(words) \in Seq(Char)
      /\ words' \in Seq(Seq(Char) \ {<<>>})
  BY <1>0, <1>1, HeadTailProperties DEF Typed
<1>4. PICK n \in Nat : n = Len(text)
  BY <1>0, LenProperties DEF Typed
<1>5. PICK h \in Seq(Char) : h = Head(words)
  BY <1>3
<1>6. Len(h) \in Nat
  BY LenProperties
<1>7. ASSUME Len(h) > Width
      PROVE  Typed' /\ TextInv' /\ Len(text') \in Nat
  <2>1. text' = text
    BY <1>1, <1>5, <1>7
  <2>2. TextInv'
    BY <1>0, <2>1 DEF TextInv, IsSpace
  <2>3. Typed' /\ Len(text') = n
    BY <1>0, <1>1, <1>3, <1>4, <2>1 DEF Typed
  <2> QED
    BY <1>4, <2>2, <2>3
<1>8. ASSUME Len(h) <= Width
      PROVE  Typed' /\ TextInv' /\ Len(text') \in Nat
  <2>0. ~(Len(h) > Width)
    BY <1>0, <1>6, <1>8
  <2>1. text' = text \o <<Space>> \o h
    BY <1>1, <1>5, <2>0
  <2>2. /\ text' \in Seq(Letter)
        /\ Len(text') = n + 1 + Len(h)
        /\ \A k \in 1..n : text'[k] = text[k]
        /\ text'[n + 1] = Space
    BY <1>0, <1>4, <2>1, JoinFacts DEF Typed
  <2>3. IsSpace(n)'
    BY <2>2 DEF IsSpace
  <2>4. \A p \in 0..(n - 1) : IsSpace(p) => IsSpace(p)'
    BY <1>4, <2>2 DEF IsSpace
  <2>5. IsSpace(0)'
    <3>1. CASE n = 0
      BY <2>3, <3>1
    <3>2. CASE n # 0
      <4>1. text # <<>>
        BY <1>4, <3>2
      <4> QED
        BY <1>0, <1>4, <2>4, <3>2, <4>1 DEF TextInv
    <3> QED
      BY <3>1, <3>2
  <2>6. ASSUME NEW from \in 0..(Len(text') - Width - 1)
        PROVE  \E p \in from..(from + Width) : IsSpace(p)'
    <3>1. from \in Nat /\ from <= n + 1 + Len(h) - Width - 1
      BY <1>0, <1>6, <2>2
    <3>2. from <= n
      BY <1>0, <1>6, <1>8, <3>1
    <3>3. CASE from + Width < n
      <4>1. from \in 0..(n - Width - 1)
        BY <1>0, <3>1, <3>3
      <4>2. PICK p \in from..(from + Width) : IsSpace(p)
        BY <1>0, <1>4, <4>1 DEF TextInv
      <4>3. p \in 0..(n - 1)
        BY <1>0, <3>1, <3>3
      <4> QED
        BY <2>4, <4>2, <4>3
    <3>4. CASE from + Width >= n
      <4>1. n \in from..(from + Width)
        BY <1>0, <3>1, <3>2, <3>4
      <4> QED
        BY <2>3, <4>1
    <3> QED
      BY <1>0, <3>1, <3>3, <3>4
  <2>7. TextInv'
    BY <2>5, <2>6 DEF TextInv
  <2>8. Typed' /\ Len(text') \in Nat
    <3>1. Len(text') \in Nat
      BY <1>6, <2>2
    <3> QED
      BY <1>0, <1>1, <1>3, <2>2, <3>1 DEF Typed
  <2> QED
    BY <2>7, <2>8
<1>9. Typed' /\ TextInv' /\ Len(text') \in Nat
  BY <1>0, <1>4, <1>6, <1>7, <1>8
<1>10. TypeOK'
  <2>1. \A k \in 1..Len(words') : words'[k] # <<>>
    BY <1>9, ElementOfSeq DEF Typed
  <2>2. breaks' = {} /\ pos' = 0 /\ wb' = -1 /\ start' = 0 /\ stop' = 0
    BY <1>1, <1>2
  <2>3. 0 \in 0..Len(text') /\ -1 \in -1..Len(text')
    BY <1>9
  <2> QED
    BY <2>1, <2>2, <2>3 DEF TypeOK
<1>11. BreaksInv' /\ ScanInv' /\ LinesFit' /\ CountInv'
  BY <1>0, <1>1, <1>2 DEF BreaksInv, ScanInv, LinesFit, CountInv
<1>12. RoomForLines'
  BY <1>1 DEF RoomForLines
<1> QED
  BY <1>9, <1>10, <1>11, <1>12 DEF FullInv, Inv

LEMMA BlankSegInv == FullInv /\ BlankSeg => FullInv'
<1> SUFFICES ASSUME FullInv, BlankSeg PROVE FullInv'
  OBVIOUS
<1>1. /\ pc = "words" /\ pc' = "done" /\ text = <<>>
      /\ UNCHANGED <<words, text, breaks, pos, wb, start, stop, segs>>
  BY DEF BlankSeg
<1>2. Typed /\ TypeOK /\ TextInv /\ BreaksInv /\ LinesFit
  BY DEF FullInv, Inv
<1>3. Typed' /\ TypeOK' /\ TextInv' /\ LinesFit'
  BY <1>1, <1>2 DEF Typed, TypeOK, TextInv, LinesFit, IsSpace
<1>4. BreaksInv' /\ ScanInv' /\ CountInv'
  BY <1>1, <1>2 DEF BreaksInv, ScanInv, CountInv
<1>5. RoomForLines'
  <2>1. breaks' = {}
    BY <1>1, <1>2 DEF BreaksInv
  <2>2. Cardinality(breaks') = 0
    BY <2>1, FS_EmptySet
  <2> QED
    BY <1>1, <2>2, SegmentsAssumption DEF RoomForLines
<1> QED
  BY <1>3, <1>4, <1>5 DEF FullInv, Inv

LEMMA FindBreaksInv == FullInv /\ FindBreaks => FullInv'
<1> SUFFICES ASSUME FullInv, FindBreaks PROVE FullInv'
  OBVIOUS
<1>0. /\ Width \in Nat \ {0}
      /\ Typed /\ TypeOK /\ TextInv /\ BreaksInv /\ LinesFit
  BY SegmentsAssumption, Zenon DEF FullInv, Inv
<1>1. /\ pc = "words" /\ pc' \in {"scan", "breaksfull"} /\ text # <<>>
      /\ text' = [i \in 1..Len(text) |-> IF text[i] = NewLine THEN Space ELSE text[i]]
      /\ breaks' = {p \in 0..(Len(text) - 4) : SubSeq(text', p + 1, p + 3) = Break}
      /\ UNCHANGED <<words, pos, wb, start, stop, segs>>
  BY DEF FindBreaks
<1>2. segs = <<>> /\ pos = 0 /\ wb = -1 /\ start = 0 /\ stop = 0
  BY <1>0, <1>1 DEF BreaksInv
<1>3. PICK n \in Nat : n = Len(text) /\ n # 0
  BY <1>0, <1>1, LenProperties, EmptySeq DEF Typed
<1>4. text' \in Seq(Letter) /\ Len(text') = n
  <2>1. \A i \in 1..n : text[i] \in Letter /\ Space \in Letter
    BY <1>0, <1>3, ElementOfSeq DEF Typed, Letter
  <2>2. text' \in [1..n -> Letter]
    BY <1>1, <1>3, <2>1
  <2> QED
    BY <1>3, <2>2
<1>5. \A p \in 0..(n - 1) : IsSpace(p) => IsSpace(p)'
  BY <1>1, <1>3 DEF IsSpace
<1>6. TextInv'
  <2>1. IsSpace(0)'
    BY <1>0, <1>1, <1>3, <1>5 DEF TextInv
  <2>2. ASSUME NEW from \in 0..(n - Width - 1)
        PROVE  \E p \in from..(from + Width) : IsSpace(p)'
    <3>1. PICK p \in from..(from + Width) : IsSpace(p)
      BY <1>0, <1>3 DEF TextInv
    <3>2. p \in 0..(n - 1)
      BY <1>0
    <3> QED
      BY <1>5, <3>1, <3>2
  <2> QED
    BY <1>4, <2>1, <2>2 DEF TextInv
<1>7. Typed'
  BY <1>0, <1>1, <1>4 DEF Typed
<1>8. \A p \in breaks' : p \in 0..n /\ p + 3 < n
  BY <1>1, <1>3
<1>9. TypeOK'
  BY <1>0, <1>1, <1>2, <1>4, <1>8 DEF TypeOK
<1>10. BreaksInv'
  BY <1>1, <1>4, <1>8 DEF BreaksInv
<1>11. ScanInv'
  <2>1. text' # <<>>
    BY <1>3, <1>4
  <2> QED
    BY <1>0, <1>1, <1>2, <2>1 DEF ScanInv
<1>12. LinesFit'
  BY <1>0, <1>1 DEF LinesFit
<1>14. CountInv'
  <2>1. Passed' = {}
    BY <1>1, <1>2, <1>8 DEF Passed
  <2>2. Cardinality(Passed)' = 0
    BY <2>1, FS_EmptySet
  <2>3. FullLines' = 0
    BY <1>1, <1>2, <2>2 DEF FullLines
  <2>4. 0 \in 0..Len(text') /\ 0 * (Width + 1) <= stop'
    BY <1>0, <1>1, <1>2, <1>4
  <2> QED
    BY <2>3, <2>4 DEF CountInv, Counted
<1>15. RoomForLines'
  BY <1>1 DEF RoomForLines
<1> QED
  BY <1>6, <1>7, <1>9, <1>10, <1>11, <1>12, <1>14, <1>15 DEF FullInv, Inv

-----------------------------------------------------------------------------
(* The pass. *)

(* A break is three characters, none of them a space.                      *)
LEMMA BreakFacts ==
  ASSUME text \in Seq(Letter), NEW p \in Nat, p + 3 < Len(text),
         SubSeq(text, p + 1, p + 3) = Break
  PROVE  /\ text[p + 1] = "<" /\ text[p + 2] = "p" /\ text[p + 3] = ">"
         /\ ~IsSpace(p) /\ ~IsSpace(p + 1) /\ ~IsSpace(p + 2)
<1>1. Len(text) \in Nat
  BY LenProperties
<1>2. PICK i \in Nat, j \in Nat : i = p + 1 /\ j = p + 3
  OBVIOUS
<1>3. \A k \in 1..3 : SubSeq(text, i, j)[k] = text[i + k - 1]
  BY <1>1, <1>2
<1>4. Break[1] = "<" /\ Break[2] = "p" /\ Break[3] = ">"
  BY DEF Break
<1>5. text[i + 1 - 1] = "<" /\ text[i + 2 - 1] = "p" /\ text[i + 3 - 1] = ">"
  BY <1>2, <1>3, <1>4
<1>6. i + 1 - 1 = p + 1 /\ i + 2 - 1 = p + 2 /\ i + 3 - 1 = p + 3
  BY <1>2
<1>7. text[p + 1] = "<" /\ text[p + 2] = "p" /\ text[p + 3] = ">"
  BY <1>5, <1>6
<1>8. (p + 1) + 1 = p + 2 /\ (p + 2) + 1 = p + 3
  OBVIOUS
<1> QED
  BY <1>7, <1>8 DEF IsSpace, Space

(* What a turn of the loop finds: the last space up to pos.                *)
LEMMA WordBreakFacts ==
  ASSUME FullInv, pc = "scan", pos < Len(text)
  PROVE  /\ WordBreak \in 0..pos /\ IsSpace(WordBreak)
         /\ \A p \in (WordBreak + 1)..pos : ~IsSpace(p)
         /\ Len(text) \in Nat /\ pos \in Nat
<1>0. Typed /\ TypeOK /\ TextInv /\ ScanInv
  BY DEF FullInv, Inv
<1>1. Len(text) \in Nat /\ pos \in Nat /\ wb \in Int
  BY <1>0, LenProperties DEF Typed, TypeOK
<1>2. /\ text # <<>> /\ wb < pos
      /\ wb = -1 => pos = 0
      /\ wb # -1 => IsSpace(wb)
      /\ \A p \in (wb + 1)..(pos - 1) : ~IsSpace(p)
  BY <1>0 DEF ScanInv
<1>3. IsSpace(0)
  BY <1>0, <1>2 DEF TextInv
<1>4. CASE IsSpace(pos)
  <2>1. WordBreak = pos
    BY <1>4 DEF WordBreak, IsSpace
  <2> QED
    BY <1>1, <1>4, <2>1
<1>5. CASE ~IsSpace(pos)
  <2>1. WordBreak = wb
    BY <1>5 DEF WordBreak, IsSpace
  <2>2. pos # 0
    BY <1>3, <1>5
  <2>3. wb # -1 /\ wb \in -1..Len(text)
    BY <1>0, <1>2, <2>2 DEF TypeOK
  <2>4. \A p \in (wb + 1)..pos : p = pos \/ p \in (wb + 1)..(pos - 1)
    BY <1>1
  <2>5. wb \in 0..pos
    BY <1>1, <1>2, <2>3
  <2> QED
    BY <1>1, <1>2, <1>5, <2>1, <2>3, <2>4, <2>5
<1> QED
  BY <1>4, <1>5

(* When the line is full, the last space lies behind where the last line   *)
(* stopped and not before where this one starts.                           *)
LEMMA FullFacts ==
  ASSUME FullInv, pc = "scan", pos < Len(text), IsFull
  PROVE  pos = stop + Width + 1 /\ stop < WordBreak /\ start <= WordBreak
<1>0. /\ Width \in Nat \ {0}
      /\ Typed /\ TypeOK /\ TextInv /\ BreaksInv /\ ScanInv
  BY SegmentsAssumption, Zenon DEF FullInv, Inv
<1>1. /\ WordBreak \in 0..pos /\ IsSpace(WordBreak)
      /\ \A p \in (WordBreak + 1)..pos : ~IsSpace(p)
      /\ Len(text) \in Nat /\ pos \in Nat
  BY WordBreakFacts
<1>2. stop \in Nat /\ start \in Nat
  BY <1>0, <1>1 DEF TypeOK
<1>3. pos = stop + Width + 1
  BY <1>0, <1>1, <1>2 DEF IsFull, ScanInv
<1>4. stop < WordBreak
  <2>1. stop + 1 \in 0..(Len(text) - Width - 1)
    BY <1>0, <1>1, <1>2, <1>3
  <2>2. PICK p \in (stop + 1)..(stop + 1 + Width) : IsSpace(p)
    BY <1>0, <2>1 DEF TextInv
  <2>3. ~(p \in (WordBreak + 1)..pos)
    BY <1>1, <2>2
  <2>4. p \in Int /\ p >= stop + 1 /\ p <= pos
    BY <1>0, <1>2, <1>3
  <2> QED
    BY <1>1, <1>2, <2>3, <2>4
<1>5. start <= WordBreak
  <2>1. CASE segs = <<>> /\ stop = 0 /\ start = 0
    BY <1>1, <2>1
  <2>2. CASE start = stop + 1
    BY <1>1, <1>2, <1>4, <2>2
  <2>3. CASE stop \in breaks /\ start = stop + 3
    <3>1. ~IsSpace(stop + 1) /\ ~IsSpace(stop + 2)
      BY <1>0, <1>2, <2>3, BreakFacts DEF BreaksInv, Typed
    <3>2. WordBreak # stop + 1 /\ WordBreak # stop + 2
      BY <1>1, <3>1
    <3> QED
      BY <1>1, <1>2, <1>4, <2>3, <3>2
  <2> QED
    BY <1>0, <2>1, <2>2, <2>3 DEF ScanInv
<1> QED
  BY <1>3, <1>4, <1>5

(* A break starts no earlier than the current line.                        *)
LEMMA BreakBehindStart ==
  ASSUME FullInv, pc = "scan", pos < Len(text), AtBreak
  PROVE  start <= pos /\ pos + 3 < Len(text)
<1>0. Typed /\ TypeOK /\ BreaksInv /\ ScanInv
  BY DEF FullInv, Inv
<1>1. Len(text) \in Nat /\ pos \in Nat /\ stop \in Nat /\ start \in Nat
  BY <1>0, LenProperties DEF Typed, TypeOK
<1>2. pos + 3 < Len(text) /\ SubSeq(text, pos + 1, pos + 3) = Break
  BY <1>0 DEF BreaksInv, AtBreak
<1>3. text[pos + 1] = "<"
  BY <1>0, <1>1, <1>2, BreakFacts DEF Typed
<1>4. CASE segs = <<>> /\ stop = 0 /\ start = 0
  BY <1>1, <1>2, <1>4
<1>5. CASE stop < pos /\ start = stop + 1
  BY <1>1, <1>2, <1>5
<1>6. CASE stop < pos /\ stop \in breaks /\ start = stop + 3
  <2>1. text[stop + 2] = "p" /\ text[stop + 3] = ">"
    BY <1>0, <1>1, <1>6, BreakFacts DEF BreaksInv, Typed
  <2>2. pos # stop + 1
    <3>1. SUFFICES ASSUME pos = stop + 1 PROVE FALSE
      OBVIOUS
    <3>2. pos + 1 = stop + 2
      BY <1>1, <3>1
    <3> QED
      BY <1>3, <2>1, <3>2
  <2>3. pos # stop + 2
    <3>1. SUFFICES ASSUME pos = stop + 2 PROVE FALSE
      OBVIOUS
    <3>2. pos + 1 = stop + 3
      BY <1>1, <3>1
    <3> QED
      BY <1>3, <2>1, <3>2
  <2> QED
    BY <1>1, <1>2, <1>6, <2>2, <2>3
<1> QED
  BY <1>0, <1>4, <1>5, <1>6 DEF ScanInv

LEMMA ScanOnInv == FullInv /\ ScanOn => FullInv'
<1> SUFFICES ASSUME FullInv, ScanOn PROVE FullInv'
  OBVIOUS
<1>0. /\ Width \in Nat \ {0}
      /\ Typed /\ TypeOK /\ TextInv /\ BreaksInv /\ ScanInv /\ LinesFit /\ CountInv
  BY SegmentsAssumption, Zenon DEF FullInv, Inv
<1>1. /\ pc = "scan" /\ pc' = "scan" /\ pos < Len(text) /\ ~AtBreak /\ ~IsFull
      /\ wb' = WordBreak /\ pos' = pos + 1
      /\ UNCHANGED <<words, text, breaks, start, stop, segs>>
  BY DEF ScanOn
<1>2. /\ WordBreak \in 0..pos /\ IsSpace(WordBreak)
      /\ \A p \in (WordBreak + 1)..pos : ~IsSpace(p)
      /\ Len(text) \in Nat /\ pos \in Nat
  BY <1>1, WordBreakFacts
<1>3. stop \in Nat
  BY <1>0, <1>2 DEF TypeOK
<1>4. \A p : IsSpace(p)' <=> IsSpace(p)
  BY <1>1 DEF IsSpace
<1>5. Typed' /\ LinesFit' /\ RoomForLines'
  BY <1>0, <1>1 DEF Typed, LinesFit, RoomForLines
<1>6. TypeOK'
  <2>1. pos' \in 0..Len(text) /\ wb' \in -1..Len(text)
    BY <1>1, <1>2
  <2> QED
    BY <1>0, <1>1, <2>1 DEF TypeOK
<1>7. TextInv'
  BY <1>0, <1>1, <1>4 DEF TextInv
<1>8. BreaksInv'
  BY <1>0, <1>1 DEF BreaksInv
<1>9. ScanInv'
  <2>1. wb' < pos' /\ wb' # -1 /\ pos' - stop <= Width + 1
    BY <1>0, <1>1, <1>2, <1>3 DEF IsFull
  <2>2. pos' - 1 = pos
    BY <1>1, <1>2
  <2>3. \/ segs = <<>> /\ stop = 0 /\ start = 0
        \/ segs # <<>> /\ stop < pos' /\ start = stop + 1
        \/ segs # <<>> /\ stop < pos' /\ start = stop + 3 /\ stop \in breaks
    BY <1>0, <1>1, <1>2, <1>3 DEF ScanInv
  <2>4. text # <<>>
    BY <1>0, <1>1 DEF ScanInv
  <2> QED
    BY <1>1, <1>2, <1>4, <2>1, <2>2, <2>3, <2>4 DEF ScanInv
<1>10. CountInv'
  <2>1. Passed' = Passed
    <3>1. \A b \in breaks : b \in Int /\ b # pos
      BY <1>0, <1>1, <1>2 DEF TypeOK, AtBreak
    <3> QED
      BY <1>1, <1>2, <3>1 DEF Passed
  <2>2. FullLines' = FullLines
    BY <1>1, <2>1 DEF FullLines
  <2>3. PICK c \in 0..Len(text) :
          \/ FullLines <= 2 * c /\ c * (Width + 1) <= stop
          \/ /\ FullLines <= 2 * c - 1 /\ c * (Width + 1) <= pos
             /\ \A p \in (stop + 1)..(c * (Width + 1)) : p < Len(text) => ~IsSpace(p)
    BY <1>0, <1>1 DEF CountInv, Counted
  <2>4. PICK u \in Int : u = c * (Width + 1)
    BY <1>0
  <2>5. u <= pos => u <= pos'
    BY <1>1, <1>2
  <2>6. \/ FullLines' <= 2 * c /\ c * (Width + 1) <= stop'
        \/ /\ FullLines' <= 2 * c - 1 /\ c * (Width + 1) <= pos'
           /\ \A p \in (stop' + 1)..(c * (Width + 1)) : p < Len(text') => ~IsSpace(p)'
    BY <1>1, <1>4, <2>2, <2>3, <2>4, <2>5
  <2>7. 0 <= FullLines'
    BY <1>0, <1>1, <2>2 DEF CountInv
  <2> QED
    BY <1>1, <2>6, <2>7 DEF CountInv, Counted
<1> QED
  BY <1>5, <1>6, <1>7, <1>8, <1>9, <1>10 DEF FullInv, Inv

(* A line more, of the width it has room for.                              *)
LEMMA AddLine ==
  ASSUME segs \in Seq(Seq(Letter)), LinesFit, NEW line \in Seq(Letter),
         Len(line) <= IF segs = <<>> THEN Width + 1 ELSE Width
  PROVE  /\ Append(segs, line) \in Seq(Seq(Letter))
         /\ Len(Append(segs, line)) = Len(segs) + 1
         /\ Append(segs, line) # <<>>
         /\ \A k \in 1..Len(Append(segs, line)) :
              Len(Append(segs, line)[k]) <= IF k = 1 THEN Width + 1 ELSE Width
<1>1. PICK n \in Nat : n = Len(segs)
  BY LenProperties
<1>2. PICK r : r = Append(segs, line)
  OBVIOUS
<1>3. /\ r \in Seq(Seq(Letter)) /\ Len(r) = n + 1
      /\ \A k \in 1..n : r[k] = segs[k]
      /\ r[n + 1] = line
  BY <1>1, <1>2, AppendProperties
<1>4. r # <<>>
  BY <1>3
<1>5. n = 0 <=> segs = <<>>
  BY <1>1, EmptySeq
<1>6. \A k \in 1..(n + 1) : Len(r[k]) <= IF k = 1 THEN Width + 1 ELSE Width
  <2> SUFFICES ASSUME NEW k \in 1..(n + 1)
               PROVE  Len(r[k]) <= IF k = 1 THEN Width + 1 ELSE Width
    OBVIOUS
  <2>1. CASE k \in 1..n
    BY <1>1, <1>3, <2>1 DEF LinesFit
  <2>2. CASE k = n + 1
    <3>1. r[k] = line /\ (k = 1 <=> segs = <<>>)
      BY <1>3, <1>5, <2>2
    <3> QED
      BY <3>1
  <2> QED
    BY <2>1, <2>2
<1> QED
  BY <1>1, <1>2, <1>3, <1>4, <1>6

(* After a line was stored in the loop, by its number.                     *)
LEMMA StoredLines ==
  ASSUME Typed', TypeOK', Counted',
         pc' = IF Len(segs') > LineRoom THEN "linesfull" ELSE "scan"
  PROVE  RoomForLines'
<1>1. (Typed /\ TypeOK /\ Counted =>
         Len(segs) <= 2 * Cardinality(breaks) + 2 * (Len(text) \div (Width + 1)))'
  BY FewLines, PTL
<1>2. Len(segs') <= 2 * Cardinality(breaks') + 2 * (Len(text') \div (Width + 1))
  BY <1>1
<1>3. Len(segs') \in Nat /\ LineRoom \in Nat /\ Width + 1 \in Nat \ {0}
  BY SegmentsAssumption, LenProperties DEF Typed
<1>4. Cardinality(breaks') \in Nat /\ Len(text') \in Nat
  <2>1. (TypeOK /\ text \in Seq(Letter) => Cardinality(breaks) \in Nat)'
    BY PassedFacts, PTL
  <2> QED
    BY <2>1, LenProperties DEF Typed
<1>5. Len(text') \div (Width + 1) \in Int
  BY <1>3, <1>4
<1>6. Len(segs') > LineRoom => MostLines' > LineRoom
  BY <1>2, <1>3, <1>4, <1>5 DEF MostLines
<1> QED
  BY <1>6 DEF RoomForLines

LEMMA EndLineInv == FullInv /\ EndLine => FullInv'
<1> SUFFICES ASSUME FullInv, EndLine PROVE FullInv'
  OBVIOUS
<1>0. /\ Width \in Nat \ {0}
      /\ Typed /\ TypeOK /\ TextInv /\ BreaksInv /\ ScanInv /\ LinesFit /\ CountInv
  BY SegmentsAssumption, Zenon DEF FullInv, Inv
<1>1. /\ pc = "scan" /\ pos < Len(text) /\ ~AtBreak /\ IsFull
      /\ pc' = IF Len(segs') > LineRoom THEN "linesfull" ELSE "scan"
      /\ wb' = WordBreak /\ stop' = WordBreak
      /\ segs' = Append(segs, Substring(start, WordBreak - start))
      /\ start' = WordBreak + 1
      /\ pos' = pos + 1
      /\ UNCHANGED <<words, text, breaks>>
  BY DEF EndLine, EndLineAt, Stored
<1>2. /\ WordBreak \in 0..pos /\ IsSpace(WordBreak)
      /\ \A p \in (WordBreak + 1)..pos : ~IsSpace(p)
      /\ Len(text) \in Nat /\ pos \in Nat
  BY <1>1, WordBreakFacts
<1>3. pos = stop + Width + 1 /\ stop < WordBreak /\ start <= WordBreak
  BY <1>1, FullFacts
<1>4. stop \in Nat /\ start \in 0..Len(text)
  BY <1>0, <1>2 DEF TypeOK
<1>5. \A p : IsSpace(p)' <=> IsSpace(p)
  BY <1>1 DEF IsSpace
<1>6. PICK line : line = Substring(start, WordBreak - start)
  OBVIOUS
<1>7. line \in Seq(Letter) /\ Len(line) = WordBreak - start
  <2>1. WordBreak - start \in Nat /\ start + (WordBreak - start) <= Len(text)
    BY <1>1, <1>2, <1>3, <1>4
  <2>2. text \in Seq(Letter)
    BY <1>0 DEF Typed
  <2> QED
    BY <1>4, <1>6, <2>1, <2>2, SubstringFacts
<1>8. Len(line) <= IF segs = <<>> THEN Width + 1 ELSE Width
  <2>1. CASE segs = <<>>
    <3>1. stop = 0 /\ start = 0
      BY <1>0, <1>1, <2>1 DEF ScanInv
    <3> QED
      BY <1>0, <1>2, <1>3, <1>7, <2>1, <3>1
  <2>2. CASE segs # <<>>
    <3>1. start >= stop + 1
      BY <1>0, <1>1, <1>4, <2>2 DEF ScanInv
    <3> QED
      BY <1>0, <1>2, <1>3, <1>4, <1>7, <2>2, <3>1
  <2> QED
    BY <2>1, <2>2
<1>9. segs' = Append(segs, line)
  BY <1>1, <1>6
<1>10. /\ segs' \in Seq(Seq(Letter)) /\ Len(segs') = Len(segs) + 1 /\ segs' # <<>>
       /\ \A k \in 1..Len(segs') : Len(segs'[k]) <= IF k = 1 THEN Width + 1 ELSE Width
  BY <1>0, <1>7, <1>8, <1>9, AddLine DEF Typed
<1>11. Typed' /\ LinesFit'
  BY <1>0, <1>1, <1>10 DEF Typed, LinesFit
<1>12. TypeOK'
  <2>1. /\ pos' \in 0..Len(text) /\ wb' \in -1..Len(text)
        /\ start' \in 0..Len(text) /\ stop' \in 0..Len(text)
    BY <1>1, <1>2
  <2> QED
    BY <1>0, <1>1, <2>1 DEF TypeOK
<1>13. TextInv' /\ BreaksInv'
  BY <1>0, <1>1, <1>5 DEF TextInv, BreaksInv
<1>14. ScanInv'
  <2>1. wb' < pos' /\ wb' # -1 /\ pos' - stop' <= Width + 1 /\ pos' - 1 = pos /\ stop' < pos'
    BY <1>0, <1>1, <1>2, <1>3, <1>4
  <2>2. text # <<>>
    BY <1>0, <1>1 DEF ScanInv
  <2> QED
    BY <1>1, <1>2, <1>5, <1>10, <2>1, <2>2 DEF ScanInv
<1>15. 0 <= FullLines' /\ Counted'
  <2>1. Passed' = Passed
    <3>1. \A b \in breaks : b \in Int /\ b # pos
      BY <1>0, <1>1, <1>2 DEF TypeOK, AtBreak
    <3> QED
      BY <1>1, <1>2, <3>1 DEF Passed
  <2>2. FullLines' = FullLines + 1 /\ FullLines \in Int
    <3>1. Cardinality(Passed) \in Nat /\ Len(segs) \in Nat
      BY <1>0, PassedFacts, LenProperties DEF Typed
    <3>2. Cardinality(Passed)' = Cardinality(Passed)
      BY <2>1
    <3> QED
      BY <1>10, <3>1, <3>2 DEF FullLines
  <2>3. PICK c \in 0..Len(text) :
          \/ FullLines <= 2 * c /\ c * (Width + 1) <= stop
          \/ /\ FullLines <= 2 * c - 1 /\ c * (Width + 1) <= pos
             /\ \A p \in (stop + 1)..(c * (Width + 1)) : p < Len(text) => ~IsSpace(p)
    BY <1>0, <1>1 DEF CountInv, Counted
  <2>4. PICK u \in Nat : u = c * (Width + 1)
    BY <1>0, <1>2
  <2>0. 0 <= FullLines'
    BY <1>0, <1>1, <2>2 DEF CountInv
  <2>5. CASE FullLines <= 2 * c /\ u <= stop
    <3>1. (c + 1) * (Width + 1) = u + (Width + 1) /\ u >= c
      BY <1>0, <1>2, <2>4
    <3>2. PICK v \in Nat : v = u + (Width + 1)
      BY <1>0
    <3>3. v <= pos /\ c + 1 <= v
      BY <1>0, <1>2, <1>3, <1>4, <2>5, <3>1, <3>2
    <3>4. c + 1 \in 0..Len(text)
      BY <1>1, <1>2, <3>3
    <3>5. FullLines' <= 2 * (c + 1) - 1 /\ v <= pos'
      BY <1>1, <1>2, <2>2, <2>5, <3>3
    <3>6. \A p \in (stop' + 1)..v : ~IsSpace(p)
      <4>1. \A p \in (stop' + 1)..v : p \in (WordBreak + 1)..pos
        BY <1>1, <1>2, <3>3
      <4> QED
        BY <1>2, <4>1
    <3>7. (c + 1) * (Width + 1) = v
      BY <3>1, <3>2
    <3>8. \A p \in (stop' + 1)..((c + 1) * (Width + 1)) : ~IsSpace(p)'
      BY <1>5, <3>6, <3>7
    <3> QED
      BY <1>1, <2>0, <3>4, <3>5, <3>7, <3>8 DEF Counted
  <2>6. CASE /\ FullLines <= 2 * c - 1 /\ u <= pos
             /\ \A p \in (stop + 1)..u : p < Len(text) => ~IsSpace(p)
    <3>1. ~(WordBreak \in (stop + 1)..u)
      BY <1>1, <1>2, <2>6
    <3>2. u <= stop'
      BY <1>1, <1>2, <1>3, <1>4, <3>1
    <3>3. FullLines' <= 2 * c
      BY <1>2, <2>2, <2>6
    <3> QED
      BY <1>1, <2>0, <2>4, <3>2, <3>3 DEF Counted
  <2> QED
    BY <2>3, <2>4, <2>5, <2>6
<1>16. CountInv' /\ RoomForLines'
  BY <1>1, <1>11, <1>12, <1>15, StoredLines DEF CountInv
<1> QED
  BY <1>11, <1>12, <1>13, <1>14, <1>16 DEF FullInv, Inv

(* An empty line is never too wide.                                        *)
LEMMA AddEmptyLine ==
  ASSUME NEW r \in Seq(Seq(Letter)),
         \A k \in 1..Len(r) : Len(r[k]) <= IF k = 1 THEN Width + 1 ELSE Width
  PROVE  /\ Append(r, <<>>) \in Seq(Seq(Letter))
         /\ Len(Append(r, <<>>)) = Len(r) + 1
         /\ Append(r, <<>>) # <<>>
         /\ \A k \in 1..Len(Append(r, <<>>)) :
              Len(Append(r, <<>>)[k]) <= IF k = 1 THEN Width + 1 ELSE Width
<1>1. PICK n \in Nat : n = Len(r)
  BY LenProperties
<1>2. PICK q : q = Append(r, <<>>)
  OBVIOUS
<1>3. PICK e \in Seq(Letter) : e = <<>> /\ Len(e) = 0
  <2>1. <<>> \in Seq(Letter) /\ Len(<<>>) = 0
    BY EmptySeq
  <2> QED
    BY <2>1
<1>4. /\ q \in Seq(Seq(Letter)) /\ Len(q) = n + 1
      /\ \A k \in 1..n : q[k] = r[k]
      /\ q[n + 1] = e
  BY <1>1, <1>2, <1>3, AppendProperties
<1>5. q # <<>>
  BY <1>4
<1>6. \A k \in 1..(n + 1) : Len(q[k]) <= IF k = 1 THEN Width + 1 ELSE Width
  <2> SUFFICES ASSUME NEW k \in 1..(n + 1)
               PROVE  Len(q[k]) <= IF k = 1 THEN Width + 1 ELSE Width
    OBVIOUS
  <2>1. CASE k \in 1..n
    BY <1>1, <1>4, <2>1
  <2>2. CASE k = n + 1
    <3>1. Len(q[k]) = 0
      BY <1>3, <1>4, <2>2
    <3> QED
      BY <3>1, SegmentsAssumption
  <2> QED
    BY <2>1, <2>2
<1> QED
  BY <1>1, <1>2, <1>4, <1>5, <1>6

LEMMA EndParagraphInv == FullInv /\ EndParagraph => FullInv'
<1> SUFFICES ASSUME FullInv, EndParagraph PROVE FullInv'
  OBVIOUS
<1>0. /\ Width \in Nat \ {0}
      /\ Typed /\ TypeOK /\ TextInv /\ BreaksInv /\ ScanInv /\ LinesFit /\ CountInv
  BY SegmentsAssumption, Zenon DEF FullInv, Inv
<1>1. /\ pc = "scan" /\ pos < Len(text) /\ AtBreak
      /\ pc' = IF Len(segs') > LineRoom THEN "linesfull" ELSE "scan"
      /\ wb' = WordBreak /\ stop' = pos
      /\ segs' = segs \o <<Substring(start, pos - start), <<>>>>
      /\ start' = pos + 3
      /\ pos' = pos + 1
      /\ UNCHANGED <<words, text, breaks>>
  BY DEF EndParagraph, EndParagraphAt, Stored
<1>2. /\ WordBreak \in 0..pos /\ IsSpace(WordBreak)
      /\ \A p \in (WordBreak + 1)..pos : ~IsSpace(p)
      /\ Len(text) \in Nat /\ pos \in Nat
  BY <1>1, WordBreakFacts
<1>3. start <= pos /\ pos + 3 < Len(text)
  BY <1>1, BreakBehindStart
<1>4. stop \in Nat /\ start \in 0..Len(text)
  BY <1>0, <1>2 DEF TypeOK
<1>5. \A p : IsSpace(p)' <=> IsSpace(p)
  BY <1>1 DEF IsSpace
<1>6. PICK line : line = Substring(start, pos - start)
  OBVIOUS
<1>7. line \in Seq(Letter) /\ Len(line) = pos - start
  <2>1. pos - start \in Nat /\ start + (pos - start) <= Len(text)
    BY <1>2, <1>3, <1>4
  <2>2. text \in Seq(Letter)
    BY <1>0 DEF Typed
  <2> QED
    BY <1>4, <1>6, <2>1, <2>2, SubstringFacts
<1>8. Len(line) <= IF segs = <<>> THEN Width + 1 ELSE Width
  <2>1. pos - stop <= Width + 1
    BY <1>0, <1>1 DEF ScanInv
  <2>2. CASE segs = <<>>
    <3>1. stop = 0 /\ start = 0
      BY <1>0, <1>1, <2>2 DEF ScanInv
    <3> QED
      BY <1>0, <1>2, <1>7, <2>1, <2>2, <3>1
  <2>3. CASE segs # <<>>
    <3>1. start >= stop + 1
      BY <1>0, <1>1, <1>4, <2>3 DEF ScanInv
    <3> QED
      BY <1>0, <1>2, <1>4, <1>7, <2>1, <2>3, <3>1
  <2> QED
    BY <2>2, <2>3
<1>9. PICK r \in Seq(Seq(Letter)) :
         /\ r = Append(segs, line) /\ Len(r) = Len(segs) + 1
         /\ \A k \in 1..Len(r) : Len(r[k]) <= IF k = 1 THEN Width + 1 ELSE Width
  BY <1>0, <1>7, <1>8, AddLine DEF Typed
<1>10. segs' = Append(r, <<>>)
  <2>1. segs' = segs \o <<line, <<>>>>
    BY <1>1, <1>6
  <2>2. segs \in Seq(Seq(Letter)) /\ line \in Seq(Letter) /\ <<>> \in Seq(Letter)
    BY <1>0, <1>7 DEF Typed
  <2>3. segs \o <<line, <<>>>> = Append(Append(segs, line), <<>>)
    BY <2>2
  <2> QED
    BY <1>9, <2>1, <2>3
<1>11. /\ segs' \in Seq(Seq(Letter)) /\ Len(segs') = Len(r) + 1 /\ segs' # <<>>
       /\ \A k \in 1..Len(segs') : Len(segs'[k]) <= IF k = 1 THEN Width + 1 ELSE Width
  BY <1>9, <1>10, AddEmptyLine
<1>12. Typed' /\ LinesFit'
  BY <1>0, <1>1, <1>11 DEF Typed, LinesFit
<1>13. TypeOK'
  <2>1. /\ pos' \in 0..Len(text) /\ wb' \in -1..Len(text)
        /\ start' \in 0..Len(text) /\ stop' \in 0..Len(text)
    BY <1>1, <1>2, <1>3
  <2> QED
    BY <1>0, <1>1, <2>1 DEF TypeOK
<1>14. TextInv' /\ BreaksInv'
  BY <1>0, <1>1, <1>5 DEF TextInv, BreaksInv
<1>15. ScanInv'
  <2>1. wb' < pos' /\ wb' # -1 /\ pos' - stop' <= Width + 1 /\ pos' - 1 = pos /\ stop' < pos'
    BY <1>0, <1>1, <1>2
  <2>2. text # <<>>
    BY <1>0, <1>1 DEF ScanInv
  <2>3. stop' \in breaks /\ start' = stop' + 3
    BY <1>1 DEF AtBreak
  <2> QED
    BY <1>1, <1>2, <1>5, <1>11, <2>1, <2>2, <2>3 DEF ScanInv
<1>16. 0 <= FullLines' /\ Counted'
  <2>1. Passed' = Passed \cup {pos}
    <3>1. \A b \in breaks : b < pos + 1 <=> b < pos \/ b = pos
      BY <1>0, <1>2 DEF TypeOK
    <3>2. Passed' = {b \in breaks : b < pos + 1} /\ pos \in breaks
      BY <1>1 DEF Passed, AtBreak
    <3> QED
      BY <3>1, <3>2 DEF Passed
  <2>2. FullLines' = FullLines /\ FullLines \in Int
    <3>1. /\ IsFiniteSet(Passed) /\ Cardinality(Passed) \in Nat /\ pos \notin Passed
          /\ Len(segs) \in Nat
      BY <1>0, PassedFacts, LenProperties DEF Typed
    <3>2. Cardinality(Passed)' = Cardinality(Passed) + 1
      BY <2>1, <3>1, FS_AddElement
    <3>3. Len(segs') = Len(segs) + 2
      BY <1>9, <1>11, <3>1
    <3> QED
      BY <3>1, <3>2, <3>3 DEF FullLines
  <2>3. PICK c \in 0..Len(text) :
          \/ FullLines <= 2 * c /\ c * (Width + 1) <= stop
          \/ FullLines <= 2 * c - 1 /\ c * (Width + 1) <= pos
    BY <1>0, <1>1 DEF CountInv, Counted
  <2>4. PICK u \in Nat : u = c * (Width + 1)
    BY <1>0, <1>2
  <2>5. stop <= pos
    <3>1. stop = 0 \/ stop < pos
      BY <1>0, <1>1 DEF ScanInv
    <3> QED
      BY <1>2, <1>4, <3>1
  <2>6. FullLines' <= 2 * c /\ u <= stop'
    BY <1>1, <1>2, <1>4, <2>2, <2>3, <2>4, <2>5
  <2>7. 0 <= FullLines'
    BY <1>0, <1>1, <2>2 DEF CountInv
  <2> QED
    BY <1>1, <2>4, <2>6, <2>7 DEF Counted
<1>17. CountInv' /\ RoomForLines'
  BY <1>1, <1>12, <1>13, <1>16, StoredLines DEF CountInv
<1> QED
  BY <1>12, <1>13, <1>14, <1>15, <1>17 DEF FullInv, Inv

LEMMA LastLineInv == FullInv /\ LastLine => FullInv'
<1> SUFFICES ASSUME FullInv, LastLine PROVE FullInv'
  OBVIOUS
<1>0. /\ Width \in Nat \ {0}
      /\ Typed /\ TypeOK /\ TextInv /\ BreaksInv /\ ScanInv /\ LinesFit /\ CountInv
  BY SegmentsAssumption, Zenon DEF FullInv, Inv
<1>1. /\ pc = "scan" /\ pos = Len(text)
      /\ pc' = IF Len(segs') > LineRoom THEN "linesfull" ELSE "done"
      /\ segs' = Append(segs, Substring(start, Len(text) - start))
      /\ UNCHANGED <<words, text, breaks, pos, wb, start, stop>>
  BY DEF LastLine, Stored
<1>2. Len(text) \in Nat /\ stop \in Nat /\ start \in 0..Len(text)
  BY <1>0, LenProperties DEF Typed, TypeOK
<1>3. PICK line : line = Substring(start, Len(text) - start)
  OBVIOUS
<1>4. line \in Seq(Letter) /\ Len(line) = Len(text) - start
  <2>1. Len(text) - start \in Nat /\ start + (Len(text) - start) <= Len(text)
    BY <1>2
  <2>2. text \in Seq(Letter)
    BY <1>0 DEF Typed
  <2> QED
    BY <1>2, <1>3, <2>1, <2>2, SubstringFacts
<1>5. Len(line) <= IF segs = <<>> THEN Width + 1 ELSE Width
  <2>1. pos - stop <= Width + 1
    BY <1>0, <1>1 DEF ScanInv
  <2>2. CASE segs = <<>>
    <3>1. stop = 0 /\ start = 0
      BY <1>0, <1>1, <2>2 DEF ScanInv
    <3> QED
      BY <1>0, <1>1, <1>2, <1>4, <2>1, <2>2, <3>1
  <2>3. CASE segs # <<>>
    <3>1. start >= stop + 1
      BY <1>0, <1>1, <1>2, <2>3 DEF ScanInv
    <3> QED
      BY <1>0, <1>1, <1>2, <1>4, <2>1, <2>3, <3>1
  <2> QED
    BY <2>2, <2>3
<1>6. segs' = Append(segs, line)
  BY <1>1, <1>3
<1>7. /\ segs' \in Seq(Seq(Letter)) /\ Len(segs') = Len(segs) + 1
      /\ \A k \in 1..Len(segs') : Len(segs'[k]) <= IF k = 1 THEN Width + 1 ELSE Width
  BY <1>0, <1>4, <1>5, <1>6, AddLine DEF Typed
<1>8. Typed' /\ LinesFit'
  BY <1>0, <1>1, <1>7 DEF Typed, LinesFit
<1>9. TypeOK' /\ TextInv' /\ BreaksInv'
  BY <1>0, <1>1 DEF TypeOK, TextInv, BreaksInv, IsSpace
<1>10. ScanInv' /\ CountInv'
  BY <1>1 DEF ScanInv, CountInv
<1>11. RoomForLines'
  <2>1. Len(segs) <= 2 * Cardinality(breaks) + 2 * (Len(text) \div (Width + 1))
    BY <1>0, <1>1, FewLines DEF CountInv
  <2>2. /\ Cardinality(breaks) \in Nat /\ Len(segs) \in Nat /\ LineRoom \in Nat
        /\ Len(text) \div (Width + 1) \in Int
    BY <1>0, <1>2, PassedFacts, LenProperties, SegmentsAssumption DEF Typed
  <2>3. Len(segs') > LineRoom => MostLines' > LineRoom
    BY <1>1, <1>7, <2>1, <2>2 DEF MostLines
  <2>4. Passed = breaks
    BY <1>0, <1>1, PassedFacts DEF Typed, BreaksInv
  <2>5. 2 * Cardinality(breaks) <= Len(segs)
    BY <1>0, <1>1, <2>2, <2>4 DEF CountInv, FullLines
  <2>6. ~(Len(segs') > LineRoom) => 1 + 2 * Cardinality(breaks') <= LineRoom
    BY <1>1, <1>7, <2>2, <2>5
  <2> QED
    BY <1>1, <2>3, <2>6 DEF RoomForLines
<1> QED
  BY <1>8, <1>9, <1>10, <1>11 DEF FullInv, Inv

LEMMA StepInv == FullInv /\ [Split]_vars => FullInv'
<1> SUFFICES ASSUME FullInv, [Split]_vars PROVE FullInv'
  OBVIOUS
<1>1. CASE UNCHANGED vars
  <2>1. UNCHANGED <<words, text, breaks, pos, wb, start, stop, segs, pc>>
    BY <1>1 DEF vars
  <2>2. Passed' = Passed
    BY <2>1 DEF Passed
  <2>3. FullLines' = FullLines
    BY <2>1, <2>2 DEF FullLines
  <2>4. Typed' /\ TypeOK' /\ TextInv' /\ BreaksInv'
    BY <2>1 DEF FullInv, Inv, Typed, TypeOK, TextInv, BreaksInv, IsSpace
  <2>5. ScanInv' /\ LinesFit'
    BY <2>1 DEF FullInv, Inv, ScanInv, LinesFit, IsSpace
  <2>6. CountInv'
    BY <2>1, <2>3 DEF FullInv, Inv, CountInv, Counted, IsSpace
  <2>7. RoomForLines'
    BY <2>1 DEF FullInv, Inv, RoomForLines, MostLines
  <2> QED
    BY <2>4, <2>5, <2>6, <2>7 DEF FullInv, Inv
<1>2. CASE Split
  BY <1>2, TakeWordInv, BlankSegInv, FindBreaksInv, ScanOnInv, EndLineInv,
     EndParagraphInv, LastLineInv DEF Split
<1> QED
  BY <1>1, <1>2

(* The inductive invariant: where the pass stands between the last space,  *)
(* the start of the line and the last stop, and how many lines that allows *)
(* (string_utils.c:258-428).                                               *)
THEOREM Invariant == Spec => []FullInv
<1> QED
  BY InitInv, StepInv, PTL DEF Spec

(* No pointer leaves the buffer, whatever the words and the width.         *)
THEOREM PointersInside == Spec => []TypeOK
<1>1. FullInv => TypeOK
  BY DEF FullInv, Inv
<1> QED
  BY <1>1, Invariant, PTL

(* Every line fits the window, whatever the words and the width.           *)
THEOREM EveryLineFits == Spec => []LinesFit
<1>1. FullInv => LinesFit
  BY DEF FullInv, Inv
<1> QED
  BY <1>1, Invariant, PTL

(* A text is written behind the end of the array of lines only if it is    *)
(* too long for it, by 1 + 2 b + 2 (n \div (w + 1)) for n characters and b  *)
(* breaks in lines of w; and it is never cut to the end with more breaks   *)
(* than half the array (string_utils.c:336, 391, 399, 417).                *)
THEOREM LinesHaveRoom == Spec => []RoomForLines
<1>1. FullInv => RoomForLines
  BY DEF FullInv, Inv
<1> QED
  BY <1>1, Invariant, PTL
=============================================================================
