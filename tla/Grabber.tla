------------------------------ MODULE Grabber ------------------------------
(***************************************************************************)
(* The article window of src/grabber.c: which part of the list is shown,   *)
(* which row of the screen is selected, what the search text is and which  *)
(* link 'o' would open, as the keys and the fetch thread change them.  Of  *)
(* the list itself (ArticleList) only the size matters here; it never      *)
(* shrinks.  Every article has a title, so that ArticleSize counts all of  *)
(* them.  A key's handler, and a fetch's refreshWin, are one step each;    *)
(* the list grows in steps of its own before a fetch's last refreshWin.    *)
(***************************************************************************)
EXTENDS Integers, Sequences

CONSTANTS Lines,    \* curses' LINES
          TextRoom, \* the bytes of searchText, 30
          Chars,    \* some characters that may be typed
          MaxSize   \* bound: the articles the server has

Nul == "nul"
Other == "other"    \* another byte, as the code of an arrow key leaves it

(* The window has room for at least one article, the text for its first    *)
(* value.                                                                  *)
ASSUME GrabberAssumption == /\ Lines \in Nat /\ Lines >= 12
                            /\ TextRoom \in Nat /\ TextRoom > 4
                            /\ Nul \notin Chars /\ Other \notin Chars
                            /\ MaxSize \in Nat

BORDER == 3

VARIABLES
  size,      \* ArticleSize(*master_list)
  selected,  \* the selected row of the screen
  start,     \* viewport.start, the articles scrolled off the top
  input,     \* inputmode
  fetching,  \* refreshLoop is in FetchArticles
  marked,    \* history: the article the last key marked, from 0, or None
  searchText,\* its bytes, numbered from 0
  typed,     \* history: the characters typed in the open search, less one
             \* for each backspace, or <<>> after a stray key
  stray,     \* history: a key with no character was pressed in the open search
  link,      \* currentLink: that of an article, from 0, or NoLink, or Wild
  mode       \* "keys": waiting for a key; "quit", "crashed", "nolink",
             \* "undefined"

vars == <<size, selected, start, input, fetching, marked, searchText, typed,
          stray, link, mode>>
textvars == <<searchText, typed, stray>>

Bytes == Chars \cup {Other, Nul}
Places == 0..(TextRoom - 1)
DropLast(s) == SubSeq(s, 1, Len(s) - 1)

None == -1
NoLink == -1     \* a null pointer
Wild == -2       \* allocated and never written

(* The list behind master_list has a first node even when its size is 0.   *)
NodesIn(n) == IF n = 0 THEN 1 ELSE n

Init == /\ size = 0
        /\ selected = BORDER + 1      \* after main's first refreshWin
        /\ start = 0
        /\ input = FALSE
        /\ fetching = FALSE
        /\ marked = None
        \* "None", in memory that was not cleared
        /\ \E rest \in [Places -> Bytes] :
             searchText = [k \in Places |-> IF k < 4 THEN Other
                                            ELSE IF k = 4 THEN Nul ELSE rest[k]]
        /\ typed = <<>> /\ stray = FALSE
        /\ link = NoLink              \* that first refreshWin returns early
        /\ mode = "keys"

FirstRow == BORDER + 1

(* refreshWin, with row selected, top articles scrolled off and n in the   *)
(* list: a row outside the list is replaced by the first.  Then it steps   *)
(* top times from the head and looks at the article it finds, and the      *)
(* footer remembers the link of an article, unless the row was in the      *)
(* border.                                                                 *)
Draw(row, top, n) ==
  /\ start' = top
  /\ selected' = IF row > BORDER /\ row <= n + BORDER THEN row ELSE FirstRow
  /\ link' = LET below == top + selected' - BORDER
             IN  IF row <= BORDER THEN link ELSE IF below < n THEN below ELSE Wild
  /\ mode' = IF row > BORDER /\ top > 0 /\ top >= NodesIn(n) THEN "crashed" ELSE "keys"

-----------------------------------------------------------------------------
(* The search text *)

Strlen(b) == CHOOSE n \in Places : b[n] = Nul /\ \A k \in 0..(n - 1) : b[k] # Nul

\* searchText[strlen(searchText)] = ch, and a null byte put the same way.
Appended(b, ch) == LET c == [b EXCEPT ![Strlen(b)] = ch]
                   IN  [c EXCEPT ![Strlen(c)] = Nul]

\* The loop of Enter and backspace, that clears from byte k to the last.
ClearedFrom(b, k) == [j \in Places |-> IF j >= k THEN Nul ELSE b[j]]

Cleared == [k \in Places |-> Nul]

(* A key comes.  While a search is open it is appended to the text first,  *)
(* whatever it does then.                                                  *)
Key == mode = "keys" /\ (input => Strlen(searchText) + 1 < TextRoom)

Typing(byte) ==
  IF input THEN /\ searchText' = Appended(searchText, byte)
                /\ stray' = (stray \/ byte \notin Chars)
                /\ typed' = IF stray' THEN <<>> ELSE Append(typed, byte)
  ELSE UNCHANGED textvars

TypingACharacter == \E ch \in Chars : Typing(ch)

(* The text has no room for the key and the byte that ends it.             *)
TextOverflows == /\ mode = "keys" /\ input /\ Strlen(searchText) + 1 >= TextRoom
                 /\ mode' = "undefined"
                 /\ UNCHANGED <<size, selected, start, input, fetching, marked,
                                textvars, link>>

-----------------------------------------------------------------------------
(* scrollAndAdjustViewPort.  Both ends are recognised by an equality.      *)
AtBottom  == selected + start = size + BORDER + 4
AtLastRow == Lines - BORDER - selected = 1

(* Mutant: no test for the end of the list.                                *)
ScrollDownOn == \/ AtLastRow /\ Draw(selected, start + 1, size)
                \/ ~AtLastRow /\ Draw(selected + 1, start, size)

ScrollDown == \/ AtBottom /\ Draw(selected, start, size)
              \/ ~AtBottom /\ AtLastRow /\ Draw(selected, start + 1, size)
              \/ ~AtBottom /\ ~AtLastRow /\ Draw(selected + 1, start, size)

AtTop      == selected + start = BORDER
AtFirstRow == BORDER - selected \in {0, -1}

(* Mutant: no test for the head of the list.                               *)
ScrollUpOn == \/ AtFirstRow /\ Draw(selected, start - 1, size)
              \/ ~AtFirstRow /\ Draw(selected - 1, start, size)

ScrollUp == \/ AtTop /\ Draw(selected, start, size)
            \/ ~AtTop /\ AtFirstRow /\ Draw(selected, start - 1, size)
            \/ ~AtTop /\ ~AtFirstRow /\ Draw(selected - 1, start, size)

KeyDown == /\ Key /\ Typing(Other)
           /\ ScrollDown
           /\ marked' = None /\ UNCHANGED <<size, input, fetching>>
KeyUp   == /\ Key /\ Typing(Other)
           /\ ScrollUp
           /\ marked' = None /\ UNCHANGED <<size, input, fetching>>

(* markSelectedChosen marks this article, if there is one.                 *)
Target == start + selected - BORDER

Space == /\ Key /\ TypingACharacter
         /\ marked' = IF Target \in 0..(NodesIn(size) - 1) THEN Target ELSE None
         /\ ScrollDown
         /\ UNCHANGED <<size, input, fetching>>

PageUp == /\ Key /\ Typing(Other)
          /\ Draw(BORDER + 1, start, size)
          /\ marked' = None
          /\ UNCHANGED <<size, input, fetching>>

(* Mutant: one row lower.                                                  *)
PageDownLower == /\ Key /\ Typing(Other)
                 /\ Draw(Lines - (2 * BORDER) + 3, start, size)
                 /\ marked' = None
                 /\ UNCHANGED <<size, input, fetching>>

PageDown == /\ Key /\ Typing(Other)
            /\ Draw(Lines - (2 * BORDER) + 2, start, size)
            /\ marked' = None
            /\ UNCHANGED <<size, input, fetching>>

(* 'R'                                                                     *)
ToTop == /\ Key /\ ~input
         /\ Draw(BORDER + 1, 0, size)
         /\ marked' = None
         /\ UNCHANGED <<size, input, fetching, textvars>>

(* 'M' draws the window again, with or without an empty one on it.         *)
Redraw == /\ Key /\ TypingACharacter
          /\ Draw(selected, start, size)
          /\ marked' = None
          /\ UNCHANGED <<size, input, fetching>>

(* 'o'.  A null link ends the program; what stands in one never written is *)
(* appended to the command, wherever it ends.                              *)
OpenLink == /\ Key /\ ~input
            /\ \/ link = NoLink /\ mode' = "nolink" /\ UNCHANGED <<selected, start, link>>
               \/ link = Wild /\ mode' = "undefined" /\ UNCHANGED <<selected, start, link>>
               \/ link # NoLink /\ Draw(selected, start, size)
            /\ marked' = None
            /\ UNCHANGED <<size, input, fetching, textvars>>

-----------------------------------------------------------------------------
(* The keys of a search *)

(* 's' or '/'                                                              *)
OpenSearch == /\ Key /\ ~input
              /\ input' = TRUE
              /\ searchText' = Cleared
              /\ typed' = <<>> /\ stray' = FALSE
              /\ Draw(selected, start, size)
              /\ marked' = None
              /\ UNCHANGED <<size, fetching>>

(* 'c'                                                                     *)
CancelSearch == /\ Key /\ ~input
                /\ searchText' = Cleared
                /\ Draw(selected, start, size)
                /\ marked' = None
                /\ UNCHANGED <<size, input, fetching, typed, stray>>

(* A key that does nothing else, 's', '/', 'c', 'o' and 'R' among them.    *)
JustType == \E byte \in Chars \cup {Other} :
              /\ Key /\ input
              /\ Typing(byte)
              /\ marked' = None
              /\ UNCHANGED <<size, selected, start, input, fetching, link, mode>>

(* A backspace clears the last byte, the one appended for the key itself,  *)
(* and then the last byte again.  On an empty text that is the byte in     *)
(* front of it, which may be harmless.                                     *)
LastCleared(b) == ClearedFrom(b, Strlen(b) - 1)

(* Mutant: the byte before the key's own stays.                            *)
BackspaceOnce == /\ Key /\ input
                 /\ searchText' = LastCleared(Appended(searchText, Other))
                 /\ typed' = DropLast(typed)
                 /\ marked' = None
                 /\ UNCHANGED <<size, selected, start, input, fetching, stray, link, mode>>

Backspace == /\ Key /\ input
             /\ LET b == LastCleared(Appended(searchText, Other))
                IN  searchText' = [b EXCEPT ![Strlen(b) - 1] = Nul]
             /\ typed' = DropLast(typed)
             /\ marked' = None
             /\ UNCHANGED <<size, selected, start, input, fetching, stray, link, mode>>

(* Enter clears the last byte, its own if a search is open, then searches  *)
(* and sorts the list in place.                                            *)
Enter == /\ Key
         /\ input' = FALSE
         /\ searchText' = LastCleared(IF input THEN Appended(searchText, Other) ELSE searchText)
         /\ typed' = <<>> /\ stray' = FALSE
         /\ Draw(selected, start, size)
         /\ marked' = None
         /\ UNCHANGED <<size, fetching>>

(* A backspace or, outside a search, Enter write in front of the text.     *)
TextUnderflows == /\ Key /\ Strlen(searchText) = 0
                  /\ mode' = "undefined"
                  /\ UNCHANGED <<size, selected, start, input, fetching, marked,
                                 textvars, link>>

(* The fetch thread looks at inputmode before it fetches, not after.       *)
FetchBegin == /\ mode = "keys" /\ ~fetching /\ ~input
              /\ fetching' = TRUE
              /\ Draw(selected, start, size)
              /\ marked' = None
              /\ UNCHANGED <<size, input, textvars>>

(* An article is appended to the list the keys work on or, the first time, *)
(* master_list comes to point to the list that was fetched.                *)
Grow == /\ mode = "keys" /\ fetching
        /\ size' \in (size + 1)..MaxSize
        /\ marked' = None
        /\ UNCHANGED <<selected, start, input, fetching, textvars, link, mode>>

(* Mutant: the window is not drawn again.                                  *)
FetchEndNotDrawn == /\ mode = "keys" /\ fetching
                    /\ fetching' = FALSE
                    /\ marked' = None
                    /\ UNCHANGED <<size, selected, start, input, textvars, link, mode>>

FetchEnd == /\ mode = "keys" /\ fetching
            /\ fetching' = FALSE
            /\ Draw(selected, start, size)
            /\ marked' = None
            /\ UNCHANGED <<size, input, textvars>>

(* KEY_RESIZE deletes the window and goes on drawing in it.                *)
Resize == /\ Key /\ Typing(Other)
          /\ mode' = "undefined"
          /\ UNCHANGED <<size, selected, start, input, fetching, marked, link>>

Quit == /\ mode = "keys"
        /\ mode' = "quit"
        /\ UNCHANGED <<size, selected, start, input, fetching, marked, textvars, link>>

Ended == mode # "keys" /\ UNCHANGED vars

Next == \/ KeyDown \/ KeyUp \/ Space \/ PageUp \/ PageDown \/ ToTop
        \/ Redraw \/ OpenLink
        \/ OpenSearch \/ CancelSearch \/ JustType \/ Backspace \/ Enter
        \/ TextOverflows \/ TextUnderflows
        \/ FetchBegin \/ Grow \/ FetchEnd
        \/ Resize \/ Quit \/ Ended

Spec == Init /\ [][Next]_vars

-----------------------------------------------------------------------------
TypeOK == /\ size \in 0..MaxSize
          /\ selected \in Nat
          /\ start \in -1..MaxSize
          /\ input \in BOOLEAN /\ fetching \in BOOLEAN
          /\ marked \in -1..MaxSize
          /\ searchText \in [Places -> Bytes]
          /\ typed \in Seq(Chars) /\ stray \in BOOLEAN
          /\ link \in -2..MaxSize
          /\ mode \in {"keys", "quit", "crashed", "nolink", "undefined"}

(* How far the window may be scrolled: the last row never goes more than   *)
(* four articles beyond the end of the list.                               *)
ScrollInv == start > 0 => start + Lines <= size + 2 * BORDER + 5

RowInv == /\ selected >= FirstRow
          /\ selected <= NodesIn(size) + BORDER
          /\ selected <= Lines - BORDER - 1

(* Buffer b is the string s, and cleared behind it.                        *)
Holds(b, s) == /\ Len(s) < TextRoom
               /\ \A k \in Places : b[k] = IF k < Len(s) THEN s[k + 1] ELSE Nul

TextInv == input /\ ~stray => Holds(searchText, typed)

(* The link, once there is one, is that of the article below the selected  *)
(* row; while a fetch appends, that article may have come since.           *)
LinkInv == \/ link = NoLink
           \/ link = Target /\ Target < size
           \/ link = Wild /\ (Target >= size \/ fetching)

Inv == TypeOK /\ ScrollInv /\ RowInv /\ TextInv /\ LinkInv /\ mode # "crashed"

-----------------------------------------------------------------------------
(* Properties *)

(* Both ends of the list are found with ==, and only scrolling tests them: *)
(* page keys, resets of the row and a growing list never carry the         *)
(* selection past one, from where it would never stop (grabber.c:366-398). *)
EndsAreNotJumped == /\ BORDER <= selected + start
                    /\ selected + start <= size + BORDER + 4

(* refreshWin's slide to the first article shown, which tests no pointer,  *)
(* stays on the list (grabber.c:502-512).                                  *)
SlideStaysOnTheList == mode # "crashed"

(* What Enter searches for is the characters typed since the search was    *)
(* opened, each backspace removing one, although every key is appended     *)
(* before it is looked at, and Enter and backspace have to take themselves *)
(* out again.  An arrow or a page key leaves a byte of its own, and then   *)
(* nothing is claimed (grabber.c:219-222, 301-327).                        *)
TheString(b) == [k \in 1..Strlen(b) |-> b[k - 1]]
SearchesWhatWasTyped ==
  [][input /\ ~input' /\ ~stray => TheString(searchText') = typed]_vars

(* The article on the selected row, when the row shows one: they are drawn *)
(* from the row below the border, the first of them at the viewport's      *)
(* start or, when that is -1, the head.                                    *)
Rows == IF Lines - 2 * BORDER - 5 > size THEN size ELSE Lines - 2 * BORDER - 5
First == IF start > 0 THEN start ELSE 0
Highlighted == First + selected - BORDER - 1
IsShown == selected - BORDER <= Rows /\ Highlighted < size

(* What 'o' opens is the article below the highlighted one, the one that   *)
(* the space key would mark, after any keys and fetches; never one that    *)
(* was there before.  It is uninitialised only where there was none at the *)
(* last redraw: on the last article, with an empty list, or while a fetch  *)
(* appends, which draws the window again at its end (grabber.c:101-118,    *)
(* 401-443).                                                               *)
OpensTheNextArticle ==
  /\ link \notin {NoLink, Wild} => link = Target /\ Target < size
  /\ link = Wild => Target >= size \/ fetching
  /\ link = Wild /\ IsShown /\ ~fetching => Highlighted = size - 1

(* The space key marks the article that is highlighted ("mark the selected *)
(* rows as being 'chosen'", grabber.c:70).                                 *)
SpaceMarksTheSelectedRow == [][Space /\ IsShown => marked' = Highlighted]_vars
=============================================================================
