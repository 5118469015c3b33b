----------------------------- MODULE Downloader -----------------------------
(***************************************************************************)
(* BuildTree of src/crs_tree_test.c with its worker (downloadSingleURL)    *)
(* and downloadURL of src/downloader.c: fetch a story and, depth first,    *)
(* every comment under it through the queue, keep the comments that have   *)
(* text in noderay, and link them into a tree.                             *)
(*                                                                         *)
(* There is one worker (NUMT is 1) and main waits for it, so a call on the *)
(* queue is one step on the stack that QueueProofs shows it to be.         *)
(***************************************************************************)
EXTENDS Integers, Sequences, FiniteSets

CONSTANTS Items,      \* the item ids of the server
          Root,       \* HN_ARTICLE, the story
          Stories,    \* the kids lists the server may hold, each [Items -> Seq(Items)]
          ArraySize   \* the length of noderay, 1000 in the code

(* What the code expects of the server: an item is listed as a kid once,   *)
(* and the story nowhere.                                                  *)
IsStory(k) ==
  /\ k \in [Items -> Seq(Items)]
  /\ \A p \in Items : \A i \in 1..Len(k[p]) : k[p][i] # Root
  /\ \A p, q \in Items : \A i \in 1..Len(k[p]), j \in 1..Len(k[q]) :
       k[p][i] = k[q][j] => p = q /\ i = j

ASSUME DownloaderAssumption == /\ Items \subseteq Nat \ {0}
                               /\ IsFiniteSet(Items)
                               /\ Root \in Items
                               /\ \A k \in Stories : IsStory(k)
                               /\ ArraySize \in Nat

VARIABLES
  kids, text,  \* the server: each item's kids, and whether it has a text
  stack,       \* args->queue, the tail last
  pc,          \* where the worker, then main, is
  tries,       \* downloadSingleURL's tries
  item, ki,    \* downloadURL's hnArticle and ki (from 1)
  noderay,     \* the first last_pushed_elem entries of args->noderay
  count,       \* *args->count
  children,    \* the tree: each node's children in order
  fetched,     \* history: the ids popped so far
  lost         \* history: the ids whose request failed

server == <<kids, text>>
history == <<fetched, lost>>
vars == <<kids, text, stack, pc, tries, item, ki, noderay, count,
          children, fetched, lost>>

Running == {"turn", "request", "kids", "joined"}
Stopped == {"built", "crashed", "overflow"}

NoItem == 0

(* The first time BuildTree has queued the story and started the worker.   *)
Init == /\ kids \in Stories
        /\ text \in [Items -> BOOLEAN]
        /\ stack = <<Root>>
        /\ pc = "turn"
        /\ tries = 3
        /\ item = NoItem
        /\ ki = 1
        /\ noderay = << >>
        /\ count = 0
        /\ children = [i \in Items |-> << >>]
        /\ fetched = {}
        /\ lost = {}

Elements(s) == {s[k] : k \in 1..Len(s)}

(* Mutant: a real queue, the new id at the other end.                      *)
PushedInFront(s, i) == IF i \in Elements(s) THEN s ELSE <<i>> \o s

(* QAppendItem: an id that is already queued is refused.                   *)
Pushed(s, i) == IF i \in Elements(s) THEN s ELSE Append(s, i)

(* QpopItem: the tail leaves the queue.                                    *)
Top(s)    == s[Len(s)]
Popped(s) == SubSeq(s, 1, Len(s) - 1)

(* The "parent" field of item i, 0 when it has none.                       *)
Parent(i) == IF \E p \in Items : i \in Elements(kids[p])
             THEN CHOOSE p \in Items : i \in Elements(kids[p])
             ELSE 0

-----------------------------------------------------------------------------
(* Mutant: every download uses up a try.                                   *)
PopUsesATry == /\ pc = "turn" /\ tries > 0
               /\ stack # << >>
               /\ tries' = tries - 1
               /\ item' = Top(stack)
               /\ stack' = Popped(stack)
               /\ fetched' = fetched \cup {item'}
               /\ pc' = "request"
               /\ UNCHANGED <<server, ki, noderay, count, children, lost>>

(* The inner loop: QSize says there is work, and downloadURL pops it.      *)
Pop == /\ pc = "turn" /\ tries > 0
       /\ stack # << >>
       /\ tries' = IF tries = 1 THEN 2 ELSE tries
       /\ item' = Top(stack)
       /\ stack' = Popped(stack)
       /\ fetched' = fetched \cup {item'}
       /\ pc' = "request"
       /\ UNCHANGED <<server, ki, noderay, count, children, lost>>

(* The queue is empty: one try less, and a second of sleep.                *)
Idle == /\ pc = "turn" /\ tries > 0
        /\ stack = << >>
        /\ tries' = tries - 1
        /\ UNCHANGED <<server, stack, pc, item, ki, noderay, count, children, history>>

(* Mutant: a failed item is queued again.                                  *)
RequestFailsRetries == /\ pc = "request"
                       /\ stack' = Pushed(stack, item)
                       /\ lost' = lost \cup {item}
                       /\ pc' = "turn"
                       /\ UNCHANGED <<server, tries, item, ki, noderay, count,
                                      children, fetched>>

(* curl_easy_perform fails, within its 5 seconds, or the reply is not      *)
(* JSON.  The popped id is gone, whatever tries is.                        *)
RequestFails == /\ pc = "request"
                /\ lost' = lost \cup {item}
                /\ pc' = "turn"
                /\ UNCHANGED <<server, stack, tries, item, ki, noderay, count,
                               children, fetched>>

(* The reply is "null", which the server says of an id it does not have:   *)
(* cJSON_GetObjectItem returns NULL and its valueint is read.              *)
NullReply == /\ pc = "request"
             /\ pc' = "crashed"
             /\ UNCHANGED <<server, stack, tries, item, ki, noderay, count,
                            children, history>>

(* Mutant: the node is stored behind the array's end and the worker goes on. *)
ReplyPastEnd == /\ pc = "request"
                /\ noderay' = IF text[item] THEN Append(noderay, item) ELSE noderay
                /\ ki' = 1
                /\ pc' = "kids"
                /\ UNCHANGED <<server, stack, tries, item, count, children, history>>

(* Mutant: the kids are read from index 1 of the JSON array.               *)
ReplySkipsAKid == /\ pc = "request"
                  /\ text[item] => Len(noderay) < ArraySize
                  /\ noderay' = IF text[item] THEN Append(noderay, item) ELSE noderay
                  /\ ki' = 2
                  /\ pc' = "kids"
                  /\ UNCHANGED <<server, stack, tries, item, count, children, history>>

(* Mutant: an item without a text is stored too.                           *)
ReplyKeepsAll == /\ pc = "request"
                 /\ Len(noderay) < ArraySize
                 /\ noderay' = Append(noderay, item)
                 /\ ki' = 1
                 /\ pc' = "kids"
                 /\ UNCHANGED <<server, stack, tries, item, count, children, history>>

(* The reply is the item.  A text makes a node, stored with no test of the *)
(* array's length.                                                         *)
Reply == /\ pc = "request"
         /\ text[item] => Len(noderay) < ArraySize
         /\ noderay' = IF text[item] THEN Append(noderay, item) ELSE noderay
         /\ ki' = 1
         /\ pc' = "kids"
         /\ UNCHANGED <<server, stack, tries, item, count, children, history>>

(* noderay[1000] is outside the array: what follows is undefined.          *)
Overflow == /\ pc = "request"
            /\ text[item] /\ Len(noderay) >= ArraySize
            /\ pc' = "overflow"
            /\ UNCHANGED <<server, stack, tries, item, ki, noderay, count,
                           children, history>>

QueueKid == /\ pc = "kids"
            /\ ki <= Len(kids[item])
            /\ stack' = Pushed(stack, kids[item][ki])
            /\ ki' = ki + 1
            /\ UNCHANGED <<server, pc, tries, item, noderay, count, children, history>>

KidsDone == /\ pc = "kids"
            /\ ki > Len(kids[item])
            /\ count' = count + 1
            /\ pc' = "turn"
            /\ UNCHANGED <<server, stack, tries, item, ki, noderay, children, history>>

(* The worker returns and pthread_join lets main go on.                    *)
Join == /\ pc = "turn" /\ tries = 0
        /\ pc' = "joined"
        /\ UNCHANGED <<server, stack, tries, item, ki, noderay, count, children, history>>

(* buildCommentTree: the entries of noderay whose parentid is the node's   *)
(* id, in the array's order.  It starts from the story and links only what *)
(* it reaches; the lists of the other items are never looked at.           *)
ChildrenOf(p) ==
  LET Linked[k \in 0..Len(noderay)] ==
        IF k = 0 THEN << >>
        ELSE IF Parent(noderay[k]) = p THEN Append(Linked[k - 1], noderay[k])
        ELSE Linked[k - 1]
  IN  Linked[Len(noderay)]

BuildTree == /\ pc = "joined"
             /\ children' = [p \in Items |-> ChildrenOf(p)]
             /\ pc' = "built"
             /\ UNCHANGED <<server, stack, tries, item, ki, noderay, count, history>>

Ended == pc \in Stopped /\ UNCHANGED vars

Work == \/ Pop \/ Idle
        \/ RequestFails \/ NullReply \/ Reply \/ Overflow
        \/ QueueKid \/ KidsDone
        \/ Join \/ BuildTree

Next == Work \/ Ended

Spec == Init /\ [][Next]_vars

(* The worker runs, and CURLOPT_TIMEOUT ends every request.                *)
FairSpec == Spec /\ WF_vars(Work)

-----------------------------------------------------------------------------
TypeOK == /\ IsStory(kids)
          /\ text \in [Items -> BOOLEAN]
          /\ stack \in Seq(Items)
          /\ pc \in Running \cup Stopped
          /\ tries \in 0..3
          /\ item \in Items \cup {NoItem}
          /\ pc \in {"request", "kids"} => item \in Items
          /\ ki \in Nat
          /\ noderay \in Seq(Items)
          /\ Len(noderay) <= ArraySize
          /\ count \in Nat
          /\ DOMAIN children = Items
          /\ fetched \in SUBSET Items
          /\ lost \in SUBSET fetched

(* The item whose reply is not used up, and those whose reply is.          *)
Current == IF pc \in {"request", "kids", "crashed", "overflow"} THEN {item} ELSE {}
Answered == fetched \ (lost \cup Current)

(* Kid j of p has been given to QAppendItem.                               *)
Handed(p, j) == \/ p \in Answered
                \/ p = item /\ pc = "kids" /\ j < ki

(* What is on the stack or was: the story, and the kids handed over.       *)
Known == fetched \cup Elements(stack)

FrontierInv ==
  /\ \A i \in Items :
       i \in Known <=> \/ i = Root
                       \/ \E p \in Items : \E j \in 1..Len(kids[p]) :
                            kids[p][j] = i /\ Handed(p, j)
  /\ \A k \in 1..Len(stack) : stack[k] \notin fetched
  /\ \A j, k \in 1..Len(stack) : stack[j] = stack[k] => j = k
  /\ Current \subseteq fetched \ lost

NoderayInv ==
  /\ \A k \in 1..Len(noderay) : /\ noderay[k] \in fetched \ lost
                                /\ text[noderay[k]]
                                /\ pc \in {"request", "overflow"} => noderay[k] # item
  /\ \A j, k \in 1..Len(noderay) : noderay[j] = noderay[k] => j = k
  /\ pc = "overflow" => text[item] /\ Len(noderay) = ArraySize

CountInv == /\ pc = "kids" => ki \in 1..(Len(kids[item]) + 1)
            /\ count = Cardinality(Answered)

TriesInv == /\ tries < 3 => stack = << >> /\ pc \in {"turn", "joined", "built"}
            /\ pc \in {"joined", "built"} => tries = 0

Inv == TypeOK /\ FrontierInv /\ NoderayInv /\ CountInv /\ TriesInv

(* noderay holds the items answered so far that have a text.               *)
StoredInv ==
  Elements(noderay) = {i \in Answered \cup (IF pc = "kids" THEN {item} ELSE {}) : text[i]}

(* Kids i and j of p: they are fetched once p was answered, the later one  *)
(* first; until then the later one lies higher on the stack, and afterwards *)
(* the later one comes first in noderay.                                   *)
SiblingsInOrder(p, i, j) ==
  /\ kids[p][i] \in fetched => p \in Answered
  /\ kids[p][i] \in fetched /\ i < j => kids[p][j] \in fetched
  /\ pc = "request" /\ kids[p][i] \in fetched /\ kids[p][j] = item => i >= j
  /\ \A a, b \in 1..Len(stack) :
       stack[a] = kids[p][i] /\ stack[b] = kids[p][j] /\ i < j => a < b
  /\ \A a, b \in 1..Len(noderay) :
       noderay[a] = kids[p][i] /\ noderay[b] = kids[p][j] /\ a < b => i > j

OrderInv == \A p \in Items : \A i, j \in 1..Len(kids[p]) : SiblingsInOrder(p, i, j)

BuiltInv == pc = "built" => \A p \in Items : children[p] = ChildrenOf(p)

TreeInv == StoredInv /\ OrderInv /\ BuiltInv

-----------------------------------------------------------------------------
(* Properties *)

(* No item is requested twice, though QAppendItem only refuses ids that    *)
(* are still queued: an id on the stack was never popped before.           *)
NeverFetchedAgain == \A k \in 1..Len(stack) : stack[k] \notin fetched

(* When main goes on, the story was requested and so was every comment     *)
(* listed by an item that was answered: a failed request loses that item   *)
(* and what only it leads to, and nothing else (crs_tree_test.c:102-107).  *)
NothingForgotten ==
  pc \in {"joined", "built"} =>
    /\ Root \in fetched
    /\ \A p \in Answered : Elements(kids[p]) \subseteq fetched
    /\ count = Cardinality(Answered)

(* The tries of downloadSingleURL repeat nothing: they only run down once  *)
(* the queue is empty, and then no later try finds work in it.             *)
TriesNeverHelp == [][tries < 3 => stack = << >> /\ fetched' = fetched]_vars

(* noderay has room for 1000 nodes and no test guards it; it overflows     *)
(* only when the story has more items with text than that, because no      *)
(* item is stored twice (downloader.c:102).                                *)
Texts == {i \in Items : text[i]}
OverflowOnlyWhenFull == pc = "overflow" => Cardinality(Texts) > ArraySize

(* The tree holds, under each item, its answered kids that have a text:    *)
(* a comment is linked once, below its parent, and none is left out unless *)
(* its parent was.  So the answers under a textless comment are not shown. *)
TreeIsWhatWasAnswered ==
  pc = "built" =>
    \A p \in Items :
      Elements(children[p]) = {i \in Elements(kids[p]) : i \in Answered /\ text[i]}

(* The queue is a stack, so the kids of an item are fetched last to first, *)
(* and the tree lists them in the reverse of the server's order.           *)
RepliesAreReversed ==
  pc = "built" =>
    \A p \in Items : \A c, d \in 1..Len(children[p]) : \A i, j \in 1..Len(kids[p]) :
      children[p][c] = kids[p][i] /\ children[p][d] = kids[p][j] /\ c < d => i > j

(* The download ends: the queue runs empty though each reply refills it.   *)
DownloadEnds == <>(pc \in Stopped)
=============================================================================
