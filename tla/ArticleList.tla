---------------------------- MODULE ArticleList ----------------------------
(***************************************************************************)
(* The article list of src/hnfetcher.c, shared by the two threads of       *)
(* src/grabber.c: refreshLoop fetches and appends articles, the key loop   *)
(* searches, sorts, resets and marks them.  There is no lock.  When        *)
(* Concurrent is FALSE the two never overlap, as when a fetch falls        *)
(* between two keys; when it is TRUE they interleave node by node.         *)
(*                                                                         *)
(* Before the first fetch returns the keys work on a dummy list of one     *)
(* node that nobody adds to; they change nothing there.                    *)
(***************************************************************************)
EXTENDS Integers, Sequences, FiniteSets

CONSTANTS Nodes,       \* the heap: every article malloc can return
          Hashes,      \* the story hashes the server knows
          NoHash,      \* the empty one, of an article that has none
          Replies,     \* what the server may answer: sequences of articles
          Nil,         \* the null pointer
          Wild,        \* whatever an uninitialised pointer holds
          Concurrent   \* whether keys are handled during a fetch

(* Bits 0, 4 and 5 of flags.  Bit 3, which drawFooter sets, is tested       *)
(* nowhere and left out; that the whole word is written back for it is not. *)
Flags == {"match", "saved", "chosen"}

(* An article of an answer.  One without the fields, or with others than   *)
(* strings in them, ends the program in strlen; Replies has none.          *)
Article == [hash : Hashes \cup {NoHash}, saved : BOOLEAN]

ASSUME ArticleListAssumption ==
  /\ IsFiniteSet(Nodes) /\ Nodes # {}   \* the first malloc is not looked at
  /\ Nil \notin Nodes /\ Wild \notin Nodes /\ Nil # Wild
  /\ Concurrent \in BOOLEAN
  /\ NoHash \notin Hashes
  /\ \A r \in Replies : r \in Seq(Article)

VARIABLES
  list,            \* result->articles; *master_list once shared
  shared,          \* master_list = &(result->articles)
  next, previous,  \* the fields of an article
  hash, flags, init,
  used,            \* the articles allocated
  input,           \* inputmode
  fpc,             \* where the fetch thread is
  todo,            \* the articles of the reply still to add
  fnode,           \* the local pointer of its walks
  fnew,            \* add_article_by_hash's newnode
  fread,           \* the flags word it has read to write back, and whose
  upc,             \* where the key loop is
  kread,           \* as fread, of the key loop
  pattern,         \* the hashes whose text the search text matches
  i,               \* the local pointer of the key loop's walks
  sorted, unsorted,\* SortList's two tails
  before           \* history: the list when SortList was called

nodes == <<next, previous, hash, flags, init, used>>
fetchvars == <<fpc, todo, fnode, fnew, fread>>
keyvars == <<upc, kread, pattern, i, sorted, unsorted, before>>
vars == <<list, shared, next, previous, hash, flags, init, used, input, fpc, todo,
          fnode, fnew, fread, upc, kread, pattern, i, sorted, unsorted, before>>

NoWord == [node |-> Nil, flags |-> {}]

Init == /\ list = Nil
        /\ shared = FALSE
        /\ next = [n \in Nodes |-> Nil]
        /\ previous = [n \in Nodes |-> Nil]
        /\ \E h \in Hashes : hash = [n \in Nodes |-> h]   \* not read before it is set
        /\ flags = [n \in Nodes |-> {}]
        /\ init = [n \in Nodes |-> 0]
        /\ used = {}
        /\ input = FALSE
        /\ fpc = "sleep"
        /\ todo = << >>
        /\ fnode = Nil /\ fnew = Nil /\ fread = NoWord
        /\ upc = "keys" /\ kread = NoWord
        /\ pattern = {}
        /\ i = Nil
        /\ sorted = Nil /\ unsorted = Nil
        /\ before = << >>

(* An operation of the key loop, or the adding of one article, is over;    *)
(* its locals are gone.  refreshWin comes after every key's operation.     *)
KeysDone == /\ upc' = "draw"
            /\ UNCHANGED kread
            /\ pattern' = {}
            /\ i' = Nil
            /\ sorted' = Nil /\ unsorted' = Nil
            /\ before' = << >>

ArticleDone == /\ fpc' = "article"
               /\ todo' = Tail(todo)
               /\ fnode' = Nil /\ fnew' = Nil /\ UNCHANGED fread

(* The nodes reached from p along the links, at most as many as there are. *)
ChainIn(links, p) ==
  LET at[k \in 1..Cardinality(Nodes)] ==
        IF k = 1 THEN p ELSE IF at[k - 1] = Nil THEN Nil ELSE links[at[k - 1]]
      len == Cardinality({k \in 1..Cardinality(Nodes) : at[k] # Nil})
  IN [k \in 1..len |-> at[k]]

Chain == ChainIn(next, list)

Elements(s) == {s[k] : k \in 1..Len(s)}

-----------------------------------------------------------------------------
(* The fetch thread: refreshLoop, FetchArticles, add_article_by_hash       *)

(* malloc.  No article is ever freed and addresses are not compared, so    *)
(* which free one it returns makes no difference.                          *)
Fresh == CHOOSE n \in Nodes \ used : TRUE

(* inputmode is tested once, before the fetch.  The first time a head is   *)
(* allocated: init and next are set, the rest is what malloc left there.   *)
FetchStart ==
  /\ fpc = "sleep" /\ ~input
  /\ Concurrent \/ upc = "keys"
  /\ fpc' = "request"
  /\ \/ /\ list # Nil
        /\ UNCHANGED <<list, nodes>>
     \/ /\ list = Nil
        /\ list' = Fresh
        /\ used' = used \cup {Fresh}
        /\ \E p \in {Nil, Wild} : previous' = [previous EXCEPT ![Fresh] = p]
        /\ \E f \in SUBSET {"match"} : flags' = [flags EXCEPT ![Fresh] = f]
        /\ UNCHANGED <<next, hash, init>>
  /\ UNCHANGED <<shared, input, todo, fnode, fnew, fread, keyvars>>

(* No answer, or one that is not a JSON array.  The list becomes the       *)
(* master list all the same, and is drawn.                                 *)
FetchFails == /\ fpc = "request"
              /\ fpc' = "draw"
              /\ shared' = TRUE
              /\ UNCHANGED <<list, nodes, input, todo, fnode, fnew, fread, keyvars>>

FetchReply == /\ fpc = "request"
              /\ todo' \in Replies
              /\ fpc' = "article"
              /\ UNCHANGED <<list, shared, nodes, input, fnode, fnew, fread, keyvars>>

FetchDone == /\ fpc = "article" /\ todo = << >>
             /\ fpc' = "draw"
             /\ shared' = TRUE
             /\ UNCHANGED <<list, nodes, input, todo, fnode, fnew, fread, keyvars>>

(* Mutant: the search for the hash starts behind the head.                 *)
FindBeginAfterHead == /\ fpc = "article" /\ todo # << >>
                      /\ fpc' = "find"
                      /\ fnode' = IF Head(todo).hash = NoHash THEN Nil ELSE next[list]
                      /\ UNCHANGED <<list, shared, nodes, input, todo, fnew, fread, keyvars>>

(* ArticleSearchByHash.  Nothing is found without a hash to look for.      *)
FindBegin == /\ fpc = "article" /\ todo # << >>
             /\ fpc' = "find"
             /\ fnode' = IF Head(todo).hash = NoHash THEN Nil ELSE list
             /\ UNCHANGED <<list, shared, nodes, input, todo, fnew, fread, keyvars>>

Found == init[fnode] # 0 /\ hash[fnode] = Head(todo).hash

FindHit == /\ fpc = "find" /\ fnode # Nil
           /\ Found
           /\ ArticleDone
           /\ UNCHANGED <<list, shared, nodes, input, keyvars>>

(* Mutant: the walk does not move on.                                      *)
FindStepStays == /\ fpc = "find" /\ fnode # Nil
                 /\ ~Found
                 /\ UNCHANGED vars

FindStep == /\ fpc = "find" /\ fnode # Nil
            /\ ~Found
            /\ fnode' = next[fnode]
            /\ UNCHANGED <<list, shared, nodes, input, fpc, todo, fnew, fread, keyvars>>

(* The first article goes into the head, which never gets the saved flag.  *)
FillHead == /\ fpc = "find" /\ fnode = Nil
            /\ init[list] <= 0
            /\ init' = [init EXCEPT ![list] = @ + 1]
            /\ flags' = [flags EXCEPT ![list] = {}]
            /\ hash' = [hash EXCEPT ![list] = Head(todo).hash]
            /\ ArticleDone
            /\ UNCHANGED <<list, shared, next, previous, used, input, keyvars>>

NewArticle == /\ fpc = "find" /\ fnode = Nil
              /\ init[list] > 0
              /\ used # Nodes
              /\ fnew' = Fresh
              /\ used' = used \cup {Fresh}
              /\ init' = [init EXCEPT ![Fresh] = 1]
              /\ flags' = [flags EXCEPT ![Fresh] = IF Head(todo).saved THEN {"saved"} ELSE {}]
              /\ hash' = [hash EXCEPT ![Fresh] = Head(todo).hash]
              /\ next' = [next EXCEPT ![Fresh] = Nil]
              /\ previous' = [previous EXCEPT ![Fresh] = Nil]
              /\ fnode' = list
              /\ fpc' = "walk"
              /\ UNCHANGED <<list, shared, input, todo, fread, keyvars>>

(* malloc failed: the article is skipped.                                  *)
NoMemory == /\ fpc = "find" /\ fnode = Nil
            /\ init[list] > 0
            /\ ArticleDone
            /\ UNCHANGED <<list, shared, nodes, input, keyvars>>

Walk == /\ fpc = "walk" /\ next[fnode] # Nil
        /\ fnode' = next[fnode]
        /\ UNCHANGED <<list, shared, nodes, input, fpc, todo, fnew, fread, keyvars>>

WalkEnd == /\ fpc = "walk" /\ next[fnode] = Nil
           /\ fpc' = "link"
           /\ UNCHANGED <<list, shared, nodes, input, todo, fnode, fnew, fread, keyvars>>

(* Mutant: the new article does not point back.                            *)
LinkNoPrevious == /\ fpc = "link"
                  /\ next' = [next EXCEPT ![fnode] = fnew]
                  /\ ArticleDone
                  /\ UNCHANGED <<list, shared, previous, hash, flags, init, used, input, keyvars>>

Link == /\ fpc = "link"
        /\ previous' = [previous EXCEPT ![fnew] = fnode]
        /\ next' = [next EXCEPT ![fnode] = fnew]
        /\ ArticleDone
        /\ UNCHANGED <<list, shared, hash, flags, init, used, input, keyvars>>

(* refreshWin.  The article at the row of the window, if there is one, has *)
(* a bit of its flags set: drawFooter reads the word and writes it back,   *)
(* each time finding the article by its position.  Both threads draw, so   *)
(* when they overlap the row or the list may be another by then.           *)
AtRow(n) == IF Concurrent THEN Elements(Chain) \cup {Nil} ELSE {n}

Read(n) == [node |-> n, flags |-> flags[n]]

(* The word is written to article m, or to no article at all.              *)
Write(m, word) == flags' = IF m = Nil THEN flags ELSE [flags EXCEPT ![m] = word]

(* No article is at the row, or a search is open.                          *)
FetchDrawsNone == /\ fpc = "draw"
                  /\ fpc' = "sleep"
                  /\ UNCHANGED <<list, shared, nodes, input, todo, fnode, fnew, fread, keyvars>>

FetchDraws == /\ fpc = "draw" /\ ~input
              /\ \E n \in Elements(Chain) : fread' = Read(n)
              /\ fpc' = "store"
              /\ UNCHANGED <<list, shared, nodes, input, todo, fnode, fnew, keyvars>>

FetchDrawn == /\ fpc = "store"
              /\ \E m \in AtRow(fread.node) :
                   /\ Write(m, fread.flags)
                   /\ upc' = IF m = Nil THEN "crashed" ELSE upc
              /\ fread' = NoWord
              /\ fpc' = "sleep"
              /\ UNCHANGED <<list, shared, next, previous, hash, init, used, input,
                             todo, fnode, fnew, kread, pattern, i, sorted, unsorted, before>>

FetchStep == \/ FetchFails \/ FetchReply \/ FetchDone
             \/ FindBegin \/ FindHit \/ FindStep \/ FillHead \/ NewArticle \/ NoMemory
             \/ Walk \/ WalkEnd \/ Link
             \/ FetchDrawsNone \/ FetchDraws \/ FetchDrawn

-----------------------------------------------------------------------------
(* The key loop *)

Key == upc = "keys" /\ (Concurrent \/ fpc = "sleep")

(* 's' or '/'.  While a search is open the redraw sets no flag.            *)
OpenSearch == /\ Key /\ ~input
              /\ input' = TRUE
              /\ UNCHANGED <<list, shared, nodes, fetchvars, keyvars>>

SortFrom(p) == /\ i' = p
               /\ sorted' = Nil /\ unsorted' = Nil
               /\ before' = ChainIn(next, p)

(* Enter: applySearch, then SortList.  regcomp may refuse the text: then   *)
(* the old matches are sorted again.                                       *)
Enter == /\ Key /\ shared
         /\ input' = FALSE
         /\ \E p \in SUBSET (Hashes \cup {NoHash}) : pattern' = p
         /\ upc' = "search"
         /\ i' = list
         /\ UNCHANGED <<list, shared, nodes, fetchvars, kread, sorted, unsorted, before>>

EnterBadPattern == /\ Key /\ shared
                   /\ input' = FALSE
                   /\ upc' = "sort"
                   /\ SortFrom(list)
                   /\ UNCHANGED <<list, shared, nodes, fetchvars, kread, pattern>>

EnterOnDummy == /\ Key /\ ~shared /\ input
                /\ input' = FALSE
                /\ UNCHANGED <<list, shared, nodes, fetchvars, keyvars>>

(* Mutant: the other flags are lost.                                       *)
SearchStepAssigns == /\ upc = "search" /\ next[i] # Nil
                     /\ flags' = [flags EXCEPT ![i] = IF hash[i] \in pattern THEN {"match"}
                                                      ELSE {}]
                     /\ i' = next[i]
                     /\ UNCHANGED <<list, shared, next, previous, hash, init, used, input,
                                    fetchvars, upc, kread, pattern, sorted, unsorted, before>>

(* The last article is never looked at.                                    *)
SearchStep == /\ upc = "search" /\ next[i] # Nil
              /\ flags' = [flags EXCEPT ![i] =
                             IF hash[i] \in pattern THEN @ \cup {"match"} ELSE @ \ {"match"}]
              /\ i' = next[i]
              /\ UNCHANGED <<list, shared, next, previous, hash, init, used, input,
                             fetchvars, upc, kread, pattern, sorted, unsorted, before>>

(* Mutant: the last article is searched like the others.                   *)
SearchEndLooks == /\ upc = "search" /\ next[i] = Nil
                  /\ flags' = [flags EXCEPT ![i] =
                                 IF hash[i] \in pattern THEN @ \cup {"match"} ELSE @ \ {"match"}]
                  /\ upc' = "sort" /\ pattern' = {}
                  /\ SortFrom(list)
                  /\ UNCHANGED <<list, shared, next, previous, hash, init, used, input, fetchvars, kread>>

SearchEnd == /\ upc = "search" /\ next[i] = Nil
             /\ upc' = "sort" /\ pattern' = {}
             /\ SortFrom(list)
             /\ UNCHANGED <<list, shared, nodes, input, fetchvars, kread>>

(* SortList.  One turn of its loop moves article i to the end of one of    *)
(* the two lists.                                                          *)
Matching(n) == "match" \in flags[n]

(* t->previous->next = t->next, unless previous is null.                   *)
Unlinked(n) == IF previous[n] \in Nodes THEN [next EXCEPT ![previous[n]] = next[n]] ELSE next

Onto(tail, links, n) ==
  /\ next' = IF tail = Nil THEN [links EXCEPT ![n] = Nil]
             ELSE [links EXCEPT ![n] = Nil, ![tail] = n]
  /\ previous' = [previous EXCEPT ![n] = tail]
  /\ i' = next[n]

SortMatch == /\ upc = "sort" /\ i # Nil
             /\ Matching(i)
             /\ Onto(sorted, Unlinked(i), i)
             /\ sorted' = i
             /\ UNCHANGED <<list, shared, hash, flags, init, used, input, fetchvars,
                            upc, kread, pattern, unsorted, before>>

(* previous was never set: the write goes astray, or the program dies.     *)
SortCrash == /\ upc = "sort" /\ i # Nil
             /\ Matching(i) /\ previous[i] = Wild
             /\ upc' = "crashed"
             /\ UNCHANGED <<list, shared, nodes, input, fetchvars, kread, pattern, i,
                            sorted, unsorted, before>>

SortOther == /\ upc = "sort" /\ i # Nil
             /\ ~Matching(i)
             /\ Onto(unsorted, next, i)
             /\ unsorted' = i
             /\ UNCHANGED <<list, shared, hash, flags, init, used, input, fetchvars,
                            upc, kread, pattern, sorted, before>>

(* The loop is over.  unsortedList is dereferenced whether or not any      *)
(* article was put there.                                                  *)
SortLoopEnd == /\ upc = "sort" /\ i = Nil
               /\ upc' = IF unsorted = Nil THEN "crashed" ELSE "join"
               /\ UNCHANGED <<list, shared, nodes, input, fetchvars, kread, pattern, i,
                              sorted, unsorted, before>>

(* Back to the first of the others, and behind the last match with them.   *)
SortBack == /\ upc = "join" /\ previous[unsorted] # Nil
            /\ unsorted' = previous[unsorted]
            /\ UNCHANGED <<list, shared, nodes, input, fetchvars, upc, kread,
                           pattern, i, sorted, before>>

SortNoMatch == /\ upc = "join" /\ previous[unsorted] = Nil
               /\ sorted = Nil
               /\ list' = unsorted
               /\ KeysDone
               /\ UNCHANGED <<shared, nodes, input, fetchvars>>

SortJoin == /\ upc = "join" /\ previous[unsorted] = Nil
            /\ sorted # Nil
            /\ next' = [next EXCEPT ![sorted] = unsorted]
            /\ previous' = [previous EXCEPT ![unsorted] = sorted]
            /\ upc' = "head"
            /\ UNCHANGED <<list, shared, hash, flags, init, used, input, fetchvars,
                           kread, pattern, i, sorted, unsorted, before>>

SortBackToHead == /\ upc = "head" /\ previous[sorted] # Nil
                  /\ sorted' = previous[sorted]
                  /\ UNCHANGED <<list, shared, nodes, input, fetchvars, upc, kread,
                                 pattern, i, unsorted, before>>

(* Mutant: the caller's list still begins at the old head.                 *)
SortHeadNotStored == /\ upc = "head" /\ previous[sorted] = Nil
                     /\ KeysDone
                     /\ UNCHANGED <<list, shared, nodes, input, fetchvars>>

SortHead == /\ upc = "head" /\ previous[sorted] = Nil
            /\ list' = sorted
            /\ KeysDone
            /\ UNCHANGED <<shared, nodes, input, fetchvars>>

(* 'c': ResetSearch clears every flag, again except the last article's.    *)
Reset == /\ Key /\ ~input /\ shared
         /\ upc' = "reset"
         /\ i' = list
         /\ UNCHANGED <<list, shared, nodes, input, fetchvars, kread, pattern, sorted,
                        unsorted, before>>

(* Mutant: the walk does not move on.                                      *)
ResetStepStays == /\ upc = "reset" /\ next[i] # Nil
                  /\ flags' = [flags EXCEPT ![i] = {}]
                  /\ UNCHANGED <<list, shared, next, previous, hash, init, used, input,
                                 fetchvars, keyvars>>

ResetStep == /\ upc = "reset" /\ next[i] # Nil
             /\ flags' = [flags EXCEPT ![i] = {}]
             /\ i' = next[i]
             /\ UNCHANGED <<list, shared, next, previous, hash, init, used, input,
                            fetchvars, upc, kread, pattern, sorted, unsorted, before>>

ResetEnd == /\ upc = "reset" /\ next[i] = Nil
            /\ KeysDone
            /\ UNCHANGED <<list, shared, nodes, input, fetchvars>>

(* ' ': markSelectedChosen finds the article and its flag, then writes the *)
(* word with the flag toggled.  A key below the list marks nothing.        *)
Mark == /\ Key /\ shared
        /\ \E n \in Elements(Chain) : kread' = Read(n)
        /\ upc' = "mark"
        /\ UNCHANGED <<list, shared, nodes, input, fetchvars, pattern, i, sorted,
                       unsorted, before>>

Toggled(word) == IF "chosen" \in word THEN word \ {"chosen"} ELSE word \cup {"chosen"}

MarkStore == /\ upc = "mark"
             /\ \E m \in AtRow(kread.node) :
                  /\ Write(m, Toggled(kread.flags))
                  /\ upc' = IF m = Nil THEN "crashed" ELSE "draw"
             /\ kread' = NoWord
             /\ UNCHANGED <<list, shared, next, previous, hash, init, used, input,
                            fetchvars, pattern, i, sorted, unsorted, before>>

(* The keys that only scroll, open the link or draw.                       *)
Redraw == /\ Key /\ shared
          /\ upc' = "draw"
          /\ UNCHANGED <<list, shared, nodes, input, fetchvars, kread, pattern, i, sorted,
                         unsorted, before>>

(* refreshWin, as on the other thread; during a fetch no flag is set.      *)
KeyDrawsNone == /\ upc = "draw"
                /\ upc' = "keys"
                /\ UNCHANGED <<list, shared, nodes, input, fetchvars, kread, pattern, i,
                               sorted, unsorted, before>>

KeyDraws == /\ upc = "draw" /\ ~input /\ fpc \in {"sleep", "draw", "store"}
            /\ \E n \in Elements(Chain) : kread' = Read(n)
            /\ upc' = "store"
            /\ UNCHANGED <<list, shared, nodes, input, fetchvars, pattern, i, sorted,
                           unsorted, before>>

KeyDrawn == /\ upc = "store"
            /\ \E m \in AtRow(kread.node) :
                 /\ Write(m, kread.flags)
                 /\ upc' = IF m = Nil THEN "crashed" ELSE "keys"
            /\ kread' = NoWord
            /\ UNCHANGED <<list, shared, next, previous, hash, init, used, input,
                           fetchvars, pattern, i, sorted, unsorted, before>>

KeyStep == \/ SearchStep \/ SearchEnd
           \/ SortMatch \/ SortCrash \/ SortOther \/ SortLoopEnd
           \/ SortBack \/ SortNoMatch \/ SortJoin \/ SortBackToHead \/ SortHead
           \/ ResetStep \/ ResetEnd
           \/ MarkStore \/ KeyDrawsNone \/ KeyDraws \/ KeyDrawn

KeyPress == \/ OpenSearch \/ Enter \/ EnterBadPattern \/ EnterOnDummy
            \/ Reset \/ Mark \/ Redraw

Crashed == upc = "crashed" /\ UNCHANGED vars

Next == \/ upc # "crashed" /\ (FetchStart \/ FetchStep \/ KeyStep \/ KeyPress)
        \/ Crashed

Spec == Init /\ [][Next]_vars

(* Both threads run.  The request has no timeout, so nothing is assumed of *)
(* the server.                                                             *)
FairSpec == /\ Spec
            /\ WF_vars(upc # "crashed" /\ fpc # "request" /\ FetchStep)
            /\ WF_vars(KeyStep)

-----------------------------------------------------------------------------
(* The inductive invariant, when keys are not handled during a fetch *)

\* s is the null-terminated list that begins at p, each node on it once.
IsChain(links, p, s) ==
  /\ s \in Seq(Nodes)
  /\ \A j, k \in 1..Len(s) : s[j] = s[k] => j = k
  /\ p = IF s = << >> THEN Nil ELSE s[1]
  /\ \A k \in 1..Len(s) : links[s[k]] = IF k = Len(s) THEN Nil ELSE s[k + 1]

\* The previous fields run s backwards.
Follows(s) == \A k \in 2..Len(s) : previous[s[k]] = s[k - 1]

TailOf(s) == IF s = << >> THEN Nil ELSE s[Len(s)]

TypeOK ==
  /\ list \in Nodes \cup {Nil}
  /\ next \in [Nodes -> Nodes \cup {Nil}]
  /\ previous \in [Nodes -> Nodes \cup {Nil, Wild}]
  /\ hash \in [Nodes -> Hashes \cup {NoHash}]
  /\ flags \in [Nodes -> SUBSET Flags]
  /\ init \in [Nodes -> {0, 1}]
  /\ used \in SUBSET Nodes
  /\ todo \in Seq(Article)
  /\ shared \in BOOLEAN /\ input \in BOOLEAN
  /\ fpc \in {"sleep", "request", "article", "find", "walk", "link", "draw", "store"}
  /\ upc \in {"keys", "search", "reset", "sort", "join", "head", "mark", "draw", "store",
              "crashed"}

\* The threads take turns, and there is a list once either is at work.
TurnsInv ==
  /\ fpc = "sleep" \/ upc = "keys"
  /\ shared \/ fpc # "sleep" \/ upc # "keys" => list # Nil
  /\ fpc \in {"find", "walk", "link"} => todo # << >>

\* The article allocated but not linked in yet.
Pending == IF fpc \in {"walk", "link"} THEN {fnew} ELSE {}

\* While nothing is sorted the list is whole, and its last article does not
\* match: a search leaves that one alone and a new one has no such flag.
Whole == upc \in {"keys", "search", "reset", "mark", "draw", "store"}
LastIsPlain(s) == init[list] = 1 => "match" \notin flags[s[Len(s)]]
ChainInv ==
  Whole => /\ IsChain(next, list, Chain)
           /\ Follows(Chain)
           /\ Elements(Chain) = used \ Pending
           /\ list # Nil => previous[list] \in {Nil, Wild} /\ LastIsPlain(Chain)

\* Both hold the article with this hash.
Same(m, n) == init[m] = 1 /\ init[n] = 1 /\ hash[m] = hash[n] /\ hash[m] # NoHash

\* Only a head no answer came for is not filled in, and it is alone.
HashesInv ==
  /\ \A n \in Nodes \ used : init[n] = 0 /\ next[n] = Nil
  /\ \A n \in used : init[n] = 1 \/ used = {list}
  /\ \A m, n \in used : Same(m, n) => m = n

\* Where the walks of the fetch thread are.  The search for a hash has
\* passed articles with other hashes only.
FetchInv ==
  /\ fpc = "find" =>
       \E k \in 1..(Len(Chain) + 1) :
         /\ fnode = IF k = Len(Chain) + 1 THEN Nil ELSE Chain[k]
         /\ Head(todo).hash # NoHash =>
              \A j \in 1..(k - 1) : init[Chain[j]] = 1 => hash[Chain[j]] # Head(todo).hash
  /\ fpc \in {"walk", "link"} =>
       /\ fnode \in Elements(Chain)
       /\ fnew \in used /\ init[fnew] = 1 /\ init[list] = 1
       /\ "match" \notin flags[fnew]
       /\ next[fnew] = Nil
  /\ fpc = "link" => next[fnode] = Nil

\* x stands before y in s.
Precedes(s, x, y) == \E j, k \in 1..Len(s) : j < k /\ s[j] = x /\ s[k] = y
InOrderOf(s, t) == \A j, k \in 1..Len(t) : j < k => Precedes(s, t[j], t[k])

\* The first J articles have been dealt out to M, the matches, and U, the
\* others, in the order they had.
Dealt(J, M, U) ==
  /\ M \in Seq(Nodes) /\ InOrderOf(before, M) /\ Follows(M)
  /\ U \in Seq(Nodes) /\ InOrderOf(before, U) /\ Follows(U)
  /\ Elements(M) = {n \in {before[k] : k \in 1..J} : Matching(n)}
  /\ Elements(U) = {n \in {before[k] : k \in 1..J} : ~Matching(n)}
  /\ M # << >> => previous[M[1]] = Nil
  /\ U # << >> => previous[U[1]] = Nil
  /\ \A k \in 1..Len(M) : next[M[k]] = IF k = Len(M) THEN Nil ELSE M[k + 1]
  /\ \A k \in 1..(Len(U) - 1) : next[U[k]] = U[k + 1]

\* The list SortList was called with.
SortedFrom ==
  /\ before \in Seq(Nodes) /\ before # << >>
  /\ list = before[1]
  /\ \A j, k \in 1..Len(before) : before[j] = before[k] => j = k
  /\ Elements(before) = used
  /\ LastIsPlain(before)

\* The loop stands behind the first J: the rest is still linked as it was,
\* and J is the end of its half.  The end of the others points nowhere but
\* after a match was unlinked behind it, and then another follows.
Dealing(J, M, U) ==
  /\ Dealt(J, M, U)
  /\ i = IF J = Len(before) THEN Nil ELSE before[J + 1]
  /\ sorted = TailOf(M) /\ unsorted = TailOf(U)
  /\ \A k \in (J + 1)..Len(before) :
       /\ next[before[k]] = IF k = Len(before) THEN Nil ELSE before[k + 1]
       /\ k > 1 => previous[before[k]] = before[k - 1]
       /\ k = 1 => previous[before[k]] \in {Nil, Wild}
  /\ J > 0 => IF Matching(before[J]) THEN before[J] = TailOf(M)
              ELSE before[J] = TailOf(U) /\ next[before[J]] = Nil

SortInv ==
  /\ upc \in {"sort", "join", "head"} => SortedFrom
  /\ upc = "sort" => \E J \in 0..Len(before) : \E M, U \in Seq(Nodes) : Dealing(J, M, U)
  /\ upc = "join" =>
       \E M, U \in Seq(Nodes) :
         /\ Dealt(Len(before), M, U)
         /\ U # << >> /\ next[TailOf(U)] = Nil
         /\ sorted = TailOf(M) /\ unsorted \in Elements(U)
  /\ upc = "head" =>
       \E M, U \in Seq(Nodes) :
         /\ M # << >> /\ U # << >>
         /\ InOrderOf(before, M) /\ InOrderOf(before, U)
         /\ Elements(M) = {n \in used : Matching(n)}
         /\ Elements(U) = {n \in used : ~Matching(n)}
         /\ IsChain(next, M[1], M \o U) /\ Follows(M \o U)
         /\ previous[M[1]] = Nil
         /\ sorted \in Elements(M)
  /\ upc \in {"search", "reset"} => i \in Elements(Chain)
  /\ upc = "crashed" => previous[list] = Wild \/ init[list] = 0

Inv == TypeOK /\ TurnsInv /\ ChainInv /\ HashesInv /\ FetchInv /\ SortInv

\* A flags word to be written back is still that of its article.
IsRead(word) == word.node \in Nodes /\ word.flags = flags[word.node]
WordsInv ==
  /\ fpc = "store" => IsRead(fread)
  /\ upc \in {"mark", "store"} => IsRead(kread)

-----------------------------------------------------------------------------
(* Properties *)

(* Neither thread is inside an operation on the list.                      *)
Idle == upc = "keys" /\ fpc = "sleep"

(* Between operations the list holds every article ever allocated, once,   *)
(* and the previous links run it backwards, however often it was sorted.   *)
(* The head's previous may still be what malloc left (hnfetcher.c:454).    *)
ListIsDoublyLinked ==
  Idle /\ list # Nil =>
    /\ Elements(Chain) = used
    /\ Len(Chain) = Cardinality(used)
    /\ previous[list] \in {Nil, Wild}
    /\ \A k \in 2..Len(Chain) : previous[Chain[k]] = Chain[k - 1]

(* No article that has a hash is listed twice, though the server sends all *)
(* of them again every time and may repeat one in an answer, and though    *)
(* those without one are listed again each time (hnfetcher.c:86-146).      *)
NoDuplicateArticles == Idle => \A m, n \in used : Same(m, n) => m = n

(* Sorting puts the matches first and keeps the order otherwise; nothing   *)
(* is lost or added (hnfetcher.c:323-401).                                 *)
SortDone == upc \in {"join", "head"} /\ upc' = "draw"
StablyPartitioned(s, t) ==
  /\ Len(t) = Len(s) /\ Elements(t) = Elements(s)
  /\ \A j, k \in 1..Len(t) :
       j < k => \/ Matching(t[j]) /\ ~Matching(t[k])
                \/ (Matching(t[j]) <=> Matching(t[k])) /\ Precedes(s, t[j], t[k])
SortIsAStablePartition == [][SortDone => StablyPartitioned(before, Chain')]_vars

(* The key loop dies in SortList only over memory that was never set: the  *)
(* head's previous, or the head's flags when no fetch has succeeded.       *)
(* Never because all articles match: the last one is not searched, and     *)
(* stays unmatched until another comes after it.                           *)
CrashOnlyFromGarbage == upc = "crashed" => previous[list] = Wild \/ init[list] = 0

(* An article marked as chosen stays so through fetches, searches, sorts   *)
(* and redraws, all of which rewrite the word the mark is in: only the     *)
(* space key and a reset change it (hnfetcher.c:280-320, grabber.c:458).   *)
(* It takes that the threads do not overlap.                               *)
Chosen == {n \in used : init[n] = 1 /\ "chosen" \in flags[n]}
MarkOrReset == MarkStore \/ ResetStep
MarksSurvive == [][~MarkOrReset => Chosen' = Chosen]_vars

(* A sort loses no article: it ends with the size it began with, or        *)
(* "something bad happened" (cmoka.c:63-81).                               *)
SortLosesNothing ==
  [][SortDone => Elements(before) \subseteq Elements(Chain')]_vars

(* The walks of both threads end: the fetch thread works through an answer *)
(* once it has one, and the key loop returns to the next key               *)
(* (hnfetcher.c:86-107, 199-202, 280-401).                                 *)
FetchEnds == fpc \notin {"sleep", "request"} ~> fpc = "sleep" \/ upc = "crashed"
KeyEnds   == upc # "keys" ~> upc \in {"keys", "crashed"}
=============================================================================
