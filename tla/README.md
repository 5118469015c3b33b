# Verification of kingsbridge

kingsbridge is a set of small curses programs that read Hacker News: one shows
a list of articles that a second thread keeps fetching, one downloads the
comments of a story and shows them as a tree that can be folded, one fetches
unread stories from NewsBlur. They share a work queue, a comment tree, an
article list and a few string functions. This directory models them in TLA+,
checks the models with TLC and proves the main results with TLAPS.

    tlc -config MCQueue.cfg MCQueue        # one of the runs below
    tlapm QueueProofs.tla                  # the proofs of a module

## Inventory of the system

| part | source | state | operations | what must hold |
|---|---|---|---|---|
| work queue | `queue.c` | a doubly linked list of nodes under one head, a mutex of the caller's, a dead flag | `QAppendItem`, `QpopItem`, `QFindById` (under the mutex), `QSize` (not), `QMarkDead`, `QueueEntireClear` | calls look atomic; an unlocked size is not nonsense; no bad pointer; each node freed once |
| comment downloader | `downloader.c` (`downloadURL`), `crs_tree_test.c` (`downloadSingleURL`, `BuildTree`) | the queue of ids, `noderay`, `tries`, `count` | pop an id, request it, store it, queue its kids; wait; join; build the tree | nothing twice, nothing forgotten, the tree is what was answered, it ends |
| comment tree | `comment_tree.c` | parent/child/sibling pointers, flags | `buildCommentTree`, `VisibleSize`, `ToFlatTree`, `SetSingleExpansionState`, counts, depths, searches, printers | the flat array is the visible tree, and every other walk agrees with it |
| comment viewer | `crs_tree_test.c` (`main`, `moveUp`, `moveDown`, `toggleExpand`, `RefreshData`) | `_flat`, `_total_tree_size`, `_selected`, `start_row` | keys | the selection stays on the list and means the same comment |
| article list | `hnfetcher.c` | a doubly linked list, flags per article, the `init` counter | `FetchArticles`, `add_article_by_hash`, `applySearch`, `SortList`, `ResetSearch` | nothing that has a hash twice, no loss, pointers agree both ways, marks survive |
| article window | `grabber.c` | `selected`, `viewport.start`, `inputmode`, `fmode`, `searchText`, `currentLink` | keys, `refreshWin`, `refreshLoop` on a thread of its own | the ends of the list are found, drawing stays on the list, marks hit the selected row, the search is for what was typed, the link to open is that of the article below the row |
| NewsBlur client | `downloader.c` (`NewsBlur*`), `t_newsblur.c`, `stories.c` | the token, the page number, the list of stories | login, feeds, page after page, write the file | the list is usable between pages; what a moving list loses is bounded |
| decoders and line breaker | `string_utils.c` | none (positions in one text) | `dedup`, `url_decode`, `extract_links`, `splitIntoSegments` | the lines say what the author wrote and fit, the links are kept |
| list sorts | `ll_sort_test.c`, `simple.c`, `Articles.c` | linked lists, an array of sorted runs | `SortList`, `SortTree`, recursive merge sorts | a sort ends, loses no node and is stable |
| older programs, demos, examples | `comment_fetch.c`, `fast_window.c`, `parse_config.c`, `curses_sampler.c`, `t_*.c`, `cmoka.c`, `md5example.c`, `sha256_example.c` | | | see *Not modelled* |

How they interact. `BuildTree` starts the worker thread and puts the story's id
on the queue; the worker pops an id, asks the server and appends the ids of the
kids, until the queue stays empty for three rounds; main joins it, clears the
queue and links the stored nodes into a tree. The viewer reads only that tree.
In `grabber.c` the fetch thread appends to the list that the key loop searches,
sorts and marks; both call `refreshWin`; there is no lock. `downloadURL` passes
the text of an answer through `dedup`, `url_decode` and `extract_links` before it
stores it, and the viewers pass what it stored through the line breaker.

The hard parts: the interleavings of `queue.c` (above all the unlocked `QSize`);
the two threads on the article list; a request that fails after its id was
popped; indices that outlive the list they point into; ends recognised by `==`;
memory that `malloc` leaves uninitialised; fixed arrays filled from the network.
`PROJECT.json` lists them by line under `hazards`, each with the property that
would show it going wrong.

## Modules

**The queue.** `WorkStack` is the abstract specification: a sequence of distinct
ids, each call taking effect at one instant between invocation and return. (The
file is called a queue; `QAppendItem` and `QpopItem` both work at the tail.)
`Queue` is `queue.c` pointer by pointer: `next`, `previous`, `id` per node of a
heap, the mutex, and a `pc` and the local pointers of each thread. A step is one
access to memory another thread can see; the walks under the mutex take a step
per node. `SizeCheck … SizeReturn` is the unlocked `QSize`. `StartClear …
ClearEnd` is `QueueEntireClear` on the main thread after `pthread_join`.
`QueueHistory` adds two history variables, the sequence of nodes the queue holds
(`contents`) and, for each `QSize` in progress, the lengths the list has had
since its call (`seen`); it states the invariants and properties and the
refinement mapping `WS == INSTANCE WorkStack WITH ...`.

**The download.** `Downloader` composes the worker loop, `downloadURL` and the
end of `BuildTree`; the queue is the stack that `WorkStack` promises (with one
worker, `NUMT` being 1, its calls do not overlap). The server is an arbitrary
forest (`Stories`) that may answer, fail, or say `null`.

**The tree.** `CommentTree` has trees as the code has them: for each node the
first of its children, its next sibling and its parent. `Unlinked` is what
`nCmmt` leaves, `AppendChild` walks to the last sibling and links behind it, and
`IsTree` says what pointers a sequence of calls of it can leave. The walks of
`comment_tree.c` are functions of the node they start from: the sizes and
counts, `FlatTree` with its limit and its test after the write, both searches
and `FindById`, which visit the nodes in different orders, marking, expanding,
and printing, where a line is a row with a node, a depth and a number. A loop
over siblings and a call of the walk for the next one are the same function. The
definitions behind the walks (`Ancestors`, `Siblings`, `Below`, `Above`) are what
they are compared with.

**The viewer.** `TreeViewer` is one action per key; each contains the whole
handler, the redraw included (`Render` flattens the tree anew and reads
`_flat[_selected]` unchecked: behind the array the pane shows garbage or the
program dies). In every state it reaches, `WalksAgree` compares the other walks
of `CommentTree` with the tree and with what the screen shows of it.

**The articles.** `ArticleList` is `hnfetcher.c` pointer by pointer for two
threads: `fpc` and `upc` are their positions. With `Concurrent = FALSE` a
handler runs alone, as when fetches fall between keys; with `TRUE` they
interleave. `malloc` may fail, and leaves `previous` and `flags` of a new head
arbitrary, as the code does. An article without a hash (`NoHash`) is never found
(`hnfetcher.c:92`) and is added by every fetch. `flags` is a word that is read
and written back in two steps, by the space key and by `drawFooter`, which sets
a bit nobody tests, at every redraw of either thread (`FetchDraws`, `KeyDraws`);
the redraw that begins a fetch, or one while a search is open, sets none.

`Grabber` is the window of `grabber.c` over a list of which only the size is
kept; the list grows (`Grow`) in steps of its own before the redraw that ends a
fetch. It has `searchText` byte by byte, in memory that is not cleared at first:
the key loop appends every key before it looks at it, and Backspace and Enter
clear from the last byte on, found with `strlen`. `typed` is the history of the
characters typed in the open search, which no action computes from the text;
`stray` says that a key without a character, such as an arrow, was appended too.
`link` is the article whose link the footer copied at the last redraw, from
which `o` starts the browser.

**NewsBlur.** `NewsBlur` has the program's steps and a server whose list of
unread stories moves between them.

**The text of a comment.** `Links` has the three rewritings of `downloadURL` as
operators, `extract_links` as the fold of one turn of its loop over the
characters (`Enter`, `Quote`, `Caption`, `Leave` and `Store` are its tests in
their order). `Segments` is `splitIntoSegments` with its positions counted from
0; `Tokens` and `OfLines` give a text and a list of lines the same meaning,
words and paragraph breaks. Its three arrays have the room the code gives them,
and to write behind one ends the model in a state of its own: `textfull` for
the 4000 bytes of the joined words, `breaksfull` for the positions of 200
breaks, `linesfull` for the array of lines. `CommentText` composes them: an
author writes words and links (`written`), the server encodes them (external,
from what the code expects of it), `Extract` is the download, `Split` the
drawing.

**The sorts.** `ListSort` relinks nodes as `ll_sort_test.c` does: `SortList` with
its slots and `MergeLists` with the pointer to the last next pointer, a step per
node; `SortTree` with its swaps. `MergeSorts` extends it with the recursive
sorts of `simple.c` and `Articles.c`, recursive functions over sequences that are
run on the same lists.

The proofs are in modules of their own: those about `Queue`, `Downloader`,
`TreeViewer`, `ArticleList`, `Grabber`, `NewsBlur`, `Segments` and `ListSort` in
the module of that name with `Proofs`.

Operators commented `Mutant: ...` stand before the definition they alter. They
are that definition with a plausible bug and no part of any specification:
substituting one shows that the property `PROJECT.json` pairs with it notices.

## What the runs check

| run | bounds | properties |
|---|---|---|
| `MCQueue` | 2 threads, 3 nodes, 3 ids, symmetric threads and nodes | `SizeIsALengthItHad` `NoBadDereference` `ClearFreesTheList` `ImplementsWorkStack` |
| `MCQueueFair` | 2 threads, 2 nodes, 3 ids | liveness: `MutexReleased` |
| `MCDownloader` | every forest of 5 items, both orders of kids, every subset with a text, array of 3 | `NeverFetchedAgain` `NothingForgotten` `OverflowOnlyWhenFull` `TreeIsWhatWasAnswered` `RepliesAreReversed` `TriesNeverHelp` `DownloadEnds` |
| `MCTreeViewer` | every tree of up to 4 nodes, a window of 3 rows, scrolling 3 rows either way | `FlatIsTheVisibleTree` `WalksAgree` `PaneShowsSelected` `ToggleKeepsArticle` `LeavesTheListOnlyBy` |
| `MCTreeViewerDown` | the same | `DownStopsAtTheEnd`, **violated** |
| `MCArticleList` | lists of up to 4 articles, 2 hashes and articles without one, one handler at a time | `ListIsDoublyLinked` `NoDuplicateArticles` `CrashOnlyFromGarbage` `SortIsAStablePartition` `MarksSurvive` `FetchEnds` `KeyEnds` |
| `MCArticleListRace` | 3 articles, both threads interleaved | `SortLosesNothing`, **violated** |
| `MCGrabber` | a screen of 13 lines, up to 12 articles, a search text of 5 bytes, 2 characters | `EndsAreNotJumped` `SlideStaysOnTheList` `SearchesWhatWasTyped` `OpensTheNextArticle` |
| `MCGrabberMark` | the same | `SpaceMarksTheSelectedRow`, **violated** |
| `MCNewsBlur` | 5 unread stories, pages of 2, 2 arrivals, 2 read elsewhere | `ListHasAHead` `ShiftsAreBounded` |
| `MCSegments` | every comment of up to 4 of 9 words and 2 links, width 5, 24 bytes of text, 3 breaks, 7 lines, 4 strings for links | `LinesSayTheText` `LinesFit` `RoomForLines` `LinksAreKept` |
| `MCListSort` (`MergeSorts`) | every list of up to 8 nodes, 3 numbers, 3 slots | `SlotsArePowersOfTwo`; liveness: `SortsEndStable` |

`MCQueue`, `MCDownloader`, `MCGrabber` and `MCSegments` also check the module's
`TypeOK`. The comment before a property says what it means.

Why the bounds are enough. Three nodes make the walk of `QSize` meet a pop of
the node it stands on and a push behind it, and let a pop and a push happen
around a list of two; two threads are what a race needs, and the proofs cover any
number. Five items give chains, fans and their mixtures with an array too small
for them. A tree of four nodes in a window of three rows has to scroll; the trees
are built by `AppendChild`, and `TreeViewerAssumption`, which TLC evaluates, says
that each is an `IsTree`. Four
articles hold two that match and two that do not, in any order, with a last one
that `applySearch` never looks at; the answers repeat an article and have one or
two without a hash. Thirteen lines leave a page of two rows and a
list that is several times as long. Words of the width, one less and one more
put every cut at its borders, breaks stand alone, inside a word and at the
end of a text, and a newline stands in a word that fits and in one whose halves
fit while the whole does not. Four pieces are enough to overflow each of the
arrays: the bytes of the text when it is entered and when a word is appended,
the breaks with a fourth one, the lines at a full line, at a break and at the
last line. Four strings are too few for three links, as ten are for six, and
a link can be the first piece, the last, or two from the end. Five bytes of
search text hold "None" and the terminator and let it overflow at the fifth key.
Three slots are full with seven nodes and the eighth goes through them all,
which 32 slots would need 2^32 nodes for.

`Bound`, `MaxSize`, `MaxUnread`, `MaxArrivals`, `MaxReads`, `MaxPieces`,
`MaxNodes` and `MaxKey` bound the models and not the code; each is declared
with that comment. `ArraySize` (1000 in the code), `FlatLimit` (1000), `Lines`,
`WindowSize`, `Keep` (10), `TextRoom` (30), `Slots` (10), `NumLists` (32),
`Width` (60 or 90), `TargetRoom` (4000), `BreakRoom` (200) and `LineRoom` (100:
the array is allocated as 50 structures of two pointers' size each and holds
pointers) stand for the code's own limits, made small. An article is never
freed and addresses are never compared, so `ArticleList` lets `malloc` return
the free nodes in a fixed order.

Fairness. `Queue` assumes that the scheduler runs a thread that can run (weak
fairness of each thread's steps, and of taking the mutex: a POSIX mutex may let
one waiter be overtaken for ever, so no strong fairness is assumed); no call is
fair, since the program decides whether to make it. No property says that the
unlocked `QSize` returns: each further turn of its walk needs another append,
and as no node is freed before the clearing, a small heap would end it by being
full. `Downloader` assumes that the worker goes on, which `CURLOPT_TIMEOUT`
(`downloader.c:49`) justifies for requests. `FetchArticles` sets no timeout, so
`ArticleList` assumes nothing of a request, and `FetchEnds` starts from its
answer. `ListSort` is one thread that goes on while it can. The other modules
have no liveness property and assume no fairness.

## What the runs found

* **The down key scrolls past the end** (`MCTreeViewerDown`,
  `crs_tree_test.c:545`). `moveDown` bounds the selection when it moves inside
  the window and not when it scrolls; at the end of a list longer than the
  window the next redraw reads behind the flat array. `LeavesTheListOnlyBy`, in
  the passing run, shows that this and a refresh that brings a shorter tree are
  the only two ways to get there.
* **A fetch during a sort loses an article** (`MCArticleListRace`,
  `hnfetcher.c:199`). The fetch thread ends its walk at a node that `SortList`
  has just cut; the sort links the rest of the list behind that node; the fetch
  then stores the new article over that link.
* **The space bar marks the article below the highlighted one**
  (`MCGrabberMark`, `grabber.c:75`). Rows are drawn from `BORDER + 1`, and
  `ArticleGet` counts from 0.

Some passing properties also state limits of the code exactly.
`CrashOnlyFromGarbage`: `SortList` can follow an uninitialised pointer, and
only the head's, `hnfetcher.c:454`. `NothingForgotten`: a failed request loses
its item and what only it leads to, since the id is popped first.
`TreeIsWhatWasAnswered`: the answers below a deleted comment are downloaded and
never shown. `TriesNeverHelp`: the three rounds of waiting find no work, ever.
`RepliesAreReversed`: the tree lists the replies backwards. `ShiftsAreBounded`:
a story that arrives during the paging duplicates at most one, and a story read
elsewhere hides at most one. `LinesFit`: the first line is one column wider.
`LinesSayTheText`: what a comment loses on its way to the screen is semicolons,
plus signs and whatever stands between two spaces and is wider than the line,
several words of it when newlines part them, since newlines become spaces only
after the words were measured; and a link that ends fewer than three characters
before the text leaves the rest of its "/a>" on the screen. Joining the words
adds one space at most, so that a text of 3999 bytes may overflow its 4000, and
a shorter one does not. `RoomForLines`: fifty breaks always overflow the array
of lines, which is full before the array of 200 breaks is; without breaks it
takes at least 50 times `Width + 1` characters. `LinksAreKept`: the strings run
out at the sixth link. `NoDuplicateArticles` speaks of articles with a hash:
one without is listed again at each fetch. `SearchesWhatWasTyped` does not
speak of Enter outside a search, which shortens the text of the last one by a
character and searches for the rest, nor of arrows and page keys within one,
which leave a byte in the text. `OpensTheNextArticle`: `o` opens what the space
bar would mark, the article below the highlighted one, and on the last article
a link that was never written; so it does on one that was the last when the
window was drawn, while a fetch appends. `MarksSurvive` is checked with the
threads taking turns; with `Concurrent = TRUE` it fails, since a redraw that
read the flags before the space key and writes them after it undoes the mark.
`SortsEndStable`: the merge sort of `Articles.c` leaves a list of different
texts in the order it had.

## What is proved

The theorems hold for every value of the constants that satisfies the named
assumption of the module.

* `QueueProofs`: `Invariant` (the inductive invariant `Inv`), `TypeCorrect`,
  `HeapIsAList`, `UnlockedSizeIsRight`, `DereferencesAreGood`, `ClearIsExact`.
  The properties are not inductive: whether a size is right depends on where
  `QSize` stands, and that depends on the list. `Inv` therefore says who holds
  the mutex (`MutexInv`), that the heap is the doubly linked list `contents`
  and that a node cut off leads nowhere (`ListInv`), that listed nodes are
  allocated (`AllocInv`), where each walk stands relative to `contents`
  (`WalkInv`, `SizeInv`, `ClearInv`), and what the locals hold between calls
  (`LocalsInv`). The key case is a pop under a `QSize`: the reader is on the
  list with its count, or on a node cut off behind a list that did have that
  length. One lemma per conjunct shows that it survives a step; pushes and pops
  are the two heap changes all of them share (`PushHeap`, `PopHeap`).
  `QueueImplementsWorkStack` is the refinement: each step of the pointer-level
  queue is a step of the atomic stack or a stutter; the stack's step happens
  where the list is changed or found empty or to hold the id. Assumes
  `QueueAssumption` (ids are natural numbers, the null pointer is no node and
  no thread's name means "unlocked").
* `DownloaderProofs`: `Invariant`, `TypeCorrect`, `FetchedOnce`, `Complete`,
  `TriesRepeatNothing`, `OverflowNeedsTexts`. `Inv` says what the ids on the
  stack and those fetched are, exactly: the root and the kids handed over so far
  (`FrontierInv`); what is in `noderay` (`NoderayInv`); what `count` counts; and
  that a try is used up only when the stack is empty (`TriesInv`). The assumption
  is on the server: a forest, in which an item is listed as a kid once. The
  code relies on it: `QAppendItem` refuses only ids still queued.
  `TreeInvariant`, `TreeIsComplete` and `SiblingsAreReversed` are about the tree
  that comes out. `TreeInv` adds that `noderay` holds all that was answered with
  a text (`StoredInv`) and how the replies to one comment lie on the stack, then
  in `noderay` (`OrderInv`): the later one higher, hence stored first.
  `DownloadRunsDown` is what `DownloadEnds` needs besides fairness: every step
  lowers `ToDo`, a natural number. Popping an item may queue any number of kids;
  the item pays for it, since it is never popped again and a list of kids is no
  longer than there are items (`FewKids`, `PopRunsDown`).
* `TreeViewerProofs`: `ScreenIsTheTree`, `WalksDoAgree`, `PaneIsRight`,
  `ToggleKeeps` and `LeavesOnlyBy`, which are all the passing run checks, for
  every tree that `IsTree` allows and every window. `Invariant` is short: every
  redraw sets the flat array and the total to what the walks compute, so `Inv`
  says that they are that, and that the pane shows the selected row. The work is
  in the walks. `DownInduction`: what holds of a node when it holds of its first
  child and its next sibling holds of all, since the pointers lead away from the
  root, and `UpInduction` the other way. With it each recursive function
  satisfies its equation (`VisibleSizeIs`, `FlatTreeIs`, ...). `Lists` says what
  a listing of a node and the siblings behind it is (which nodes, their depths,
  and each above the later ones); the flat array and both printed trees are
  listings. A node is above what follows it on the screen by `Above`, whose
  order is total and not circular; folding changes the rows behind the folded
  one only (`ToggleStays`). The limit of the recursion is never met, for a tree
  of up to `FlatLimit + 1` nodes: `noderay` has room for 1000 comments, and the
  limit is 1000. `AppendingMakesTrees` says why `IsTree` is what the code
  builds: a comment that is not linked yet, appended to one that is, leaves a
  tree with that comment as a last child, starting from `UnlinkedIsTree`.
* `GrabberProofs`: `Invariant`, `TypeCorrect`, `SlideIsSafe`, `EndsAreFound`,
  `SearchTextIsRight`, `LinkIsTheNextArticle`. `Inv` bounds how far the window
  scrolls relative to the list (`ScrollInv`) and where the row can be after a
  redraw (`RowInv`); both equality tests then meet the sum before it passes
  them. While a search is open that saw no stray key, the bytes of the text are
  the characters typed and behind them it is cleared (`TextInv`); the property
  needs the second half too, since a byte left behind the end would come back
  with the next key. The link is that of the article below the selected row;
  while a fetch appends, that article may have come since the last redraw
  (`LinkInv`). `WindowOK` and `TextOK` are the halves that a redraw and a key
  are about: a lemma for each handler shows that it keeps the one it changes.
  Assumes a window of at least 12 lines and room for the text's first value.
* `ArticleListProofs`: `Invariant`, `DoublyLinked`, `NoDuplicates`,
  `CrashIsFromGarbage`, `StablePartition` and `NothingLostWithoutTheRace`
  assume `~Concurrent`: no key is handled while a fetch changes the list.
  Without it the shape of the list is lost, as `MCArticleListRace` shows.
  `MarksAreKept` assumes it too, and needs `WordsInv` beside `Inv`: a word of
  flags that was read to be written back is still that of its article. `Inv`
  says that outside a sort the list is a chain of all articles but the one
  being fetched, linked both ways behind the head, whose last article no search
  has matched (`ChainInv`); that articles which have a hash differ by it
  (`HashesInv`); which of them a fetch has passed (`FetchInv`); and that within
  a sort the articles looked at so far are dealt out, in their order, to two
  chains that end at the two tails the code keeps, while the rest is as it was
  (`SortInv`). That the last article does not match is why `applySearch` may
  stop in front of it and why the second chain is never empty. Assumes that
  there is a node to allocate, since the first `malloc` is not looked at.
* `NewsBlurProofs`: `Invariant`, `NeverWithoutAHead`, `BoundedShifts`. `Inv`
  divides the unread stories at the line between the pages asked for and the
  rest: what was fetched and lies below it will come again, what was not and
  lies above it will not come (`ShiftInv`). One arrival or one read moves one
  story over that line.
* `SegmentsProofs`: `Invariant`, `PointersInside`, `EveryLineFits`,
  `LinesHaveRoom`, for every width, every size of the three arrays and every
  sequence of words; its `Spec` is `splitIntoSegments` called with any of them,
  which includes what `CommentText` calls it with. `Inv` relates the last
  space, the start of the line and the place of the last cut (`ScanInv`) and
  counts the lines (`CountInv`): two for each break passed, and for the full
  ones a line may end early in front of a long word, but then the next one ends
  behind that word, so that there are at most two for every `Width + 1`
  characters. What overflows the array therefore is too long for it.
* `ListSortProofs`: `Invariant`, `SortsAreStable`, `SlotsHoldPowersOfTwo`, for
  every list, every order of the numbers and every number of slots.
  `SortsAreStable` is the safety half of `SortsEndStable`: a list that a sort
  has finished has every node once, in ascending order, equal numbers as they
  stood. `Inv` says of `SortList` that there are bounds in the input between the
  slots: what lies in a slot came after everything in the higher ones, and is a
  sorted run of all nodes between two bounds (`IsRun`, `SlotOK`). This is why
  taking the node of the older run first when two are equal keeps the order they
  came in. A carried run has the nodes above the bound of the slot it is held
  against and as many as that slot takes (`CarryInv`), and a merge in progress
  has moved the nodes up to its tail, in order, and leaves two sorted rests
  (`MergeInv`). Of `SortTree` it says that the list is all nodes in some order,
  that equal numbers have not passed each other and that nothing descends up to
  `tmp` (`WalkInv`).
  `SortsRunDown` is what `SortsEndStable` needs besides fairness: every step
  lowers `StepsLeft`, a natural number. In `SortList` a node taken pays for all
  the slots, a slot for its merge, and a merge never goes back over a node; in
  `SortTree`, which begins again at the head, a swap rights one pair and leaves
  every other as it was (`ExchangeHelps`). `RecursiveSortsAreRight` is about
  `MergeSorts`: the sort of `simple.c` gives every list the order the other two
  leave, that of `Articles.c` leaves different texts where they were. `Recursion`
  says that a recursion that goes to smaller data defines a function;
  `SortedMergeMerges` and `ArticlesJoins` say what the two merges make of two
  halves whose nodes stood one behind the other, and `MergeSortsDo` takes them
  up the recursion.

Some of these results are about recursive functions over the data, which the
library's induction theorems do not reach (they take an operator). They are
proved from the least counterexample instead: `Least`, a set of numbers that is
not empty has a least element, and the recursive definition itself.

Only model-checked: all liveness (it needs fairness and `ENABLED`), of which
`DownloadRunsDown` and `SortsRunDown` prove the part that does not; and
`LinesSayTheText` and `LinksAreKept`, which say what folds over the characters of
a text compute.

## Not modelled, and why

* `DownloadArticleHeaders` (`downloader.c:287`) repeats `downloadURL` with
  differences in its logging and has no caller.
* The text of the header and footer of `grabber.c`, the command line that
  `openLink` builds for the browser, and the toggle of the comment window, which
  only the drawing reads.
* Decimal entities, percent signs an author wrote and links with a quotation
  mark in them; `searchReplace` and `url_encode`.
* `AppendItem`, `GetNextTreeElement`, `TreeFree`, `ResetFlatTree`, `XSortedMerge`
  and `MoveNode`: no caller, or no state that is read again.
* What follows undefined behaviour: a model stops in the state `crashed`,
  `overflow`, `undefined`, `textfull`, `breaksfull` or `linesfull`, or shows
  `Garbage`.
* Answers about articles with fields missing or of another type than string,
  which end the program in `strlen`; bit 3 of `flags`, which nobody tests (the
  rewriting of the word for it is modelled); `SortTree` on an empty list, which
  dereferences null and which no caller does.
* The search and replacement of entities inside `splitIntoSegments`: the callers
  decode first, so that it is not entered.
* The demos, configuration reader, examples and test drivers: input and output,
  or calls into what is modelled. `comment_fetch.c` is an earlier download by
  one thread that logs the comments and keeps nothing; nobody calls it.

## Plan

The order is that of importance: what several threads or a long session can
break first.

1. Done: the queue (specification, refinement, proofs), the download, the viewer,
   the article list, the article window, the NewsBlur client, the line breaker.
2. Done: `Links` and `CommentText`, the way of a comment's text from the server
   to the screen; the search text and the link of `Grabber`, with their proofs;
   the rest of `comment_tree.c`; the sorts.
3. Done, proved: the paging of `NewsBlur`; the shape of the list, its sorts and
   its marks in `ArticleList`; the tree of `Downloader`; the lines of `Segments`;
   the sorts of `ListSort`.
4. Done, proved: what `TreeViewer` shows and what the walks of `CommentTree`
   compute; that `AppendChild` makes trees.
5. Later, model: `Grabber` over `ArticleList`, so that the selected row, the mark
   and the article are one state; the download with several workers over `Queue`
   and the mutex that `downloadURL` copies.
