------------------------------ MODULE NewsBlur ------------------------------
(***************************************************************************)
(* The download of unread stories: main of src/t_newsblur.c, with          *)
(* NewsBlurLogin and NewsBlurArticles of src/downloader.c and the list of  *)
(* src/stories.c.  Pages are requested until one adds nothing, while the   *)
(* server's list changes: stories arrive at its front and are read         *)
(* elsewhere.  No result code of curl is looked at, and no request has a   *)
(* timeout.                                                                *)
(***************************************************************************)
EXTENDS Integers, Sequences, FiniteSets

CONSTANTS PageSize,    \* stories in a page of the server's answer
          MaxUnread,   \* bound: stories unread at first
          MaxArrivals, \* bound: stories that arrive during the download
          MaxReads,    \* bound: stories read elsewhere during it
          Keep         \* stories written to the file, 10 in the code

ASSUME NewsBlurAssumption == /\ PageSize \in Nat \ {0}
                             /\ {MaxUnread, MaxArrivals, MaxReads, Keep} \subseteq Nat

VARIABLES
  unread,     \* the server's list, the newest first
  token,      \* the session cookie
  page,       \* main's c
  cn, total,  \* stories of the last page, and main's t
  head,       \* main's story: the list it points to, Blank when NULL title
  saved,      \* the hashes in the configuration file
  pc,
  arrivals,   \* history: stories arrived, stories read elsewhere,
  reads,      \* whether a request failed, and what was unread at the login
  failed,
  first

history == <<arrivals, reads, failed, first>>
vars == <<unread, token, page, cn, total, head, saved, pc, arrivals, reads, failed, first>>

Blank == 0   \* newStory(): neither title nor hash

Elements(s) == {s[k] : k \in 1..Len(s)}

Init == /\ \E n \in 0..MaxUnread : unread = [k \in 1..n |-> n + 1 - k]
        /\ token = "unset"
        /\ page = 1
        /\ cn = -1
        /\ total = 0
        /\ head = <<Blank>>
        /\ saved = << >>
        /\ pc = "login"
        /\ arrivals = 0 /\ reads = 0
        /\ failed = FALSE
        /\ first = Elements(unread)

(* NewsBlurLogin returns the cookie header_callback found, or, when there  *)
(* was none, what its local token happened to hold.                        *)
Login == /\ pc = "login"
         /\ token' \in {"cookie", "null", "garbage"}
         /\ pc' = "feeds"
         /\ UNCHANGED <<unread, page, cn, total, head, saved, history>>

(* NewsBlurFeeds is given the token before main looks at it, and curl      *)
(* copies the string: garbage may be the end.                              *)
Feeds == /\ pc = "feeds"
         /\ \/ token = "garbage" /\ pc' = "crashed"
            \/ token # "null" /\ pc' = "page"
            \/ token = "null" /\ pc' = "exited"
         /\ UNCHANGED <<unread, token, page, cn, total, head, saved, history>>

Smaller(a, b) == IF a < b THEN a ELSE b

(* Mutant: pages counted from 0.                                           *)
PageFromZero(c) == SubSeq(unread, c * PageSize + 1, Smaller((c + 1) * PageSize, Len(unread)))

(* What the server answers to a request for page c.                        *)
Page(c) == SubSeq(unread, (c - 1) * PageSize + 1, Smaller(c * PageSize, Len(unread)))

(* Mutant: an empty first page does not end the loop.                      *)
ReceivedGoesOn(stories) ==
  LET all == head \o stories
  IN /\ head' = IF all # << >> /\ Head(all) = Blank THEN Tail(all) ELSE all
     /\ cn' = Len(stories)
     /\ total' = total + Len(stories)
     /\ page' = page + 1
     /\ pc' = IF stories = << >> /\ page > 1 THEN "write" ELSE "page"

(* NewsBlurArticles appends the stories it was sent, drops the blank head  *)
(* and tells their number, on which main's loop depends.                   *)
Received(stories) ==
  LET all == head \o stories
  IN /\ head' = IF Head(all) = Blank THEN Tail(all) ELSE all
     /\ cn' = Len(stories)
     /\ total' = total + Len(stories)
     /\ page' = page + 1
     /\ pc' = IF stories = << >> THEN "write" ELSE "page"

PageArrives == /\ pc = "page"
               /\ token = "cookie"
               /\ Received(Page(page))
               /\ UNCHANGED <<unread, token, saved, history>>

(* No connection, no JSON, or, without a session, no stories: each looks   *)
(* like an empty page.                                                     *)
PageFails == /\ pc = "page"
             /\ Received(<< >>)
             /\ failed' = TRUE
             /\ UNCHANGED <<unread, token, saved, arrivals, reads, first>>

(* The first stories' hashes go to the file, if it can be written.         *)
Write == /\ pc = "write"
         /\ pc' = "done"
         /\ \/ saved' = SubSeq(head, 1, Smaller(Keep, Len(head)))
            \/ UNCHANGED saved
         /\ UNCHANGED <<unread, token, page, cn, total, head, history>>

Work == Login \/ Feeds \/ PageArrives \/ PageFails \/ Write

-----------------------------------------------------------------------------
(* The server *)

Arrive == /\ arrivals < MaxArrivals
          /\ pc = "page"
          /\ arrivals' = arrivals + 1
          /\ unread' = <<MaxUnread + arrivals'>> \o unread
          /\ UNCHANGED <<token, page, cn, total, head, saved, pc, reads, failed, first>>

ReadElsewhere == /\ reads < MaxReads
                 /\ pc = "page"
                 /\ reads' = reads + 1
                 /\ \E k \in 1..Len(unread) :
                      unread' = SubSeq(unread, 1, k - 1) \o SubSeq(unread, k + 1, Len(unread))
                 /\ UNCHANGED <<token, page, cn, total, head, saved, pc, arrivals, failed, first>>

Ended == pc \in {"exited", "crashed", "done"} /\ UNCHANGED vars

Next == Work \/ Arrive \/ ReadElsewhere \/ Ended

Spec == Init /\ [][Next]_vars

-----------------------------------------------------------------------------
(* The inductive invariant *)

\* What the loop has fetched, and how far down the list it has asked; the
\* stories that lie above and below that line now.
Fetched == Elements(head)
Asked == (page - 1) * PageSize
Above == {unread[k] : k \in 1..Smaller(Asked, Len(unread))}
Below == {unread[k] : k \in (Asked + 1)..Len(unread)}

\* Stories of the list that it holds already.
Repeated == Len(head) - Cardinality(Fetched)

\* Stories are numbered as they come, from 1, and listed once.
StoriesInv ==
  /\ page \in Nat \ {0}
  /\ arrivals \in Nat /\ reads \in Nat /\ failed \in BOOLEAN
  /\ unread \in Seq(1..(MaxUnread + arrivals))
  /\ \A j, k \in 1..Len(unread) : unread[j] = unread[k] => j = k
  /\ first \subseteq 1..MaxUnread

\* The blank head is dropped with the first page, and what takes its place
\* is no story only when that page was empty.
HeadInv ==
  /\ head \in Seq(0..(MaxUnread + arrivals))
  /\ pc \in {"login", "feeds", "page"} =>
       IF page = 1 THEN head = <<Blank>> ELSE head # << >> /\ Blank \notin Fetched

\* A story fetched before that lies below the line will be repeated; one
\* not fetched that lies above it will be missed.  An arrival moves one
\* story down, a read one up.
ShiftInv ==
  ~failed =>
    /\ Repeated + Cardinality(Fetched \cap Below) <= arrivals
    /\ Cardinality((first \cap Above) \ Fetched) <= reads
    /\ pc \in {"write", "done"} => Below = {}

Inv == StoriesInv /\ HeadInv /\ ShiftInv

-----------------------------------------------------------------------------
(* Properties *)

(* NewsBlurArticles dereferences *story, and may itself make it null when  *)
(* it drops the blank head: never while another page will be requested     *)
(* (downloader.c:279-284).                                                 *)
ListHasAHead == pc = "page" => head # << >>

(* Page numbers count from the front of a list that moves: a story that    *)
(* arrives pushes one already fetched onto the next page, and one read     *)
(* elsewhere pulls one past it.  At most that: when no request failed, a   *)
(* story is repeated for each arrival and missed for each read at most.    *)
Missed == (first \cap Elements(unread)) \ Fetched

ShiftsAreBounded ==
  pc = "done" /\ ~failed => Repeated <= arrivals /\ Cardinality(Missed) <= reads
=============================================================================
