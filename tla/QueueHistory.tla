---------------------------- MODULE QueueHistory ----------------------------
(***************************************************************************)
(* Queue with two history variables, and what it must satisfy.  contents   *)
(* is the sequence of nodes the queue holds, kept by the operations and    *)
(* never read by them: the heap must agree with it.  seen collects, for    *)
(* each thread inside QSize, the lengths the queue has had since its call. *)
(***************************************************************************)
EXTENDS Queue

VARIABLES contents, seen

hvars == <<head, next, previous, id, used, dead, owner, pc,
           arg, flag, tmp, prev, cnt, ret, main, cur, contents, seen>>

HInit == /\ Init
         /\ contents = << >>
         /\ seen = [t \in Threads |-> {}]

(* The lengths each QSize in progress may still report.                    *)
Observe == seen' = [t \in Threads |->
                      IF pc'[t] \notin SizePcs THEN {}
                      ELSE IF pc[t] \in SizePcs THEN seen[t] \cup {Len(contents')}
                      ELSE {Len(contents')}]

Front(s) == SubSeq(s, 1, Len(s) - 1)

Pushes(t, n) == AppendFirst(t, n) \/ AppendLink(t, n)

Pops(t) == PopLast(t) \/ PopCut(t)

(* The steps of t that leave the contents alone.                           *)
Quiet(t) == \/ CallStep(t)
            \/ Lock(t)
            \/ Unlock(t)
            \/ AppendFirstNoMemory(t)
            \/ AppendBegin(t)
            \/ FindDuplicate(t)
            \/ FindStep(t)
            \/ FindNone(t)
            \/ AppendWalk(t)
            \/ AppendNoMemory(t)
            \/ PopEmpty(t)
            \/ PopBegin(t)
            \/ PopWalk(t)
            \/ SetDead(t)
            \/ SizeStep(t)

HPush(t, n) == Pushes(t, n) /\ contents' = Append(contents, n) /\ Observe
HPop(t)     == Pops(t) /\ contents' = Front(contents) /\ Observe
HQuiet(t)   == Quiet(t) /\ contents' = contents /\ Observe
HMain       == (ClearStep \/ Finished) /\ UNCHANGED <<contents, seen>>

HNext == \/ \E t \in Threads : \/ \E n \in Nodes : HPush(t, n)
                               \/ HPop(t)
                               \/ HQuiet(t)
         \/ HMain

HSpec == HInit /\ [][HNext]_hvars

-----------------------------------------------------------------------------
TypeOK == /\ head \in Pointers
          /\ next \in [Nodes -> Pointers]
          /\ previous \in [Nodes -> Pointers]
          /\ id \in [Nodes -> Ids]
          /\ used \in SUBSET Nodes
          /\ dead \in BOOLEAN
          /\ owner \in Threads \cup {NoThread}
          /\ pc \in [Threads -> Pcs]
          /\ arg \in [Threads -> Ids \cup {NoId}]
          /\ \A t \in Threads : pc[t] \in AppendPcs => arg[t] \in Ids
          /\ flag \in [Threads -> BOOLEAN]
          /\ tmp \in [Threads -> Pointers]
          /\ prev \in [Threads -> Pointers]
          /\ cnt \in [Threads -> Nat]
          /\ ret \in [Threads -> Int]
          /\ main \in {"join", "walk", "free", "done"}
          /\ cur \in Pointers
          /\ contents \in Seq(Nodes)
          /\ seen \in [Threads -> SUBSET Nat]

(* The thread that holds the mutex is the one inside a critical section,   *)
(* and once main has joined the workers nobody is in a call.               *)
MutexInv == /\ \A t \in Threads : pc[t] \in HeldPcs <=> owner = t
            /\ main # "join" => \A t \in Threads : At(t, "idle")

Positions == 1..Len(contents)

IsHeld(n) == \E k \in Positions : contents[k] = n

Succ(k) == IF k < Len(contents) THEN contents[k + 1] ELSE Nil
Pred(k) == IF k > 1 THEN contents[k - 1] ELSE Nil

(* The heap is a doubly linked list of exactly the nodes in contents, in   *)
(* that order, and a node that was popped leads nowhere: an unlocked       *)
(* reader that stands on it stops.                                         *)
ListInv ==
  /\ head = IF contents = << >> THEN Nil ELSE contents[1]
  /\ \A k \in Positions : next[contents[k]] = Succ(k)
  /\ \A k \in Positions : previous[contents[k]] = Pred(k)
  /\ \A j, k \in Positions : contents[j] = contents[k] => j = k
  /\ \A n \in Nodes : ~IsHeld(n) => next[n] = Nil

(* While workers run, no node on the list has been freed.                  *)
AllocInv == main \in {"join", "walk"} => \A k \in Positions : contents[k] \in used

(* No id is queued twice (QAppendItem's QFindById test).                   *)
NoDuplicateIds == \A j, k \in Positions : id[contents[j]] = id[contents[k]] => j = k

(* Where the local pointers of a thread that holds the mutex stand: on the *)
(* list, with everything already passed different from the id to append.   *)
FindPlace(t) ==
  At(t, "a_find") =>
    /\ contents # << >>
    /\ \/ tmp[t] = Nil /\ \A j \in Positions : id[contents[j]] # arg[t]
       \/ \E k \in Positions : /\ tmp[t] = contents[k]
                               /\ \A j \in 1..(k - 1) : id[contents[j]] # arg[t]

LinkPlace(t) ==
  At(t, "a_walk") => /\ \E k \in Positions : tmp[t] = contents[k]
                     /\ \A j \in Positions : id[contents[j]] # arg[t]

PopPlace(t) ==
  At(t, "p_walk") =>
    /\ Len(contents) > 1
    /\ \E k \in Positions : /\ tmp[t] = contents[k]
                            /\ prev[t] = IF k = 1 THEN contents[1] ELSE contents[k - 1]

WalkInv == \A t \in Threads : FindPlace(t) /\ LinkPlace(t) /\ PopPlace(t)

(* Where an unlocked QSize stands: on the list with the count that belongs *)
(* there, or on a node cut off behind it, having counted to a length the   *)
(* list has had since the call.  A node it stands on was not freed.        *)
SizePlace(t) ==
  /\ pc[t] \in SizePcs => Len(contents) \in seen[t]
  /\ pc[t] \in {"s_check", "s_read"} => cnt[t] = 0
  /\ At(t, "s_walk") =>
       \/ \E k \in Positions : tmp[t] = contents[k] /\ cnt[t] = k - 1
       \/ /\ tmp[t] \in Nodes /\ tmp[t] \in used /\ ~IsHeld(tmp[t])
          /\ cnt[t] + 1 \in seen[t]
       \/ tmp[t] = Nil /\ cnt[t] \in seen[t]
  /\ At(t, "s_done") => cnt[t] \in seen[t]

SizeInv == \A t \in Threads : SizePlace(t)

(* Where QueueEntireClear stands.                                          *)
ClearInv ==
  /\ main = "walk" => \E k \in Positions : cur = contents[k]
  /\ main = "free" =>
       \E k \in 0..Len(contents) :
         /\ cur = IF k = 0 THEN Nil ELSE contents[k]
         /\ \A j \in Positions : contents[j] \in used <=> j <= k
  /\ main = "done" => \A k \in Positions : contents[k] \notin used

(* The argument and the result of a thread that is in no append, or has    *)
(* none to return.                                                         *)
LocalsInv ==
  \A t \in Threads : /\ pc[t] \notin AppendPcs \cup {"unlock"} => arg[t] = NoId
                     /\ pc[t] # "unlock" => ret[t] = 0

Inv == TypeOK /\ MutexInv /\ ListInv /\ AllocInv /\ NoDuplicateIds
       /\ WalkInv /\ SizeInv /\ ClearInv /\ LocalsInv

-----------------------------------------------------------------------------
(* Properties *)

(* QSize is called without the mutex, even by workers deciding whether to  *)
(* stop (crs_tree_test.c:102): the number it returns is nevertheless a     *)
(* length the queue had at some moment during the call, however many       *)
(* appends and pops overtook it.                                           *)
SizeIsALengthItHad == \A t \in Threads : At(t, "s_done") => cnt[t] \in seen[t]

(* No thread follows a null pointer or one to freed memory: each pointer a *)
(* walk is about to dereference is an allocated node (queue.c:149-157,     *)
(* 187-198, 219-225).  The unlocked QSize may stand on a node that another *)
(* thread pops, and is safe only because QpopItem does not free it.        *)
NoBadDereference ==
  \A t \in Threads :
    /\ pc[t] \in {"a_walk", "p_walk"} => tmp[t] \in used
    /\ At(t, "p_walk") => prev[t] \in used
    /\ At(t, "s_walk") => tmp[t] \in used \cup {Nil}

(* QueueEntireClear frees each node of the list once and no other: it      *)
(* never reads or frees one that is already freed, and when it returns     *)
(* none is left.  It relies on every previous link being right.            *)
ClearFreesTheList ==
  /\ main \in {"walk", "free"} /\ cur # Nil => cur \in used
  /\ main = "done" => \A k \in Positions : contents[k] \notin used

(* What the pointers implement: an atomic stack of distinct ids, each call *)
(* of which takes effect between its invocation and its return.            *)
CallOf(l) == CASE l \in AppendPcs -> "append"
               [] l \in PopPcs -> "pop"
               [] l = "unlock" -> "done"
               [] OTHER -> "idle"

WS == INSTANCE WorkStack
        WITH items <- [k \in Positions |-> id[contents[k]]],
             call  <- [t \in Threads |-> CallOf(pc[t])]

(* Every behaviour of the list under the mutex is one of the abstract      *)
(* stack: what a pop returns and a failed append reports is what an atomic *)
(* stack would (QAppendItem and QpopItem, queue.c:122-204).                *)
ImplementsWorkStack == WS!Spec
=============================================================================
