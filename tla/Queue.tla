------------------------------- MODULE Queue -------------------------------
(***************************************************************************)
(* src/queue.c at the level of its pointers: a doubly linked list of       *)
(* malloc'd nodes hanging off one head, a mutex the caller passes in, and  *)
(* threads that append, pop, mark and measure it (the harness is           *)
(* src/ltestqueue.c and the workers of src/crs_tree_test.c).  QSize takes  *)
(* no lock.  The main thread joins the others and then frees the list.     *)
(* A step is one access to memory another thread can see.                  *)
(***************************************************************************)
EXTENDS Integers, Sequences, FiniteSets

CONSTANTS Threads,   \* the worker threads
          Nodes,     \* the heap: every queue node malloc can ever return
          Ids,       \* the item ids the workers append
          Nil,       \* the null pointer
          NoThread   \* the owner of an unlocked mutex

ASSUME QueueAssumption == /\ Ids \subseteq Nat
                          /\ Ids # {}
                          /\ Nil \notin Nodes
                          /\ NoThread \notin Threads

VARIABLES
  head,        \* head->queue
  next,        \* the three fields of a node
  previous,
  id,
  used,        \* the nodes malloc has returned and nobody has freed
  dead,        \* head->dead
  owner,       \* the thread that holds the mutex
  pc,          \* where each worker is
  arg,         \* QAppendItem's newId
  flag,        \* QMarkDead's dead
  tmp, prev,   \* the local pointers of the walks
  cnt,         \* QSize's local i
  ret,         \* the result of an append or pop about to return
  main,        \* the main thread: "join", "walk", "free" or "done"
  cur          \* QueueEntireClear's tmp

heap   == <<head, next, previous, id, used>>
locals == <<arg, flag, tmp, prev, cnt, ret>>
mainvars == <<main, cur>>
vars == <<head, next, previous, id, used, dead, owner, pc,
          arg, flag, tmp, prev, cnt, ret, main, cur>>

AppendPcs == {"a_lock", "a_check", "a_find", "a_walk"}
PopPcs    == {"p_lock", "p_check", "p_walk"}
SizePcs   == {"s_check", "s_read", "s_walk", "s_done"}
LockPcs   == {"a_lock", "p_lock", "m_lock"}
HeldPcs   == {"a_check", "a_find", "a_walk", "p_check", "p_walk",
              "m_set", "unlock", "m_unlock"}
Pcs == {"idle"} \cup LockPcs \cup HeldPcs \cup SizePcs

NoId == -1   \* no argument: the thread is in no append

Pointers == Nodes \cup {Nil}

(* newQueue() and pthread_mutex_init.                                      *)
Init == /\ head = Nil
        /\ next = [n \in Nodes |-> Nil]
        /\ previous = [n \in Nodes |-> Nil]
        /\ used = {}
        /\ dead = FALSE
        /\ owner = NoThread
        /\ pc = [t \in Threads |-> "idle"]
        /\ \E i \in Ids : id = [n \in Nodes |-> i]      \* malloc's garbage
        /\ arg = [t \in Threads |-> NoId]
        /\ flag = [t \in Threads |-> FALSE]
        /\ tmp = [t \in Threads |-> Nil]
        /\ prev = [t \in Threads |-> Nil]
        /\ cnt = [t \in Threads |-> 0]
        /\ ret = [t \in Threads |-> 0]
        /\ main = "join"
        /\ cur = Nil

At(t, l)   == pc[t] = l
Goto(t, l) == pc' = [pc EXCEPT ![t] = l]

(* The call completes with result r; only the unlock is left.              *)
Finish(t, r) == /\ Goto(t, "unlock")
                /\ ret' = [ret EXCEPT ![t] = r]

(* The call returns and its locals go out of scope.                        *)
LeaveCall(t) == /\ Goto(t, "idle")
                /\ arg' = [arg EXCEPT ![t] = NoId]
                /\ flag' = [flag EXCEPT ![t] = FALSE]
                /\ tmp' = [tmp EXCEPT ![t] = Nil]
                /\ prev' = [prev EXCEPT ![t] = Nil]
                /\ cnt' = [cnt EXCEPT ![t] = 0]
                /\ ret' = [ret EXCEPT ![t] = 0]

-----------------------------------------------------------------------------
(* Calls.  Main has not joined the workers yet.                            *)

CallAppend(t, i) == /\ At(t, "idle") /\ main = "join"
                    /\ Goto(t, "a_lock")
                    /\ arg' = [arg EXCEPT ![t] = i]
                    /\ UNCHANGED <<heap, dead, owner, flag, tmp, prev, cnt, ret, mainvars>>

CallPop(t) == /\ At(t, "idle") /\ main = "join"
              /\ Goto(t, "p_lock")
              /\ UNCHANGED <<heap, dead, owner, locals, mainvars>>

CallMark(t, d) == /\ At(t, "idle") /\ main = "join"
                  /\ Goto(t, "m_lock")
                  /\ flag' = [flag EXCEPT ![t] = d]
                  /\ UNCHANGED <<heap, dead, owner, arg, tmp, prev, cnt, ret, mainvars>>

(* Mutant: QSize counts from -1.                                           *)
CallSizeFromMinusOne(t) ==
  /\ At(t, "idle") /\ main = "join"
  /\ Goto(t, "s_check")
  /\ cnt' = [cnt EXCEPT ![t] = -1]
  /\ UNCHANGED <<heap, dead, owner, arg, flag, tmp, prev, ret, mainvars>>

CallSize(t) == /\ At(t, "idle") /\ main = "join"
               /\ Goto(t, "s_check")
               /\ cnt' = [cnt EXCEPT ![t] = 0]
               /\ UNCHANGED <<heap, dead, owner, arg, flag, tmp, prev, ret, mainvars>>

Locked(l) == CASE l = "a_lock" -> "a_check"
               [] l = "p_lock" -> "p_check"
               [] l = "m_lock" -> "m_set"

Lock(t) == /\ pc[t] \in LockPcs
           /\ owner = NoThread
           /\ owner' = t
           /\ Goto(t, Locked(pc[t]))
           /\ UNCHANGED <<heap, dead, locals, mainvars>>

Unlock(t) == /\ pc[t] \in {"unlock", "m_unlock"}
             /\ owner' = NoThread
             /\ LeaveCall(t)
             /\ UNCHANGED <<heap, dead, mainvars>>

-----------------------------------------------------------------------------
(* QAppendItem *)

(* Mutant: the new node does not point back.                               *)
NewItemNoPrevious(n, i, before) ==
  /\ n \notin used
  /\ used' = used \cup {n}
  /\ id' = [id EXCEPT ![n] = i]
  /\ previous' = [previous EXCEPT ![n] = Nil]

(* newQueueItem(i) returned n.                                             *)
NewItem(n, i, before) ==
  /\ n \notin used
  /\ used' = used \cup {n}
  /\ id' = [id EXCEPT ![n] = i]
  /\ previous' = [previous EXCEPT ![n] = before]

(* malloc failed: the heap is exhausted.                                   *)
NoMemory == Nodes \subseteq used

AppendFirst(t, n) == /\ At(t, "a_check") /\ head = Nil
                     /\ NewItem(n, arg[t], Nil)
                     /\ next' = [next EXCEPT ![n] = Nil]
                     /\ head' = n
                     /\ Finish(t, 0)
                     /\ UNCHANGED <<dead, owner, arg, flag, tmp, prev, cnt, mainvars>>

(* The first-time branch stores newQueueItem's NULL and returns 0.         *)
AppendFirstNoMemory(t) == /\ At(t, "a_check") /\ head = Nil
                          /\ NoMemory
                          /\ Finish(t, 0)
                          /\ UNCHANGED <<heap, dead, owner, arg, flag, tmp, prev, cnt, mainvars>>

AppendBegin(t) == /\ At(t, "a_check") /\ head # Nil
                  /\ Goto(t, "a_find")
                  /\ tmp' = [tmp EXCEPT ![t] = head]
                  /\ UNCHANGED <<heap, dead, owner, arg, flag, prev, cnt, ret, mainvars>>

(* Mutant: the early return forgets to unlock.                             *)
FindDuplicateNoUnlock(t) ==
  /\ At(t, "a_find") /\ tmp[t] # Nil
  /\ id[tmp[t]] = arg[t]
  /\ LeaveCall(t)
  /\ UNCHANGED <<heap, dead, owner, mainvars>>

(* QFindById *)
FindDuplicate(t) == /\ At(t, "a_find") /\ tmp[t] # Nil
                    /\ id[tmp[t]] = arg[t]
                    /\ Finish(t, -1)
                    /\ UNCHANGED <<heap, dead, owner, arg, flag, tmp, prev, cnt, mainvars>>

FindStep(t) == /\ At(t, "a_find") /\ tmp[t] # Nil
               /\ id[tmp[t]] # arg[t]
               /\ tmp' = [tmp EXCEPT ![t] = next[tmp[t]]]
               /\ UNCHANGED <<heap, dead, owner, pc, arg, flag, prev, cnt, ret, mainvars>>

FindNone(t) == /\ At(t, "a_find") /\ tmp[t] = Nil
               /\ Goto(t, "a_walk")
               /\ tmp' = [tmp EXCEPT ![t] = head]
               /\ UNCHANGED <<heap, dead, owner, arg, flag, prev, cnt, ret, mainvars>>

AppendWalk(t) == /\ At(t, "a_walk") /\ next[tmp[t]] # Nil
                 /\ tmp' = [tmp EXCEPT ![t] = next[tmp[t]]]
                 /\ UNCHANGED <<heap, dead, owner, pc, arg, flag, prev, cnt, ret, mainvars>>

AppendLink(t, n) == /\ At(t, "a_walk") /\ next[tmp[t]] = Nil
                    /\ NewItem(n, arg[t], tmp[t])
                    /\ next' = [next EXCEPT ![n] = Nil, ![tmp[t]] = n]
                    /\ Finish(t, 0)
                    /\ UNCHANGED <<head, dead, owner, arg, flag, tmp, prev, cnt, mainvars>>

AppendNoMemory(t) == /\ At(t, "a_walk") /\ next[tmp[t]] = Nil
                     /\ NoMemory
                     /\ Finish(t, -1)
                     /\ UNCHANGED <<heap, dead, owner, arg, flag, tmp, prev, cnt, mainvars>>

-----------------------------------------------------------------------------
(* QpopItem.  The popped node is not freed: QueueFree is commented out.    *)

PopEmpty(t) == /\ At(t, "p_check") /\ head = Nil
               /\ Finish(t, -1)
               /\ UNCHANGED <<heap, dead, owner, arg, flag, tmp, prev, cnt, mainvars>>

(* QSize(head) == 1, which under the mutex says that the head has no next. *)
PopLast(t) == /\ At(t, "p_check") /\ head # Nil
              /\ next[head] = Nil
              /\ head' = Nil
              /\ Finish(t, id[head])
              /\ UNCHANGED <<next, previous, id, used, dead, owner,
                             arg, flag, tmp, prev, cnt, mainvars>>

PopBegin(t) == /\ At(t, "p_check") /\ head # Nil
               /\ next[head] # Nil
               /\ Goto(t, "p_walk")
               /\ tmp' = [tmp EXCEPT ![t] = head]
               /\ prev' = [prev EXCEPT ![t] = head]
               /\ UNCHANGED <<heap, dead, owner, arg, flag, cnt, ret, mainvars>>

PopWalk(t) == /\ At(t, "p_walk") /\ next[tmp[t]] # Nil
              /\ prev' = [prev EXCEPT ![t] = tmp[t]]
              /\ tmp' = [tmp EXCEPT ![t] = next[tmp[t]]]
              /\ UNCHANGED <<heap, dead, owner, pc, arg, flag, cnt, ret, mainvars>>

(* Mutant: the call to QueueFree is not commented out.                     *)
PopCutAndFree(t) ==
  /\ At(t, "p_walk") /\ next[tmp[t]] = Nil
  /\ next' = [next EXCEPT ![prev[t]] = Nil]
  /\ used' = used \ {tmp[t]}
  /\ Finish(t, id[tmp[t]])
  /\ UNCHANGED <<head, previous, id, dead, owner, arg, flag, tmp, prev, cnt, mainvars>>

(* Mutant: the id of the wrong node is returned.                           *)
PopCutPrevious(t) ==
  /\ At(t, "p_walk") /\ next[tmp[t]] = Nil
  /\ next' = [next EXCEPT ![prev[t]] = Nil]
  /\ Finish(t, id[prev[t]])
  /\ UNCHANGED <<head, previous, id, used, dead, owner, arg, flag, tmp, prev, cnt, mainvars>>

PopCut(t) == /\ At(t, "p_walk") /\ next[tmp[t]] = Nil
             /\ next' = [next EXCEPT ![prev[t]] = Nil]
             /\ Finish(t, id[tmp[t]])
             /\ UNCHANGED <<head, previous, id, used, dead, owner,
                            arg, flag, tmp, prev, cnt, mainvars>>

-----------------------------------------------------------------------------
(* QMarkDead and QSize *)

SetDead(t) == /\ At(t, "m_set")
              /\ dead' = flag[t]
              /\ Goto(t, "m_unlock")
              /\ UNCHANGED <<heap, owner, locals, mainvars>>

(* QSize reads head->queue twice, with no lock in between.                 *)
SizeCheck(t) == /\ At(t, "s_check")
                /\ Goto(t, IF head = Nil THEN "s_done" ELSE "s_read")
                /\ UNCHANGED <<heap, dead, owner, locals, mainvars>>

SizeRead(t) == /\ At(t, "s_read")
               /\ Goto(t, "s_walk")
               /\ tmp' = [tmp EXCEPT ![t] = head]
               /\ UNCHANGED <<heap, dead, owner, arg, flag, prev, cnt, ret, mainvars>>

(* Mutant: the last node is not counted.                                   *)
SizeWalkButLast(t) ==
  /\ At(t, "s_walk") /\ tmp[t] # Nil
  /\ cnt' = [cnt EXCEPT ![t] = IF next[tmp[t]] = Nil THEN @ ELSE @ + 1]
  /\ tmp' = [tmp EXCEPT ![t] = next[tmp[t]]]
  /\ UNCHANGED <<heap, dead, owner, pc, arg, flag, prev, ret, mainvars>>

SizeWalk(t) == /\ At(t, "s_walk") /\ tmp[t] # Nil
               /\ cnt' = [cnt EXCEPT ![t] = @ + 1]
               /\ tmp' = [tmp EXCEPT ![t] = next[tmp[t]]]
               /\ UNCHANGED <<heap, dead, owner, pc, arg, flag, prev, ret, mainvars>>

SizeEnd(t) == /\ At(t, "s_walk") /\ tmp[t] = Nil
              /\ Goto(t, "s_done")
              /\ UNCHANGED <<heap, dead, owner, locals, mainvars>>

SizeReturn(t) == /\ At(t, "s_done")
                 /\ LeaveCall(t)
                 /\ UNCHANGED <<heap, dead, owner, mainvars>>

-----------------------------------------------------------------------------
(* QueueEntireClear, called by main when pthread_join has returned for     *)
(* every worker.  It takes no lock.                                        *)

StartClear == /\ main = "join"
              /\ \A t \in Threads : At(t, "idle")
              /\ main' = IF head = Nil THEN "done" ELSE "walk"
              /\ cur' = head
              /\ UNCHANGED <<heap, dead, owner, pc, locals>>

ClearWalk == /\ main = "walk"
             /\ IF next[cur] # Nil
                  THEN cur' = next[cur] /\ UNCHANGED main
                  ELSE main' = "free" /\ UNCHANGED cur
             /\ UNCHANGED <<heap, dead, owner, pc, locals>>

ClearFree == /\ main = "free" /\ cur # Nil
             /\ used' = used \ {cur}
             /\ cur' = previous[cur]
             /\ UNCHANGED <<head, next, previous, id, dead, owner, pc, locals, main>>

ClearEnd == /\ main = "free" /\ cur = Nil
            /\ main' = "done"
            /\ UNCHANGED <<heap, dead, owner, pc, locals, cur>>

(* The program is over; nothing moves.                                     *)
Finished == main = "done" /\ UNCHANGED vars

-----------------------------------------------------------------------------
CallStep(t) == \/ \E i \in Ids : CallAppend(t, i)
               \/ CallPop(t)
               \/ \E d \in BOOLEAN : CallMark(t, d)
               \/ CallSize(t)

AppendStep(t) == \/ \E n \in Nodes : AppendFirst(t, n)
                 \/ AppendFirstNoMemory(t)
                 \/ AppendBegin(t)
                 \/ FindDuplicate(t)
                 \/ FindStep(t)
                 \/ FindNone(t)
                 \/ AppendWalk(t)
                 \/ \E n \in Nodes : AppendLink(t, n)
                 \/ AppendNoMemory(t)

PopStep(t) == PopEmpty(t) \/ PopLast(t) \/ PopBegin(t) \/ PopWalk(t) \/ PopCut(t)

SizeStep(t) == SizeCheck(t) \/ SizeRead(t) \/ SizeWalk(t) \/ SizeEnd(t) \/ SizeReturn(t)

(* What a thread inside a call does next, other than wait for the mutex.   *)
RunStep(t) == AppendStep(t) \/ PopStep(t) \/ SetDead(t) \/ SizeStep(t) \/ Unlock(t)

ThreadStep(t) == CallStep(t) \/ Lock(t) \/ RunStep(t)

ClearStep == StartClear \/ ClearWalk \/ ClearFree \/ ClearEnd

Next == (\E t \in Threads : ThreadStep(t)) \/ ClearStep \/ Finished

Spec == Init /\ [][Next]_vars

(* The scheduler runs every thread that can run.  A mutex is not fair: a   *)
(* waiter may be overtaken forever, so Lock is only weakly fair; calls are *)
(* the program's choice and carry no fairness.                             *)
Fairness == /\ \A t \in Threads : WF_vars(RunStep(t)) /\ WF_vars(Lock(t))
            /\ WF_vars(ClearWalk \/ ClearFree \/ ClearEnd)

FairSpec == Spec /\ Fairness

(* Every path out of the critical section unlocks, early returns included, *)
(* and every walk inside it ends: a held mutex is always released.         *)
MutexReleased == \A t \in Threads : owner = t ~> owner # t

=============================================================================
