----------------------------- MODULE WorkStack -----------------------------
(***************************************************************************)
(* What src/queue.c promises its callers, with no pointers and no mutex:   *)
(* a container of item ids that several threads share.  Each call takes    *)
(* effect at one instant between its invocation and its return.  Despite   *)
(* the file's name the container is a stack: QAppendItem adds at the tail  *)
(* and QpopItem takes the tail.                                            *)
(***************************************************************************)
EXTENDS Integers, Sequences

CONSTANTS Threads,  \* the threads that call the container
          Ids       \* the item ids they append

VARIABLES items,    \* the ids held, the oldest first
          call,     \* the stage of each thread's call
          arg,      \* the id a thread's append was called with
          ret       \* the result of a call about to return

vars == <<items, call, arg, ret>>

NoId == -1   \* no argument: the thread is in no append

Calls == {"idle", "append", "pop", "done"}

Init == /\ items = << >>
        /\ call = [t \in Threads |-> "idle"]
        /\ arg = [t \in Threads |-> NoId]
        /\ ret = [t \in Threads |-> 0]

InvokeAppend(t, i) == /\ call[t] = "idle"
                      /\ call' = [call EXCEPT ![t] = "append"]
                      /\ arg' = [arg EXCEPT ![t] = i]
                      /\ UNCHANGED <<items, ret>>

InvokePop(t) == /\ call[t] = "idle"
                /\ call' = [call EXCEPT ![t] = "pop"]
                /\ UNCHANGED <<items, arg, ret>>

(* The call of thread t takes effect and its result is r.                  *)
Complete(t, r) == /\ call' = [call EXCEPT ![t] = "done"]
                  /\ ret' = [ret EXCEPT ![t] = r]
                  /\ UNCHANGED arg

Holds(i) == \E k \in 1..Len(items) : items[k] = i

DoAppend(t) == /\ call[t] = "append"
               /\ ~Holds(arg[t])
               /\ items' = Append(items, arg[t])
               /\ Complete(t, 0)

DoDuplicate(t) == /\ call[t] = "append"
                  /\ Holds(arg[t])
                  /\ Complete(t, -1)
                  /\ UNCHANGED items

(* An allocation failure drops the id.  It is reported as -1, except when  *)
(* the container is empty: then the call claims success (queue.c:172-179). *)
DoNoMemory(t) == /\ call[t] = "append"
                 /\ ~Holds(arg[t])
                 /\ Complete(t, IF items = << >> THEN 0 ELSE -1)
                 /\ UNCHANGED items

DoPop(t) == /\ call[t] = "pop"
            /\ items # << >>
            /\ items' = SubSeq(items, 1, Len(items) - 1)
            /\ Complete(t, items[Len(items)])

DoPopEmpty(t) == /\ call[t] = "pop"
                 /\ items = << >>
                 /\ Complete(t, -1)
                 /\ UNCHANGED items

Return(t) == /\ call[t] = "done"
             /\ call' = [call EXCEPT ![t] = "idle"]
             /\ arg' = [arg EXCEPT ![t] = NoId]
             /\ ret' = [ret EXCEPT ![t] = 0]
             /\ UNCHANGED items

ThreadStep(t) == \/ \E i \in Ids : InvokeAppend(t, i)
                 \/ InvokePop(t)
                 \/ DoAppend(t)
                 \/ DoDuplicate(t)
                 \/ DoNoMemory(t)
                 \/ DoPop(t)
                 \/ DoPopEmpty(t)
                 \/ Return(t)

Next == \E t \in Threads : ThreadStep(t)

Spec == Init /\ [][Next]_vars
=============================================================================
