----------------------------- MODULE QueueProofs -----------------------------
(***************************************************************************)
(* Proofs about QueueHistory for any number of threads, nodes and ids.     *)
(***************************************************************************)
EXTENDS QueueHistory, SequenceTheorems, TLAPS

-----------------------------------------------------------------------------
(* The two ways the contents change, position by position. *)

(* Adding a node at the tail keeps every position and adds one.            *)
LEMMA PushFacts ==
  ASSUME NEW s \in Seq(Nodes), NEW n \in Nodes, NEW r, r = Append(s, n)
  PROVE  /\ r \in Seq(Nodes)
         /\ Len(r) = Len(s) + 1
         /\ r # << >>
         /\ \A k \in 1..Len(s) : r[k] = s[k]
         /\ r[Len(r)] = n
         /\ r[Len(s) + 1] = n
BY AppendProperties

(* A prefix, with its length as a variable of its own.                     *)
LEMMA PrefixFacts ==
  ASSUME NEW s \in Seq(Nodes), NEW m \in Nat, Len(s) = m + 1
  PROVE  /\ SubSeq(s, 1, m) \in Seq(Nodes)
         /\ Len(SubSeq(s, 1, m)) = m
         /\ \A k \in 1..m : SubSeq(s, 1, m)[k] = s[k]
OBVIOUS

(* Removing the tail keeps every position but the last.                    *)
LEMMA PopFacts ==
  ASSUME NEW s \in Seq(Nodes), s # << >>, NEW r, r = Front(s)
  PROVE  /\ r \in Seq(Nodes)
         /\ Len(r) \in Nat
         /\ Len(s) = Len(r) + 1
         /\ \A k \in 1..Len(r) : r[k] = s[k]
         /\ r = << >> <=> Len(r) = 0
<1>1. Len(s) \in Nat \ {0}
  BY EmptySeq, LenProperties
<1>2. Len(s) - 1 \in Nat /\ Len(s) = (Len(s) - 1) + 1
  BY <1>1
<1>3. /\ r \in Seq(Nodes)
      /\ Len(r) = Len(s) - 1
      /\ \A k \in 1..(Len(s) - 1) : r[k] = s[k]
  BY <1>2, PrefixFacts, Zenon DEF Front
<1>4. r = << >> <=> Len(r) = 0
  BY <1>3, EmptySeq
<1> QED
  BY <1>2, <1>3, <1>4

(* An element of a sequence of nodes is a node.                            *)
LEMMA ContentsNodes ==
  ASSUME TypeOK
  PROVE  /\ Len(contents) \in Nat
         /\ \A k \in Positions : contents[k] \in Nodes
         /\ contents = << >> <=> Len(contents) = 0
BY LenProperties, ElementOfSeq, EmptySeq DEF TypeOK, Positions

(* The pointers a walk under the mutex is about to follow are nodes, and   *)
(* the list is as long as the walk supposes.                               *)
LEMMA WalkFacts ==
  ASSUME Inv, NEW t \in Threads
  PROVE  /\ At(t, "a_walk") => tmp[t] \in Nodes /\ contents # << >>
         /\ At(t, "p_walk") => tmp[t] \in Nodes /\ prev[t] \in Nodes /\ contents # << >>
         /\ At(t, "a_find") => contents # << >>
<1>1. TypeOK /\ WalkInv
  BY DEF Inv
<1>2. /\ Len(contents) \in Nat
      /\ \A k \in 1..Len(contents) : contents[k] \in Nodes
      /\ contents = << >> <=> Len(contents) = 0
  BY <1>1, ContentsNodes DEF Positions
<1>3. At(t, "a_walk") => tmp[t] \in Nodes /\ contents # << >>
  BY <1>1, <1>2 DEF WalkInv, LinkPlace, Positions
<1>4. At(t, "p_walk") => tmp[t] \in Nodes /\ prev[t] \in Nodes /\ contents # << >>
  <2> SUFFICES ASSUME At(t, "p_walk")
               PROVE  tmp[t] \in Nodes /\ prev[t] \in Nodes /\ contents # << >>
    OBVIOUS
  <2>1. PICK k \in Positions : /\ tmp[t] = contents[k]
                               /\ prev[t] = IF k = 1 THEN contents[1] ELSE contents[k - 1]
    BY <1>1 DEF WalkInv, PopPlace
  <2>2. k = 1 \/ k - 1 \in 1..Len(contents)
    BY <1>2, <2>1 DEF Positions
  <2> QED
    BY <1>2, <2>1, <2>2 DEF Positions
<1> QED
  BY <1>1, <1>3, <1>4 DEF WalkInv, FindPlace

(* While main walks to the tail, its pointer is a node.                    *)
LEMMA ClearFacts ==
  ASSUME Inv, main = "walk"
  PROVE  cur \in Nodes
BY ContentsNodes DEF Inv, ClearInv

(* An id is a number, so it can be a result.                               *)
LEMMA IdsAreInts ==
  ASSUME TypeOK
  PROVE  \A n \in Nodes : id[n] \in Int
<1>1. Ids \subseteq Nat
  BY QueueAssumption
<1>2. \A i \in Ids : i \in Int
  BY <1>1
<1>3. \A n \in Nodes : id[n] \in Ids
  BY DEF TypeOK
<1> QED
  BY <1>2, <1>3

(* A thread that pops finds something to pop.                              *)
LEMMA PopNonEmpty ==
  ASSUME Inv, NEW t \in Threads, Pops(t)
  PROVE  contents # << >>
<1>1. CASE PopLast(t)
  BY <1>1 DEF PopLast, Inv, ListInv
<1>2. CASE PopCut(t)
  BY <1>2, WalkFacts DEF PopCut
<1> QED
  BY <1>1, <1>2 DEF Pops

-----------------------------------------------------------------------------
(* Types *)

(* What the QSize calls in progress may report stays a set of naturals.    *)
LEMMA ObserveType ==
  ASSUME TypeOK, Observe, contents' \in Seq(Nodes)
  PROVE  seen' \in [Threads -> SUBSET Nat]
<1>1. Len(contents') \in Nat
  BY LenProperties
<1> QED
  BY <1>1 DEF TypeOK, Observe

LEMMA TypeStep == Inv /\ [HNext]_hvars => TypeOK'
<1> SUFFICES ASSUME Inv, [HNext]_hvars
             PROVE  TypeOK'
  OBVIOUS
<1> TypeOK
  BY DEF Inv
<1> USE DEF TypeOK, Pointers, heap, locals, mainvars, Goto, Finish, LeaveCall, At
<1>0. \A l \in {"idle", "a_lock", "a_check", "a_find", "a_walk", "p_lock", "p_check",
                "p_walk", "s_check", "s_read", "s_walk", "s_done", "m_lock", "m_set",
                "unlock", "m_unlock"} : l \in Pcs
  BY DEF Pcs, LockPcs, HeldPcs, SizePcs
<1>1. ASSUME NEW t \in Threads, NEW n \in Nodes, HPush(t, n)
      PROVE  TypeOK'
  <2>1. contents' \in Seq(Nodes)
    BY <1>1, PushFacts DEF HPush
  <2>2. seen' \in [Threads -> SUBSET Nat]
    BY <1>1, <2>1, ObserveType DEF HPush
  <2>3. CASE AppendFirst(t, n)
    BY <1>0, <2>1, <2>2, <2>3 DEF AppendFirst, NewItem, AppendPcs
  <2>4. CASE AppendLink(t, n)
    <3>1. tmp[t] \in Nodes
      BY <2>4, WalkFacts DEF AppendLink
    <3>2. next' \in [Nodes -> Pointers]
      BY <2>4 DEF AppendLink
    <3> QED
      <4>1. previous' \in [Nodes -> Pointers] BY <2>4, <3>1 DEF AppendLink, NewItem
      <4>2. id' \in [Nodes -> Ids] BY <2>4 DEF AppendLink, NewItem, AppendPcs
      <4>3. used' \in SUBSET Nodes BY <2>4 DEF AppendLink, NewItem
      <4>4. pc' \in [Threads -> Pcs] BY <1>0, <2>4 DEF AppendLink
      <4>5. ret' \in [Threads -> Int] BY <2>4 DEF AppendLink
      <4>6. \A u \in Threads : pc'[u] \in AppendPcs => arg'[u] \in Ids BY <2>4 DEF AppendLink, AppendPcs
      <4> QED
      BY <2>1, <2>2, <2>4, <3>2, <4>1, <4>2, <4>3, <4>4, <4>5, <4>6 DEF AppendLink
  <2> QED
    BY <1>1, <2>3, <2>4 DEF HPush, Pushes
<1>2. ASSUME NEW t \in Threads, HPop(t)
      PROVE  TypeOK'
  <2>1. contents' \in Seq(Nodes)
    BY <1>2, PopFacts, PopNonEmpty DEF HPop
  <2>2. seen' \in [Threads -> SUBSET Nat]
    BY <1>2, <2>1, ObserveType DEF HPop
  <2>3. CASE PopLast(t)
    <3>1. id[head] \in Int
      BY <2>3, IdsAreInts DEF PopLast
    <3> QED
      BY <1>0, <2>1, <2>2, <2>3, <3>1 DEF PopLast, AppendPcs
  <2>4. CASE PopCut(t)
    <3>1. id[tmp[t]] \in Int
      BY <2>4, IdsAreInts, WalkFacts DEF PopCut
    <3> QED
      BY <1>0, <2>1, <2>2, <2>4, <3>1 DEF PopCut, AppendPcs
  <2> QED
    BY <1>2, <2>3, <2>4 DEF HPop, Pops
<1>3. ASSUME NEW t \in Threads, HQuiet(t)
      PROVE  TypeOK'
  <2>1. contents' = contents /\ seen' \in [Threads -> SUBSET Nat]
    BY <1>3, ObserveType DEF HQuiet
  <2>2. CASE \E i \in Ids : CallAppend(t, i)
    BY <1>0, <2>1, <2>2 DEF CallAppend, AppendPcs
  <2>3. CASE CallPop(t)
    BY <1>0, <2>1, <2>3 DEF CallPop, AppendPcs
  <2>4. CASE \E d \in BOOLEAN : CallMark(t, d)
    BY <1>0, <2>1, <2>4 DEF CallMark, AppendPcs
  <2>5. CASE CallSize(t)
    BY <1>0, <2>1, <2>5 DEF CallSize, AppendPcs
  <2>6. CASE Lock(t)
    BY <1>0, <2>1, <2>6 DEF Lock, Locked, LockPcs, AppendPcs
  <2>7. CASE Unlock(t)
    BY <1>0, <2>1, <2>7 DEF Unlock, AppendPcs
  <2>8. CASE AppendFirstNoMemory(t)
    BY <1>0, <2>1, <2>8 DEF AppendFirstNoMemory, AppendPcs
  <2>9. CASE AppendBegin(t)
    BY <1>0, <2>1, <2>9 DEF AppendBegin, AppendPcs
  <2>10. CASE FindDuplicate(t)
    BY <1>0, <2>1, <2>10 DEF FindDuplicate, AppendPcs
  <2>11. CASE FindStep(t)
    BY <1>0, <2>1, <2>11 DEF FindStep, AppendPcs
  <2>12. CASE FindNone(t)
    BY <1>0, <2>1, <2>12 DEF FindNone, AppendPcs
  <2>13. CASE AppendWalk(t)
    <3>1. tmp[t] \in Nodes
      BY <2>13, WalkFacts DEF AppendWalk
    <3> QED
      BY <1>0, <2>1, <2>13, <3>1 DEF AppendWalk, AppendPcs
  <2>14. CASE AppendNoMemory(t)
    BY <1>0, <2>1, <2>14 DEF AppendNoMemory, AppendPcs
  <2>15. CASE PopEmpty(t)
    BY <1>0, <2>1, <2>15 DEF PopEmpty, AppendPcs
  <2>16. CASE PopBegin(t)
    BY <1>0, <2>1, <2>16 DEF PopBegin, AppendPcs
  <2>17. CASE PopWalk(t)
    <3>1. tmp[t] \in Nodes
      BY <2>17, WalkFacts DEF PopWalk
    <3> QED
      BY <1>0, <2>1, <2>17, <3>1 DEF PopWalk, AppendPcs
  <2>18. CASE SetDead(t)
    BY <1>0, <2>1, <2>18 DEF SetDead, AppendPcs
  <2>19. CASE SizeCheck(t)
    BY <1>0, <2>1, <2>19 DEF SizeCheck, AppendPcs
  <2>20. CASE SizeRead(t)
    BY <1>0, <2>1, <2>20 DEF SizeRead, AppendPcs
  <2>21. CASE SizeWalk(t)
    BY <1>0, <2>1, <2>21 DEF SizeWalk, AppendPcs
  <2>22. CASE SizeEnd(t)
    BY <1>0, <2>1, <2>22 DEF SizeEnd, AppendPcs
  <2>23. CASE SizeReturn(t)
    BY <1>0, <2>1, <2>23 DEF SizeReturn, AppendPcs
  <2> QED
    BY <1>3, <2>2, <2>3, <2>4, <2>5, <2>6, <2>7, <2>8, <2>9, <2>10, <2>11, <2>12, <2>13, <2>14, <2>15, <2>16, <2>17, <2>18, <2>19, <2>20, <2>21, <2>22, <2>23 DEF HQuiet, Quiet, CallStep, SizeStep
<1>4. CASE HMain
  <2>1. UNCHANGED <<contents, seen>>
    BY <1>4 DEF HMain
  <2>2. CASE StartClear
    BY <2>1, <2>2 DEF StartClear
  <2>3. CASE ClearWalk
    <3>1. cur \in Nodes
      BY <2>3, ClearFacts DEF ClearWalk
    <3> QED
      BY <2>1, <2>3, <3>1 DEF ClearWalk
  <2>4. CASE ClearFree
    BY <2>1, <2>4 DEF ClearFree
  <2>5. CASE ClearEnd
    BY <2>1, <2>5 DEF ClearEnd
  <2>6. CASE Finished
    BY <2>1, <2>6 DEF Finished, vars
  <2> QED
    BY <1>4, <2>2, <2>3, <2>4, <2>5, <2>6 DEF HMain, ClearStep
<1>5. CASE UNCHANGED hvars
  BY <1>5 DEF hvars
<1> QED
  BY <1>1, <1>2, <1>3, <1>4, <1>5 DEF HNext

-----------------------------------------------------------------------------
(* What a step of one thread leaves alone *)

HStep(t) == (\E n \in Nodes : HPush(t, n)) \/ HPop(t) \/ HQuiet(t)

(* What stays the same for thread u: its place and its locals.             *)
Unmoved(u) == /\ pc'[u] = pc[u]
              /\ arg'[u] = arg[u]
              /\ tmp'[u] = tmp[u]
              /\ prev'[u] = prev[u]
              /\ cnt'[u] = cnt[u]

(* A step of t moves no other thread, and main waits in pthread_join.      *)
LEMMA OthersUnmoved ==
  ASSUME Inv, NEW t \in Threads, HStep(t)
  PROVE  /\ \A u \in Threads \ {t} : Unmoved(u)
         /\ main = "join"
         /\ UNCHANGED <<main, cur>>
<1> USE DEF Unmoved, Goto, Finish, LeaveCall, At, locals, mainvars
<1>1. TypeOK /\ MutexInv
  BY DEF Inv
<1>2. pc[t] # "idle" => main = "join"
  BY <1>1 DEF MutexInv
<1> DEFINE Goal == /\ \A u \in Threads \ {t} : Unmoved(u)
                   /\ main = "join"
                   /\ UNCHANGED <<main, cur>>
<1>3. ASSUME NEW n \in Nodes, AppendFirst(t, n)
      PROVE  Goal
  BY <1>1, <1>2, <1>3 DEF AppendFirst, TypeOK
<1>4. ASSUME NEW n \in Nodes, AppendLink(t, n)
      PROVE  Goal
  BY <1>1, <1>2, <1>4 DEF AppendLink, TypeOK
<1>5. CASE PopLast(t)
  BY <1>1, <1>2, <1>5 DEF PopLast, TypeOK
<1>6. CASE PopCut(t)
  BY <1>1, <1>2, <1>6 DEF PopCut, TypeOK
<1>7. CASE Quiet(t)
  <2>1. CASE \E i \in Ids : CallAppend(t, i)
    BY <1>1, <1>2, <2>1 DEF CallAppend, TypeOK
  <2>2. CASE CallPop(t)
    BY <1>1, <1>2, <2>2 DEF CallPop, TypeOK
  <2>3. CASE \E d \in BOOLEAN : CallMark(t, d)
    BY <1>1, <1>2, <2>3 DEF CallMark, TypeOK
  <2>4. CASE CallSize(t)
    BY <1>1, <1>2, <2>4 DEF CallSize, TypeOK
  <2>5. CASE Lock(t)
    BY <1>1, <1>2, <2>5 DEF Lock, Locked, LockPcs, TypeOK
  <2>6. CASE Unlock(t)
    BY <1>1, <1>2, <2>6 DEF Unlock, TypeOK
  <2>7. CASE AppendFirstNoMemory(t)
    BY <1>1, <1>2, <2>7 DEF AppendFirstNoMemory, TypeOK
  <2>8. CASE AppendBegin(t)
    BY <1>1, <1>2, <2>8 DEF AppendBegin, TypeOK
  <2>9. CASE FindDuplicate(t)
    BY <1>1, <1>2, <2>9 DEF FindDuplicate, TypeOK
  <2>10. CASE FindStep(t)
    BY <1>1, <1>2, <2>10 DEF FindStep, TypeOK
  <2>11. CASE FindNone(t)
    BY <1>1, <1>2, <2>11 DEF FindNone, TypeOK
  <2>12. CASE AppendWalk(t)
    BY <1>1, <1>2, <2>12 DEF AppendWalk, TypeOK
  <2>13. CASE AppendNoMemory(t)
    BY <1>1, <1>2, <2>13 DEF AppendNoMemory, TypeOK
  <2>14. CASE PopEmpty(t)
    BY <1>1, <1>2, <2>14 DEF PopEmpty, TypeOK
  <2>15. CASE PopBegin(t)
    BY <1>1, <1>2, <2>15 DEF PopBegin, TypeOK
  <2>16. CASE PopWalk(t)
    BY <1>1, <1>2, <2>16 DEF PopWalk, TypeOK
  <2>17. CASE SetDead(t)
    BY <1>1, <1>2, <2>17 DEF SetDead, TypeOK
  <2>18. CASE SizeCheck(t)
    BY <1>1, <1>2, <2>18 DEF SizeCheck, TypeOK
  <2>19. CASE SizeRead(t)
    BY <1>1, <1>2, <2>19 DEF SizeRead, TypeOK
  <2>20. CASE SizeWalk(t)
    BY <1>1, <1>2, <2>20 DEF SizeWalk, TypeOK
  <2>21. CASE SizeEnd(t)
    BY <1>1, <1>2, <2>21 DEF SizeEnd, TypeOK
  <2>22. CASE SizeReturn(t)
    BY <1>1, <1>2, <2>22 DEF SizeReturn, TypeOK
  <2> QED
    BY <1>7, <2>1, <2>2, <2>3, <2>4, <2>5, <2>6, <2>7, <2>8, <2>9, <2>10,
       <2>11, <2>12, <2>13, <2>14, <2>15, <2>16, <2>17, <2>18, <2>19, <2>20,
       <2>21, <2>22 DEF Quiet, CallStep, SizeStep
<1> QED
  BY <1>3, <1>4, <1>5, <1>6, <1>7 DEF HStep, HPush, Pushes, HPop, Pops, HQuiet

(* A quiet step writes neither the heap nor the contents.                  *)
LEMMA QuietFrame ==
  ASSUME NEW t \in Threads, HQuiet(t)
  PROVE  UNCHANGED <<heap, contents>>
<1> USE DEF heap
<1> SUFFICES ASSUME Quiet(t) PROVE UNCHANGED heap
  BY DEF HQuiet
<1>1. CASE CallStep(t)
  BY <1>1 DEF CallStep, CallAppend, CallPop, CallMark, CallSize
<1>2. CASE Lock(t) \/ Unlock(t) \/ SetDead(t)
  BY <1>2 DEF Lock, Unlock, SetDead
<1>3. CASE \/ AppendFirstNoMemory(t) \/ AppendBegin(t) \/ FindDuplicate(t)
           \/ FindStep(t) \/ FindNone(t) \/ AppendWalk(t) \/ AppendNoMemory(t)
  BY <1>3 DEF AppendFirstNoMemory, AppendBegin, FindDuplicate, FindStep,
              FindNone, AppendWalk, AppendNoMemory
<1>4. CASE PopEmpty(t) \/ PopBegin(t) \/ PopWalk(t)
  BY <1>4 DEF PopEmpty, PopBegin, PopWalk
<1>5. CASE SizeStep(t)
  BY <1>5 DEF SizeStep, SizeCheck, SizeRead, SizeWalk, SizeEnd, SizeReturn
<1> QED
  BY <1>1, <1>2, <1>3, <1>4, <1>5 DEF Quiet

-----------------------------------------------------------------------------
(* Mutual exclusion *)

(* How a step of t may move t with respect to the critical section.        *)
LEMMA CriticalMove ==
  ASSUME Inv, NEW t \in Threads, HStep(t)
  PROVE  \/ owner = NoThread /\ owner' = t /\ pc'[t] \in HeldPcs
         \/ pc[t] \in HeldPcs /\ owner' = NoThread /\ pc'[t] \notin HeldPcs
         \/ owner' = owner /\ (pc[t] \in HeldPcs <=> pc'[t] \in HeldPcs)
<1> USE DEF Goto, Finish, LeaveCall, At, locals, HeldPcs, LockPcs
<1>1. TypeOK
  BY DEF Inv
<1> DEFINE Goal == \/ owner = NoThread /\ owner' = t /\ pc'[t] \in HeldPcs
                   \/ pc[t] \in HeldPcs /\ owner' = NoThread /\ pc'[t] \notin HeldPcs
                   \/ owner' = owner /\ (pc[t] \in HeldPcs <=> pc'[t] \in HeldPcs)
<1>3. ASSUME NEW n \in Nodes, AppendFirst(t, n)
      PROVE  Goal
  BY <1>1, <1>3 DEF AppendFirst, TypeOK
<1>4. ASSUME NEW n \in Nodes, AppendLink(t, n)
      PROVE  Goal
  BY <1>1, <1>4 DEF AppendLink, TypeOK
<1>5. CASE PopLast(t)
  BY <1>1, <1>5 DEF PopLast, TypeOK
<1>6. CASE PopCut(t)
  BY <1>1, <1>6 DEF PopCut, TypeOK
<1>7. CASE Quiet(t)
  <2>1. CASE \E i \in Ids : CallAppend(t, i)
    BY <1>1, <2>1 DEF CallAppend, TypeOK
  <2>2. CASE CallPop(t)
    BY <1>1, <2>2 DEF CallPop, TypeOK
  <2>3. CASE \E d \in BOOLEAN : CallMark(t, d)
    BY <1>1, <2>3 DEF CallMark, TypeOK
  <2>4. CASE CallSize(t)
    BY <1>1, <2>4 DEF CallSize, TypeOK
  <2>5. CASE Lock(t)
    BY <1>1, <2>5 DEF Lock, Locked, TypeOK
  <2>6. CASE Unlock(t)
    BY <1>1, <2>6 DEF Unlock, TypeOK
  <2>7. CASE AppendFirstNoMemory(t)
    BY <1>1, <2>7 DEF AppendFirstNoMemory, TypeOK
  <2>8. CASE AppendBegin(t)
    BY <1>1, <2>8 DEF AppendBegin, TypeOK
  <2>9. CASE FindDuplicate(t)
    BY <1>1, <2>9 DEF FindDuplicate, TypeOK
  <2>10. CASE FindStep(t)
    BY <1>1, <2>10 DEF FindStep, TypeOK
  <2>11. CASE FindNone(t)
    BY <1>1, <2>11 DEF FindNone, TypeOK
  <2>12. CASE AppendWalk(t)
    BY <1>1, <2>12 DEF AppendWalk, TypeOK
  <2>13. CASE AppendNoMemory(t)
    BY <1>1, <2>13 DEF AppendNoMemory, TypeOK
  <2>14. CASE PopEmpty(t)
    BY <1>1, <2>14 DEF PopEmpty, TypeOK
  <2>15. CASE PopBegin(t)
    BY <1>1, <2>15 DEF PopBegin, TypeOK
  <2>16. CASE PopWalk(t)
    BY <1>1, <2>16 DEF PopWalk, TypeOK
  <2>17. CASE SetDead(t)
    BY <1>1, <2>17 DEF SetDead, TypeOK
  <2>18. CASE SizeCheck(t)
    BY <1>1, <2>18 DEF SizeCheck, TypeOK
  <2>19. CASE SizeRead(t)
    BY <1>1, <2>19 DEF SizeRead, TypeOK
  <2>20. CASE SizeWalk(t)
    BY <1>1, <2>20 DEF SizeWalk, TypeOK
  <2>21. CASE SizeEnd(t)
    BY <1>1, <2>21 DEF SizeEnd, TypeOK
  <2>22. CASE SizeReturn(t)
    BY <1>1, <2>22 DEF SizeReturn, TypeOK
  <2> QED
    BY <1>7, <2>1, <2>2, <2>3, <2>4, <2>5, <2>6, <2>7, <2>8, <2>9, <2>10,
       <2>11, <2>12, <2>13, <2>14, <2>15, <2>16, <2>17, <2>18, <2>19, <2>20,
       <2>21, <2>22 DEF Quiet, CallStep, SizeStep
<1> QED
  BY <1>3, <1>4, <1>5, <1>6, <1>7 DEF HStep, HPush, Pushes, HPop, Pops, HQuiet

LEMMA MutexStep == Inv /\ [HNext]_hvars => MutexInv'
<1> SUFFICES ASSUME Inv, [HNext]_hvars
             PROVE  MutexInv'
  OBVIOUS
<1>1. TypeOK /\ MutexInv
  BY DEF Inv
<1>2. ASSUME NEW t \in Threads, HStep(t)
      PROVE  MutexInv'
  <2>1. /\ \A u \in Threads \ {t} : pc'[u] = pc[u]
        /\ main = "join" /\ main' = main
    BY <1>2, OthersUnmoved DEF Unmoved
  <2>2. owner = NoThread \/ owner = t \/ (owner' = owner /\ (pc[t] \in HeldPcs <=> pc'[t] \in HeldPcs))
    BY <1>1, <1>2, CriticalMove DEF MutexInv
  <2>3. \A u \in Threads : pc'[u] \in HeldPcs <=> owner' = u
    BY <1>1, <1>2, <2>1, CriticalMove, QueueAssumption DEF MutexInv
  <2> QED
    BY <2>1, <2>3 DEF MutexInv
<1>3. CASE HMain
  BY <1>1, <1>3 DEF HMain, ClearStep, StartClear, ClearWalk, ClearFree, ClearEnd,
                    Finished, vars, MutexInv, At
<1>4. CASE UNCHANGED hvars
  BY <1>1, <1>4 DEF hvars, MutexInv, At
<1> QED
  BY <1>2, <1>3, <1>4 DEF HNext, HStep

-----------------------------------------------------------------------------
(* The heap is the list *)

(* The head, and what the next pointer of a listed node says about its     *)
(* position.                                                               *)
LEMMA ListFacts ==
  ASSUME Inv
  PROVE  /\ Len(contents) \in Nat
         /\ \A k \in Positions : contents[k] \in Nodes /\ contents[k] # Nil
         /\ contents = << >> <=> Len(contents) = 0
         /\ head = Nil <=> contents = << >>
         /\ contents # << >> => head = contents[1] /\ 1 \in Positions
         /\ \A k \in Positions : next[contents[k]] = Nil => k = Len(contents)
         /\ \A k \in Positions : next[contents[k]] # Nil =>
              k + 1 \in Positions /\ next[contents[k]] = contents[k + 1]
<1>1. TypeOK /\ ListInv
  BY DEF Inv
<1>2. /\ Len(contents) \in Nat
      /\ \A k \in Positions : contents[k] \in Nodes
      /\ contents = << >> <=> Len(contents) = 0
  BY <1>1, ContentsNodes
<1>3. \A k \in Positions : contents[k] # Nil
  BY <1>2, QueueAssumption
<1>4. contents # << >> => 1 \in Positions
  BY <1>2 DEF Positions
<1>5. ASSUME NEW k \in Positions, k # Len(contents)
      PROVE  k + 1 \in Positions /\ next[contents[k]] = contents[k + 1]
  <2>1. k < Len(contents) /\ k + 1 \in Positions
    BY <1>2, <1>5 DEF Positions
  <2> QED
    BY <1>1, <2>1 DEF ListInv, Succ
<1>6. next[contents[Len(contents)]] = Nil \/ Len(contents) \notin Positions
  BY <1>1, <1>2 DEF ListInv, Succ
<1>7. ASSUME NEW k \in Positions, next[contents[k]] # Nil
      PROVE  k # Len(contents)
  BY <1>6, <1>7
<1>8. head = IF contents = << >> THEN Nil ELSE contents[1]
  BY <1>1 DEF ListInv
<1>9. ASSUME NEW k \in Positions, k # Len(contents)
      PROVE  next[contents[k]] # Nil
  BY <1>3, <1>5, <1>9
<1> QED
  BY <1>2, <1>3, <1>4, <1>5, <1>7, <1>8, <1>9

(* What appending does to the heap.                                        *)
LEMMA PushHeap ==
  ASSUME Inv, NEW t \in Threads, NEW n \in Nodes, HPush(t, n)
  PROVE  /\ n \notin used /\ ~IsHeld(n)
         /\ head' = IF contents = << >> THEN n ELSE contents[1]
         /\ \A k \in Positions :
              next'[contents[k]] = IF k < Len(contents) THEN contents[k + 1] ELSE n
         /\ next'[n] = Nil
         /\ \A m \in Nodes : m # n /\ ~IsHeld(m) => next'[m] = next[m]
         /\ previous' = [previous EXCEPT ![n] = IF contents = << >> THEN Nil
                                                ELSE contents[Len(contents)]]
         /\ id' = [id EXCEPT ![n] = arg[t]]
         /\ used' = used \cup {n}
         /\ \A k \in Positions : id[contents[k]] # arg[t]
         /\ At(t, "a_check") \/ At(t, "a_walk")
         /\ pc'[t] = "unlock" /\ ret' = [ret EXCEPT ![t] = 0]
<1> USE DEF Finish, Goto, heap, mainvars
<1>1. TypeOK /\ ListInv /\ AllocInv
  BY DEF Inv
<1>2. main = "join"
  BY OthersUnmoved DEF HStep
<1>3. /\ Len(contents) \in Nat
      /\ \A k \in Positions : contents[k] \in Nodes /\ contents[k] # Nil
      /\ contents = << >> <=> Len(contents) = 0
      /\ head = Nil <=> contents = << >>
      /\ contents # << >> => head = contents[1]
  BY ListFacts
<1>4. n \notin used
  BY DEF HPush, Pushes, AppendFirst, AppendLink, NewItem
<1>5. ~IsHeld(n)
  BY <1>1, <1>2, <1>4 DEF AllocInv, IsHeld
<1>6. CASE AppendFirst(t, n)
  <2>1. contents = << >> /\ Positions = {}
    BY <1>3, <1>6 DEF AppendFirst, Positions
  <2> QED
    BY <1>1, <1>4, <1>5, <1>6, <2>1 DEF AppendFirst, NewItem, TypeOK, IsHeld, At
<1>7. CASE AppendLink(t, n)
  <2>1. At(t, "a_walk") /\ next[tmp[t]] = Nil
    BY <1>7 DEF AppendLink
  <2>2. /\ \E k \in Positions : tmp[t] = contents[k]
        /\ \A j \in Positions : id[contents[j]] # arg[t]
    BY <2>1 DEF Inv, WalkInv, LinkPlace
  <2>3. tmp[t] = contents[Len(contents)] /\ contents # << >> /\ Len(contents) \in Positions
    BY <2>1, <2>2, <1>3, ListFacts DEF Positions
  <2>4. next' = [next EXCEPT ![n] = Nil, ![contents[Len(contents)]] = n]
    BY <1>7, <2>3 DEF AppendLink
  <2>5. next'[n] = Nil
    BY <1>1, <1>3, <1>5, <2>3, <2>4 DEF TypeOK, IsHeld
  <2>6. next'[contents[Len(contents)]] = n
    BY <1>1, <1>3, <2>3, <2>4 DEF TypeOK
  <2>7. ASSUME NEW k \in Positions, k # Len(contents)
        PROVE  next'[contents[k]] = contents[k + 1] /\ k < Len(contents)
    <3>1. contents[k] # contents[Len(contents)] /\ contents[k] # n /\ contents[k] \in Nodes
      BY <1>1, <1>3, <1>5, <2>3, <2>7 DEF ListInv, IsHeld
    <3>2. k < Len(contents) /\ next[contents[k]] = contents[k + 1]
      BY <1>1, <1>3, <2>7 DEF ListInv, Succ, Positions
    <3> QED
      BY <1>1, <2>4, <3>1, <3>2 DEF TypeOK
  <2>8. \A m \in Nodes : m # n /\ ~IsHeld(m) => next'[m] = next[m]
    BY <1>1, <2>3, <2>4 DEF TypeOK, IsHeld
  <2>9. head' = contents[1] /\ pc'[t] = "unlock"
    BY <1>1, <1>3, <1>7, <2>3 DEF AppendLink, TypeOK
  <2>10. \A k \in Positions :
           next'[contents[k]] = IF k < Len(contents) THEN contents[k + 1] ELSE n
    BY <1>3, <2>6, <2>7 DEF Positions
  <2> QED
    BY <1>4, <1>5, <1>7, <2>1, <2>2, <2>3, <2>5, <2>8, <2>9, <2>10 DEF AppendLink, NewItem
<1> QED
  BY <1>6, <1>7 DEF HPush, Pushes

(* What popping does to the heap, and what it returns.                     *)
LEMMA PopHeap ==
  ASSUME Inv, NEW t \in Threads, HPop(t)
  PROVE  /\ Len(contents) \in Positions
         /\ head' = IF Len(contents) = 1 THEN Nil ELSE contents[1]
         /\ \A k \in 1..(Len(contents) - 1) :
              next'[contents[k]] = IF k < Len(contents) - 1 THEN contents[k + 1] ELSE Nil
         /\ \A m \in Nodes : ~IsHeld(m) \/ m = contents[Len(contents)] => next'[m] = Nil
         /\ UNCHANGED <<previous, id, used>>
         /\ At(t, "p_check") \/ At(t, "p_walk")
         /\ pc'[t] = "unlock"
         /\ ret' = [ret EXCEPT ![t] = id[contents[Len(contents)]]]
<1> USE DEF Finish, Goto, heap, mainvars
<1>1. TypeOK /\ ListInv
  BY DEF Inv
<1>2. /\ Len(contents) \in Nat
      /\ \A k \in Positions : contents[k] \in Nodes /\ contents[k] # Nil
      /\ contents = << >> <=> Len(contents) = 0
      /\ head = Nil <=> contents = << >>
      /\ contents # << >> => head = contents[1] /\ 1 \in Positions
  BY ListFacts
<1>3. CASE PopLast(t)
  <2>1. contents # << >> /\ head = contents[1] /\ next[contents[1]] = Nil
    BY <1>2, <1>3 DEF PopLast
  <2>2. Len(contents) = 1
    BY <1>2, <2>1, ListFacts
  <2>3. \A m \in Nodes : ~IsHeld(m) \/ m = contents[Len(contents)] => next[m] = Nil
    BY <1>1, <2>1, <2>2 DEF ListInv
  <2> QED
    BY <1>1, <1>2, <1>3, <2>1, <2>2, <2>3 DEF PopLast, Positions, TypeOK
<1>4. CASE PopCut(t)
  <2>1. At(t, "p_walk") /\ next[tmp[t]] = Nil
    BY <1>4 DEF PopCut
  <2>2. Len(contents) > 1
    BY <2>1 DEF Inv, WalkInv, PopPlace
  <2>3. PICK k \in Positions : /\ tmp[t] = contents[k]
                               /\ prev[t] = IF k = 1 THEN contents[1] ELSE contents[k - 1]
    BY <2>1 DEF Inv, WalkInv, PopPlace
  <2>4. k = Len(contents)
    BY <2>1, <2>3, ListFacts
  <2>5. tmp[t] = contents[Len(contents)] /\ prev[t] = contents[Len(contents) - 1]
    BY <1>2, <2>2, <2>3, <2>4
  <2>6. Len(contents) - 1 \in Positions /\ Len(contents) \in Positions
    BY <1>2, <2>2 DEF Positions
  <2>7. next' = [next EXCEPT ![contents[Len(contents) - 1]] = Nil]
    BY <1>4, <2>5 DEF PopCut
  <2>8. ASSUME NEW j \in 1..(Len(contents) - 1)
        PROVE  next'[contents[j]] = IF j < Len(contents) - 1 THEN contents[j + 1] ELSE Nil
    <3>1. j \in Positions /\ j < Len(contents)
      BY <1>2, <2>8 DEF Positions
    <3>2. next[contents[j]] = contents[j + 1]
      BY <1>1, <3>1 DEF ListInv, Succ
    <3>3. CASE j = Len(contents) - 1
      BY <1>1, <1>2, <2>6, <2>7, <3>3 DEF TypeOK
    <3>4. CASE j # Len(contents) - 1
      <4>1. contents[j] # contents[Len(contents) - 1]
        BY <1>1, <2>6, <3>1, <3>4 DEF ListInv
      <4>2. j < Len(contents) - 1
        BY <1>2, <3>1, <3>4 DEF Positions
      <4> QED
        BY <1>1, <1>2, <2>7, <3>1, <3>2, <4>1, <4>2 DEF TypeOK
    <3> QED
      BY <3>3, <3>4
  <2>9. \A m \in Nodes : ~IsHeld(m) \/ m = contents[Len(contents)] => next'[m] = Nil
    <3>1. next[contents[Len(contents)]] = Nil
      BY <2>1, <2>5
    <3> QED
      BY <1>1, <2>7, <3>1 DEF ListInv, TypeOK
  <2>10. head' = contents[1] /\ pc'[t] = "unlock" /\ Len(contents) # 1
    <3>1. contents # << >> /\ Len(contents) # 1
      <4>1. Len(contents) # 0 /\ Len(contents) # 1
        BY <2>2, <2>6, <1>2 DEF Positions
      <4> QED
        BY <1>2, <4>1, Zenon
    <3>2. pc'[t] = "unlock"
      BY <1>1, <1>4 DEF PopCut, TypeOK
    <3> QED
      BY <1>2, <1>4, <3>1, <3>2 DEF PopCut
  <2> QED
    BY <1>4, <2>1, <2>5, <2>6, <2>8, <2>9, <2>10 DEF PopCut
<1> QED
  BY <1>3, <1>4 DEF HPop, Pops

LEMMA PushList ==
  ASSUME Inv, NEW t \in Threads, NEW n \in Nodes, HPush(t, n)
  PROVE  ListInv' /\ AllocInv' /\ NoDuplicateIds'
<1> DEFINE L == Len(contents)
<1>1. TypeOK /\ ListInv /\ AllocInv /\ NoDuplicateIds /\ main = "join"
  BY OthersUnmoved DEF Inv, HStep
<1>2. /\ L \in Nat
      /\ \A k \in Positions : contents[k] \in Nodes
      /\ contents = << >> <=> L = 0
  BY <1>1, ContentsNodes
<1>3. /\ Len(contents') = L + 1 /\ contents' # << >>
      /\ \A k \in 1..L : contents'[k] = contents[k]
      /\ contents'[L + 1] = n
  <2>1. contents \in Seq(Nodes) /\ contents' = Append(contents, n)
    BY <1>1 DEF HPush, TypeOK
  <2>2. /\ Len(contents') = Len(contents) + 1
        /\ contents' # << >>
        /\ \A k \in 1..Len(contents) : contents'[k] = contents[k]
        /\ contents'[Len(contents) + 1] = n
    BY <2>1, PushFacts
  <2> QED
    BY <2>2
<1>4. Positions = 1..L /\ Positions' = 1..(L + 1)
  BY <1>3 DEF Positions
<1>5. \A k \in Positions' : k \in Positions \/ k = L + 1
  BY <1>2, <1>4
<1>6. \A k \in Positions : contents[k] # n
  BY PushHeap DEF IsHeld
<1>7. head' = contents'[1]
  BY <1>2, <1>3, PushHeap
<1>8. \A k \in Positions' : next'[contents'[k]] = Succ(k)'
  <2> SUFFICES ASSUME NEW k \in Positions'
               PROVE  next'[contents'[k]] = Succ(k)'
    OBVIOUS
  <2>1. CASE k = L + 1
    BY <1>2, <1>3, <2>1, PushHeap DEF Succ
  <2>2. CASE k \in Positions
    <3>1. next'[contents[k]] = IF k < L THEN contents[k + 1] ELSE n
      BY <2>2, PushHeap
    <3>2. k < L => k + 1 \in 1..L
      BY <1>2, <1>4, <2>2
    <3>3. k < L \/ k = L
      BY <1>2, <1>4, <2>2
    <3> QED
      BY <1>2, <1>3, <1>4, <2>2, <3>1, <3>2, <3>3 DEF Succ
  <2> QED
    BY <1>5, <2>1, <2>2
<1>9. \A k \in Positions' : previous'[contents'[k]] = Pred(k)'
  <2> SUFFICES ASSUME NEW k \in Positions'
               PROVE  previous'[contents'[k]] = Pred(k)'
    OBVIOUS
  <2>0. previous' = [previous EXCEPT ![n] = IF contents = << >> THEN Nil ELSE contents[L]]
    BY PushHeap
  <2>1. CASE k = L + 1
    <3>1. previous'[n] = IF contents = << >> THEN Nil ELSE contents[L]
      BY <1>1, <2>0 DEF TypeOK
    <3>2. L = 0 \/ (L \in 1..L /\ L + 1 > 1)
      BY <1>2
    <3> QED
      BY <1>2, <1>3, <2>1, <3>1, <3>2 DEF Pred
  <2>2. CASE k \in Positions
    <3>1. previous'[contents[k]] = previous[contents[k]]
      BY <1>1, <1>2, <1>6, <2>0, <2>2 DEF TypeOK
    <3>2. k > 1 => k - 1 \in 1..L
      BY <1>2, <1>4, <2>2
    <3> QED
      BY <1>1, <1>3, <1>4, <2>2, <3>1, <3>2 DEF Pred, ListInv
  <2> QED
    BY <1>5, <2>1, <2>2
<1>10. \A j, k \in Positions' : contents'[j] = contents'[k] => j = k
  BY <1>1, <1>3, <1>4, <1>5, <1>6 DEF ListInv
<1>11. \A m \in Nodes : ~IsHeld(m)' => next'[m] = Nil
  <2> SUFFICES ASSUME NEW m \in Nodes, ~IsHeld(m)'
               PROVE  next'[m] = Nil
    OBVIOUS
  <2>1. m # n
    BY <1>2, <1>3, <1>4 DEF IsHeld
  <2>2. ~IsHeld(m)
    BY <1>2, <1>3, <1>4 DEF IsHeld
  <2> QED
    BY <1>1, <2>1, <2>2, PushHeap DEF ListInv
<1>12. ListInv'
  BY <1>3, <1>7, <1>8, <1>9, <1>10, <1>11 DEF ListInv
<1>13. AllocInv'
  BY <1>1, <1>3, <1>4, <1>5, PushHeap DEF AllocInv
<1>14. NoDuplicateIds'
  <2>1. id' = [id EXCEPT ![n] = arg[t]] /\ \A k \in Positions : id[contents[k]] # arg[t]
    BY PushHeap
  <2>2. \A k \in Positions : id'[contents'[k]] = id[contents[k]]
    BY <1>1, <1>2, <1>3, <1>4, <1>6, <2>1 DEF TypeOK
  <2>3. id'[contents'[L + 1]] = arg[t]
    BY <1>1, <1>3, <2>1 DEF TypeOK
  <2> QED
    BY <1>1, <1>5, <2>1, <2>2, <2>3 DEF NoDuplicateIds
<1> QED
  BY <1>12, <1>13, <1>14

LEMMA OneBelow ==
  ASSUME NEW k \in Nat, k \in 1..k
  PROVE  k # 1 => 1 \in 1..(k - 1)
OBVIOUS

LEMMA PopList ==
  ASSUME Inv, NEW t \in Threads, HPop(t)
  PROVE  ListInv' /\ AllocInv' /\ NoDuplicateIds'
<1> DEFINE L == Len(contents)
<1>1. TypeOK /\ ListInv /\ AllocInv /\ NoDuplicateIds /\ main = "join"
  BY OthersUnmoved DEF Inv, HStep
<1>2. /\ L \in Nat
      /\ \A k \in Positions : contents[k] \in Nodes
      /\ L \in Positions
  BY <1>1, ContentsNodes, PopHeap
<1>3. /\ Len(contents') = L - 1
      /\ \A k \in 1..(L - 1) : contents'[k] = contents[k]
      /\ contents' = << >> <=> L = 1
  <2>1. contents # << >>
    BY PopNonEmpty DEF HPop
  <2>2. /\ Len(contents') \in Nat
        /\ L = Len(contents') + 1
        /\ \A k \in 1..Len(contents') : contents'[k] = contents[k]
        /\ contents' = << >> <=> Len(contents') = 0
    BY <1>1, <2>1, PopFacts DEF HPop, TypeOK
  <2>3. Len(contents') = L - 1 /\ (Len(contents') = 0 <=> L = 1)
    BY <1>2, <2>2
  <2> QED
    BY <2>2, <2>3
<1>4. Positions = 1..L /\ Positions' = 1..(L - 1) /\ Positions' \subseteq Positions
  BY <1>2, <1>3 DEF Positions
<1>5. \A k \in Positions' : contents'[k] = contents[k] /\ k \in Positions
  BY <1>3, <1>4
<1>6. head' = IF contents' = << >> THEN Nil ELSE contents'[1]
  <2>0. L \in Nat /\ L \in 1..L
    BY <1>2, <1>4
  <2>1. L # 1 => 1 \in 1..(L - 1)
    BY <2>0, OneBelow
  <2> QED
    BY <1>3, <2>1, PopHeap
<1>7. \A k \in Positions' : next'[contents'[k]] = Succ(k)'
  <2> SUFFICES ASSUME NEW k \in Positions'
               PROVE  next'[contents'[k]] = Succ(k)'
    OBVIOUS
  <2>1. next'[contents[k]] = IF k < L - 1 THEN contents[k + 1] ELSE Nil
    BY <1>4, PopHeap
  <2>2. k < L - 1 => k + 1 \in 1..(L - 1)
    BY <1>2, <1>4
  <2> QED
    BY <1>3, <1>5, <2>1, <2>2 DEF Succ
<1>8. \A k \in Positions' : previous'[contents'[k]] = Pred(k)'
  <2> SUFFICES ASSUME NEW k \in Positions'
               PROVE  previous'[contents'[k]] = Pred(k)'
    OBVIOUS
  <2>1. k > 1 => k - 1 \in 1..(L - 1)
    BY <1>2, <1>4
  <2>2. previous' = previous
    BY PopHeap
  <2> QED
    BY <1>1, <1>3, <1>5, <2>1, <2>2 DEF Pred, ListInv
<1>9. \A j, k \in Positions' : contents'[j] = contents'[k] => j = k
  BY <1>1, <1>5 DEF ListInv
<1>10. \A m \in Nodes : ~IsHeld(m)' => next'[m] = Nil
  <2> SUFFICES ASSUME NEW m \in Nodes, ~IsHeld(m)'
               PROVE  next'[m] = Nil
    OBVIOUS
  <2>1. ~IsHeld(m) \/ m = contents[L]
    <3>1. \A k \in Positions : k \in Positions' \/ k = L
      BY <1>2, <1>4
    <3>2. \A k \in Positions' : m # contents[k]
      BY <1>5 DEF IsHeld
    <3> QED
      BY <3>1, <3>2 DEF IsHeld
  <2> QED
    BY <2>1, PopHeap
<1>11. ListInv'
  BY <1>6, <1>7, <1>8, <1>9, <1>10 DEF ListInv
<1>12. AllocInv' /\ NoDuplicateIds'
  BY <1>1, <1>5, PopHeap DEF AllocInv, NoDuplicateIds
<1> QED
  BY <1>11, <1>12

LEMMA ListStep == Inv /\ [HNext]_hvars => ListInv' /\ AllocInv' /\ NoDuplicateIds'
<1> SUFFICES ASSUME Inv, [HNext]_hvars
             PROVE  ListInv' /\ AllocInv' /\ NoDuplicateIds'
  OBVIOUS
<1>1. TypeOK /\ ListInv /\ AllocInv /\ NoDuplicateIds
  BY DEF Inv
<1> USE DEF ListInv, AllocInv, NoDuplicateIds, Positions, IsHeld, Succ, Pred, heap
<1>2. ASSUME NEW t \in Threads, HQuiet(t)
      PROVE  ListInv' /\ AllocInv' /\ NoDuplicateIds'
  <2>1. UNCHANGED <<head, next, previous, id, used, contents>>
    BY <1>2, QuietFrame
  <2>2. main' = main
    BY <1>2, OthersUnmoved DEF HStep
  <2> QED
    BY <1>1, <2>1, <2>2
<1>3. CASE HMain
  <2>1. UNCHANGED <<head, next, previous, id, contents>>
    BY <1>3 DEF HMain, ClearStep, StartClear, ClearWalk, ClearFree, ClearEnd, Finished, vars
  <2>2. \/ UNCHANGED used /\ (main' \in {"join", "walk"} => main \in {"join", "walk"})
        \/ main' \notin {"join", "walk"}
    BY <1>3 DEF HMain, ClearStep, StartClear, ClearWalk, ClearFree, ClearEnd, Finished, vars
  <2> QED
    BY <1>1, <2>1, <2>2
<1>4. CASE UNCHANGED hvars
  BY <1>1, <1>4 DEF hvars
<1> QED
  BY <1>2, <1>3, <1>4, PushList, PopList DEF HNext

-----------------------------------------------------------------------------
(* Walks under the mutex *)

(* Only the walks move a thread to, or within, a place on the list.        *)
LEMMA WalkEntry ==
  ASSUME Inv, NEW t \in Threads, HQuiet(t)
  PROVE  FindPlace(t)' /\ LinkPlace(t)' /\ PopPlace(t)'
<1> DEFINE Goal == FindPlace(t)' /\ LinkPlace(t)' /\ PopPlace(t)'
<1>1. TypeOK
  BY DEF Inv
<1>2. UNCHANGED <<head, next, previous, id, used, contents>>
  BY QuietFrame DEF heap
<1>3. FindPlace(t) /\ LinkPlace(t) /\ PopPlace(t)
  BY DEF Inv, WalkInv
<1>4. Positions' = Positions /\ Len(contents) \in Nat /\ Positions = 1..Len(contents)
  BY <1>1, <1>2, ContentsNodes DEF Positions
<1>5. CASE pc'[t] \notin {"a_find", "a_walk", "p_walk"}
  BY <1>5 DEF FindPlace, LinkPlace, PopPlace, At
<1> USE DEF Goto, At
<1>6. CASE AppendBegin(t)
  <2>1. pc'[t] = "a_find" /\ tmp'[t] = contents[1] /\ contents # << >> /\ 1 \in Positions
    BY <1>1, <1>6, ListFacts DEF AppendBegin, TypeOK
  <2>2. 1..(1 - 1) = {}
    OBVIOUS
  <2> QED
    BY <1>2, <1>4, <2>1, <2>2 DEF FindPlace, LinkPlace, PopPlace
<1>7. CASE FindStep(t)
  <2>1. /\ pc[t] = "a_find" /\ pc'[t] = "a_find" /\ arg' = arg
        /\ tmp[t] # Nil /\ id[tmp[t]] # arg[t] /\ tmp'[t] = next[tmp[t]]
    BY <1>1, <1>7 DEF FindStep, TypeOK
  <2>2. PICK k \in Positions : /\ tmp[t] = contents[k]
                               /\ \A j \in 1..(k - 1) : id[contents[j]] # arg[t]
    BY <1>3, <2>1 DEF FindPlace
  <2>3. \A j \in 1..k : id[contents[j]] # arg[t]
    <3>1. \A j \in 1..k : j \in 1..(k - 1) \/ j = k
      BY <1>4
    <3> QED
      BY <2>1, <2>2, <3>1
  <2>4. CASE next[tmp[t]] = Nil
    <3>1. k = Len(contents)
      BY <2>2, <2>4, ListFacts
    <3> QED
      BY <1>2, <1>3, <1>4, <2>1, <2>3, <2>4, <3>1 DEF FindPlace, LinkPlace, PopPlace
  <2>5. CASE next[tmp[t]] # Nil
    <3>1. k + 1 \in Positions /\ next[tmp[t]] = contents[k + 1]
      BY <2>2, <2>5, ListFacts
    <3>2. 1..((k + 1) - 1) = 1..k
      BY <1>4
    <3> QED
      BY <1>2, <1>3, <1>4, <2>1, <2>3, <3>1, <3>2 DEF FindPlace, LinkPlace, PopPlace
  <2> QED
    BY <2>4, <2>5
<1>8. CASE FindNone(t)
  <2>1. /\ pc[t] = "a_find" /\ pc'[t] = "a_walk" /\ arg' = arg
        /\ tmp[t] = Nil /\ tmp'[t] = head
    BY <1>1, <1>8 DEF FindNone, TypeOK
  <2>2. contents # << >> /\ \A j \in Positions : id[contents[j]] # arg[t]
    BY <1>3, <2>1, ListFacts DEF FindPlace
  <2>3. tmp'[t] = contents[1] /\ 1 \in Positions
    BY <2>1, <2>2, ListFacts
  <2> QED
    BY <1>2, <1>4, <2>1, <2>2, <2>3 DEF FindPlace, LinkPlace, PopPlace
<1>9. CASE AppendWalk(t)
  <2>1. /\ pc[t] = "a_walk" /\ pc'[t] = "a_walk" /\ arg' = arg
        /\ next[tmp[t]] # Nil /\ tmp'[t] = next[tmp[t]]
    BY <1>1, <1>9 DEF AppendWalk, TypeOK
  <2>2. PICK k \in Positions : tmp[t] = contents[k]
    BY <1>3, <2>1 DEF LinkPlace
  <2>3. k + 1 \in Positions /\ tmp'[t] = contents[k + 1]
    BY <2>1, <2>2, ListFacts
  <2> QED
    BY <1>2, <1>3, <1>4, <2>1, <2>3 DEF FindPlace, LinkPlace, PopPlace
<1>10. CASE PopBegin(t)
  <2>1. /\ pc'[t] = "p_walk" /\ tmp'[t] = head /\ prev'[t] = head
        /\ head # Nil /\ next[head] # Nil
    BY <1>1, <1>10 DEF PopBegin, TypeOK
  <2>2. head = contents[1] /\ 1 \in Positions /\ 1 + 1 \in Positions
    BY <2>1, ListFacts
  <2>3. Len(contents) > 1
    BY <1>4, <2>2
  <2> QED
    BY <1>2, <1>4, <2>1, <2>2, <2>3 DEF FindPlace, LinkPlace, PopPlace
<1>11. CASE PopWalk(t)
  <2>1. /\ pc[t] = "p_walk" /\ pc'[t] = "p_walk" /\ prev'[t] = tmp[t]
        /\ next[tmp[t]] # Nil /\ tmp'[t] = next[tmp[t]]
    BY <1>1, <1>11 DEF PopWalk, TypeOK
  <2>2. Len(contents) > 1 /\ \E k \in Positions : tmp[t] = contents[k]
    BY <1>3, <2>1 DEF PopPlace
  <2>3. PICK k \in Positions : tmp[t] = contents[k]
    BY <2>2
  <2>4. k + 1 \in Positions /\ tmp'[t] = contents[k + 1]
    BY <2>1, <2>3, ListFacts
  <2>5. k + 1 # 1 /\ (k + 1) - 1 = k
    BY <1>4
  <2>6. prev'[t] = IF k + 1 = 1 THEN contents[1] ELSE contents[(k + 1) - 1]
    BY <2>1, <2>3, <2>5
  <2> QED
    BY <1>2, <1>4, <2>1, <2>2, <2>4, <2>6 DEF FindPlace, LinkPlace, PopPlace
<1>12. CASE \/ CallStep(t) \/ Lock(t) \/ Unlock(t) \/ AppendFirstNoMemory(t)
            \/ FindDuplicate(t) \/ AppendNoMemory(t) \/ PopEmpty(t) \/ SetDead(t)
            \/ SizeStep(t)
  <2>1. CASE CallStep(t)
    BY <1>1, <1>5, <2>1 DEF CallStep, CallAppend, CallPop, CallMark, CallSize, TypeOK
  <2>2. CASE Lock(t) \/ Unlock(t) \/ SetDead(t)
    BY <1>1, <1>5, <2>2 DEF Lock, Locked, LockPcs, Unlock, LeaveCall, SetDead, TypeOK
  <2>3. CASE AppendFirstNoMemory(t) \/ FindDuplicate(t) \/ AppendNoMemory(t) \/ PopEmpty(t)
    BY <1>1, <1>5, <2>3 DEF AppendFirstNoMemory, FindDuplicate, AppendNoMemory, PopEmpty,
                            Finish, TypeOK
  <2>4. CASE SizeStep(t)
    BY <1>1, <1>5, <2>4 DEF SizeStep, SizeCheck, SizeRead, SizeWalk, SizeEnd, SizeReturn,
                            LeaveCall, TypeOK
  <2> QED
    BY <1>12, <2>1, <2>2, <2>3, <2>4
<1> QED
  BY <1>6, <1>7, <1>8, <1>9, <1>10, <1>11, <1>12 DEF HQuiet, Quiet

LEMMA WalkPreserved == Inv /\ [HNext]_hvars => WalkInv'
<1> SUFFICES ASSUME Inv, [HNext]_hvars
             PROVE  WalkInv'
  OBVIOUS
<1>1. WalkInv /\ MutexInv
  BY DEF Inv
<1> USE DEF WalkInv, FindPlace, LinkPlace, PopPlace, Positions, At
(* The thread that changes the list holds the mutex: nobody else walks.    *)
<1>2. ASSUME NEW t \in Threads, pc[t] \in HeldPcs, pc'[t] = "unlock",
             \A u \in Threads \ {t} : Unmoved(u)
      PROVE  WalkInv'
  <2>1. \A u \in Threads \ {t} : pc[u] \notin HeldPcs
    BY <1>1, <1>2 DEF MutexInv
  <2>2. \A u \in Threads : pc'[u] \notin {"a_find", "a_walk", "p_walk"}
    BY <1>2, <2>1 DEF Unmoved, HeldPcs
  <2> QED
    BY <2>2
<1>3. ASSUME NEW t \in Threads, NEW n \in Nodes, HPush(t, n)
      PROVE  WalkInv'
  <2>1. pc[t] \in HeldPcs /\ pc'[t] = "unlock"
    BY <1>3, PushHeap DEF HeldPcs
  <2> QED
    BY <1>2, <1>3, <2>1, OthersUnmoved DEF HStep
<1>4. ASSUME NEW t \in Threads, HPop(t)
      PROVE  WalkInv'
  <2>1. pc[t] \in HeldPcs /\ pc'[t] = "unlock"
    BY <1>4, PopHeap DEF HeldPcs
  <2> QED
    BY <1>2, <1>4, <2>1, OthersUnmoved DEF HStep
<1>5. ASSUME NEW t \in Threads, HQuiet(t)
      PROVE  WalkInv'
  <2>1. UNCHANGED <<head, next, previous, id, used, contents>>
    BY <1>5, QuietFrame DEF heap
  <2>2. \A u \in Threads \ {t} : Unmoved(u)
    BY <1>5, OthersUnmoved DEF HStep
  <2>3. ASSUME NEW u \in Threads \ {t}
        PROVE  FindPlace(u)' /\ LinkPlace(u)' /\ PopPlace(u)'
    BY <1>1, <2>1, <2>2 DEF Unmoved
  <2>4. FindPlace(t)' /\ LinkPlace(t)' /\ PopPlace(t)'
    BY <1>5, WalkEntry
  <2> QED
    BY <2>3, <2>4
<1>6. CASE HMain
  <2>1. UNCHANGED <<contents, id, pc, tmp, prev, arg>>
    BY <1>6 DEF HMain, ClearStep, StartClear, ClearWalk, ClearFree, ClearEnd, Finished,
                vars, locals, heap
  <2> QED
    BY <1>1, <2>1
<1>7. CASE UNCHANGED hvars
  BY <1>1, <1>7 DEF hvars
<1> QED
  BY <1>3, <1>4, <1>5, <1>6, <1>7 DEF HNext

-----------------------------------------------------------------------------
(* QSize without the mutex *)

(* Nothing seen during a call is forgotten, and the present length is seen.*)
LEMMA SeenFacts ==
  ASSUME TypeOK, Observe, NEW u \in Threads
  PROVE  /\ pc'[u] \in SizePcs => Len(contents') \in seen'[u]
         /\ pc'[u] \in SizePcs /\ pc[u] \in SizePcs => seen[u] \subseteq seen'[u]
BY DEF Observe, TypeOK

(* A reader keeps its place when somebody else appends.                    *)
LEMMA SizePush ==
  ASSUME Inv, NEW t \in Threads, NEW n \in Nodes, HPush(t, n), NEW u \in Threads
  PROVE  SizePlace(u)'
<1>1. TypeOK /\ SizePlace(u) /\ Observe
  BY DEF Inv, SizeInv, HPush
<1>2. /\ pc'[u] \in SizePcs => Len(contents') \in seen'[u]
      /\ pc'[u] \in SizePcs /\ pc[u] \in SizePcs => seen[u] \subseteq seen'[u]
  BY <1>1, SeenFacts
<1>3. CASE u = t
  <2>1. pc'[u] = "unlock"
    BY <1>3, PushHeap
  <2> QED
    BY <2>1 DEF SizePlace, SizePcs, At
<1>4. CASE u # t
  <2>1. pc'[u] = pc[u] /\ tmp'[u] = tmp[u] /\ cnt'[u] = cnt[u]
    BY <1>4, OthersUnmoved DEF HStep, Unmoved
  <2>2. contents \in Seq(Nodes) /\ contents' = Append(contents, n)
    BY <1>1 DEF HPush, TypeOK
  <2>3. /\ Len(contents') = Len(contents) + 1
        /\ \A k \in 1..Len(contents) : contents'[k] = contents[k]
        /\ contents'[Len(contents) + 1] = n
        /\ Len(contents) \in Nat
    BY <2>2, PushFacts, LenProperties
  <2>4. n \notin used /\ used' = used \cup {n}
    BY PushHeap
  <2>5. CASE pc[u] = "s_walk"
    <3>1. pc[u] \in SizePcs /\ pc'[u] \in SizePcs
      BY <2>1, <2>5 DEF SizePcs
    <3>2. CASE \E k \in Positions : tmp[u] = contents[k] /\ cnt[u] = k - 1
      <4>1. PICK k \in Positions : tmp[u] = contents[k] /\ cnt[u] = k - 1
        BY <3>2
      <4>2. k \in Positions' /\ contents'[k] = contents[k]
        BY <2>3 DEF Positions
      <4> QED
        BY <1>2, <2>1, <2>5, <3>1, <4>1, <4>2 DEF SizePlace, At
    <3>3. CASE /\ tmp[u] \in Nodes /\ tmp[u] \in used /\ ~IsHeld(tmp[u])
               /\ cnt[u] + 1 \in seen[u]
      <4>1. \A k \in Positions' : k \in Positions \/ k = Len(contents) + 1
        BY <2>3 DEF Positions
      <4>2. ~IsHeld(tmp[u])'
        BY <2>1, <2>3, <2>4, <3>3, <4>1 DEF IsHeld, Positions
      <4> QED
        BY <1>2, <2>1, <2>4, <2>5, <3>1, <3>3, <4>2 DEF SizePlace, At
    <3>4. CASE tmp[u] = Nil /\ cnt[u] \in seen[u]
      BY <1>2, <2>1, <2>5, <3>1, <3>4 DEF SizePlace, At
    <3> QED
      BY <1>1, <2>5, <3>2, <3>3, <3>4 DEF SizePlace, At
  <2>6. CASE pc[u] # "s_walk"
    BY <1>1, <1>2, <2>1, <2>6 DEF SizePlace, At, SizePcs
  <2> QED
    BY <2>5, <2>6
<1> QED
  BY <1>3, <1>4

(* A reader that stands on the node somebody else pops has just counted    *)
(* the length the list had until then.                                     *)
LEMMA SizePop ==
  ASSUME Inv, NEW t \in Threads, HPop(t), NEW u \in Threads
  PROVE  SizePlace(u)'
<1> DEFINE L == Len(contents)
<1>1. TypeOK /\ ListInv /\ AllocInv /\ SizePlace(u) /\ Observe
  BY DEF Inv, SizeInv, HPop
<1>2. /\ pc'[u] \in SizePcs => Len(contents') \in seen'[u]
      /\ pc'[u] \in SizePcs /\ pc[u] \in SizePcs => seen[u] \subseteq seen'[u]
  BY <1>1, SeenFacts
<1>3. CASE u = t
  <2>1. pc'[u] = "unlock"
    BY <1>3, PopHeap
  <2> QED
    BY <2>1 DEF SizePlace, SizePcs, At
<1>4. CASE u # t
  <2>1. pc'[u] = pc[u] /\ tmp'[u] = tmp[u] /\ cnt'[u] = cnt[u] /\ main = "join"
    BY <1>4, OthersUnmoved DEF HStep, Unmoved
  <2>2. /\ L \in Nat /\ L \in Positions
        /\ \A k \in Positions : contents[k] \in Nodes
        /\ used' = used
    BY <1>1, ContentsNodes, PopHeap
  <2>3. contents # << >> /\ contents \in Seq(Nodes) /\ contents' = Front(contents)
    BY <1>1, PopNonEmpty DEF HPop, TypeOK
  <2>4. /\ Len(contents') \in Nat
        /\ L = Len(contents') + 1
        /\ \A k \in 1..Len(contents') : contents'[k] = contents[k]
    BY <2>3, PopFacts
  <2>5. CASE pc[u] = "s_walk"
    <3>1. pc[u] \in SizePcs /\ pc'[u] \in SizePcs
      BY <2>1, <2>5 DEF SizePcs
    <3>2. CASE \E k \in Positions : tmp[u] = contents[k] /\ cnt[u] = k - 1
      <4>1. PICK k \in Positions : tmp[u] = contents[k] /\ cnt[u] = k - 1
        BY <3>2
      <4>2. CASE k # L
        <5>1. k \in Positions' /\ contents'[k] = contents[k]
          BY <2>4, <4>2 DEF Positions
        <5> QED
          BY <1>2, <2>1, <2>5, <3>1, <4>1, <5>1 DEF SizePlace, At
      <4>3. CASE k = L
        <5>1. \A j \in Positions' : j \in Positions /\ j # L /\ contents'[j] = contents[j]
          BY <2>4 DEF Positions
        <5>2. ~IsHeld(tmp[u])'
          BY <1>1, <2>1, <2>2, <4>1, <4>3, <5>1 DEF ListInv, IsHeld
        <5>3. tmp[u] \in Nodes /\ tmp[u] \in used
          BY <1>1, <2>1, <2>2, <4>1 DEF AllocInv
        <5>4. cnt[u] + 1 = L
          BY <2>2, <4>1, <4>3
        <5>5. cnt[u] + 1 \in seen[u]
          BY <1>1, <3>1, <5>4 DEF SizePlace
        <5> QED
          BY <1>2, <2>1, <2>2, <2>5, <3>1, <5>2, <5>3, <5>5 DEF SizePlace, At
      <4> QED
        BY <4>2, <4>3
    <3>3. CASE /\ tmp[u] \in Nodes /\ tmp[u] \in used /\ ~IsHeld(tmp[u])
               /\ cnt[u] + 1 \in seen[u]
      <4>1. \A j \in Positions' : j \in Positions /\ contents'[j] = contents[j]
        BY <2>4 DEF Positions
      <4>2. ~IsHeld(tmp[u])'
        BY <2>1, <3>3, <4>1 DEF IsHeld
      <4> QED
        BY <1>2, <2>1, <2>2, <2>5, <3>1, <3>3, <4>2 DEF SizePlace, At
    <3>4. CASE tmp[u] = Nil /\ cnt[u] \in seen[u]
      BY <1>2, <2>1, <2>5, <3>1, <3>4 DEF SizePlace, At
    <3> QED
      BY <1>1, <2>5, <3>2, <3>3, <3>4 DEF SizePlace, At
  <2>6. CASE pc[u] # "s_walk"
    BY <1>1, <1>2, <2>1, <2>6 DEF SizePlace, At, SizePcs
  <2> QED
    BY <2>5, <2>6
<1> QED
  BY <1>3, <1>4

(* A reader's own steps.                                                   *)
LEMMA SizeOwn ==
  ASSUME Inv, NEW t \in Threads, HQuiet(t)
  PROVE  SizePlace(t)'
<1>1. TypeOK /\ ListInv /\ SizePlace(t) /\ Observe /\ AllocInv /\ MutexInv
  BY DEF Inv, SizeInv, HQuiet
<1>2. UNCHANGED <<head, next, previous, id, used, contents>>
  BY QuietFrame DEF heap
<1>3. /\ pc'[t] \in SizePcs => Len(contents) \in seen'[t]
      /\ pc'[t] \in SizePcs /\ pc[t] \in SizePcs => seen[t] \subseteq seen'[t]
  BY <1>1, <1>2, SeenFacts
<1>4. Positions' = Positions /\ Len(contents) \in Nat /\ Positions = 1..Len(contents)
  BY <1>1, <1>2, ContentsNodes DEF Positions
<1> USE DEF Goto, At
<1>5. CASE pc'[t] \notin SizePcs
  BY <1>5 DEF SizePlace, SizePcs
<1>6. CASE CallSize(t)
  <2>1. pc'[t] = "s_check" /\ cnt'[t] = 0
    BY <1>1, <1>6 DEF CallSize, TypeOK
  <2> QED
    BY <1>2, <1>3, <2>1 DEF SizePlace, SizePcs
<1>7. CASE SizeCheck(t)
  <2>1. /\ pc[t] = "s_check" /\ pc'[t] = IF head = Nil THEN "s_done" ELSE "s_read"
        /\ cnt'[t] = cnt[t] /\ cnt[t] = 0
    BY <1>1, <1>7 DEF SizeCheck, SizePlace, TypeOK, locals
  <2>2. head = Nil => Len(contents) = 0
    BY ListFacts
  <2> QED
    BY <1>2, <1>3, <2>1, <2>2 DEF SizePlace, SizePcs
<1>8. CASE SizeRead(t)
  <2>1. /\ pc[t] = "s_read" /\ pc'[t] = "s_walk" /\ tmp'[t] = head
        /\ cnt'[t] = cnt[t] /\ cnt[t] = 0
    BY <1>1, <1>8 DEF SizeRead, SizePlace, TypeOK
  <2>2. CASE head = Nil
    <3>1. Len(contents) = 0
      BY <2>2, ListFacts
    <3> QED
      BY <1>2, <1>3, <2>1, <2>2, <3>1 DEF SizePlace, SizePcs
  <2>3. CASE head # Nil
    <3>1. head = contents[1] /\ 1 \in Positions /\ 0 = 1 - 1
      BY <2>3, ListFacts
    <3> QED
      BY <1>2, <1>3, <1>4, <2>1, <3>1 DEF SizePlace, SizePcs
  <2> QED
    BY <2>2, <2>3
<1>9. CASE SizeWalk(t)
  <2>1. /\ pc[t] = "s_walk" /\ pc'[t] = "s_walk" /\ tmp[t] # Nil
        /\ tmp'[t] = next[tmp[t]] /\ cnt'[t] = cnt[t] + 1
    BY <1>1, <1>9 DEF SizeWalk, TypeOK
  <2>2. Len(contents) \in seen'[t] /\ seen[t] \subseteq seen'[t]
    BY <1>3, <2>1 DEF SizePcs
  <2>3. CASE \E k \in Positions : tmp[t] = contents[k] /\ cnt[t] = k - 1
    <3>1. PICK k \in Positions : tmp[t] = contents[k] /\ cnt[t] = k - 1
      BY <2>3
    <3>2. cnt[t] + 1 = k /\ (k + 1) - 1 = k
      BY <1>4, <3>1
    <3>3. CASE next[tmp[t]] = Nil
      <4>1. k = Len(contents)
        BY <3>1, <3>3, ListFacts
      <4> QED
        BY <1>2, <2>1, <2>2, <3>2, <3>3, <4>1 DEF SizePlace
    <3>4. CASE next[tmp[t]] # Nil
      <4>1. k + 1 \in Positions /\ next[tmp[t]] = contents[k + 1]
        BY <3>1, <3>4, ListFacts
      <4> QED
        BY <1>2, <1>4, <2>1, <2>2, <3>2, <4>1 DEF SizePlace
    <3> QED
      BY <3>3, <3>4
  <2>4. CASE tmp[t] \in Nodes /\ ~IsHeld(tmp[t]) /\ cnt[t] + 1 \in seen[t]
    <3>1. next[tmp[t]] = Nil
      BY <1>1, <2>4 DEF ListInv
    <3> QED
      BY <1>2, <2>1, <2>2, <2>4, <3>1 DEF SizePlace
  <2> QED
    BY <1>1, <2>1, <2>3, <2>4 DEF SizePlace
<1>10. CASE SizeEnd(t)
  <2>1. /\ pc[t] = "s_walk" /\ pc'[t] = "s_done" /\ tmp[t] = Nil /\ cnt'[t] = cnt[t]
    BY <1>1, <1>10 DEF SizeEnd, TypeOK, locals
  <2>2. \A k \in Positions : tmp[t] # contents[k]
    BY <2>1, ListFacts
  <2>3. cnt[t] \in seen[t]
    BY <1>1, <2>1, <2>2, QueueAssumption DEF SizePlace
  <2> QED
    BY <1>2, <1>3, <2>1, <2>3 DEF SizePlace, SizePcs
<1>11. CASE CallPop(t) \/ Lock(t) \/ Unlock(t)
            \/ SetDead(t) \/ SizeReturn(t)
  BY <1>1, <1>5, <1>11 DEF CallPop, Lock, Locked, LockPcs, Unlock,
                           LeaveCall, SetDead, SizeReturn, TypeOK, SizePcs
<1>12. CASE \/ AppendFirstNoMemory(t) \/ AppendBegin(t) \/ FindDuplicate(t)
            \/ FindStep(t) \/ FindNone(t) \/ AppendWalk(t) \/ AppendNoMemory(t)
            \/ PopEmpty(t) \/ PopBegin(t) \/ PopWalk(t)
  BY <1>1, <1>5, <1>12 DEF AppendFirstNoMemory, AppendBegin, FindDuplicate, FindStep,
           FindNone, AppendWalk, AppendNoMemory, PopEmpty, PopBegin, PopWalk, Finish,
           TypeOK, SizePcs
<1>13. CASE (\E i \in Ids : CallAppend(t, i)) \/ (\E d \in BOOLEAN : CallMark(t, d))
  BY <1>1, <1>5, <1>13 DEF CallAppend, CallMark, TypeOK, SizePcs
<1> QED
  BY <1>6, <1>7, <1>8, <1>9, <1>10, <1>11, <1>12, <1>13 DEF HQuiet, Quiet, CallStep, SizeStep

LEMMA SizePreserved == Inv /\ [HNext]_hvars => SizeInv'
<1> SUFFICES ASSUME Inv, [HNext]_hvars, NEW u \in Threads
             PROVE  SizePlace(u)'
  BY DEF SizeInv
<1>1. TypeOK /\ SizePlace(u) /\ MutexInv
  BY DEF Inv, SizeInv
<1>2. ASSUME NEW t \in Threads, HQuiet(t)
      PROVE  SizePlace(u)'
  <2>1. CASE u = t
    BY <1>2, <2>1, SizeOwn
  <2>2. CASE u # t
    <3>1. UNCHANGED <<head, next, previous, id, used, contents>>
      BY <1>2, QuietFrame DEF heap
    <3>2. pc'[u] = pc[u] /\ tmp'[u] = tmp[u] /\ cnt'[u] = cnt[u]
      BY <1>2, <2>2, OthersUnmoved DEF HStep, Unmoved
    <3>3. pc[u] \in SizePcs => seen[u] \subseteq seen'[u] /\ Len(contents') \in seen'[u]
      BY <1>1, <1>2, <3>2, SeenFacts DEF HQuiet
    <3> QED
      BY <1>1, <3>1, <3>2, <3>3 DEF SizePlace, At, SizePcs, IsHeld, Positions
  <2> QED
    BY <2>1, <2>2
<1>3. CASE HMain
  <2>1. UNCHANGED <<contents, seen, pc, tmp, cnt>>
    BY <1>3 DEF HMain, ClearStep, StartClear, ClearWalk, ClearFree, ClearEnd, Finished,
                vars, locals
  <2>2. used' = used \/ pc[u] = "idle"
    BY <1>1, <1>3 DEF HMain, ClearStep, StartClear, ClearWalk, ClearFree, ClearEnd,
                      Finished, vars, heap, MutexInv, At
  <2> QED
    BY <1>1, <2>1, <2>2 DEF SizePlace, At, SizePcs, IsHeld, Positions
<1>4. CASE UNCHANGED hvars
  BY <1>1, <1>4 DEF hvars, SizePlace, At, IsHeld, Positions
<1> QED
  BY <1>2, <1>3, <1>4, SizePush, SizePop DEF HNext

-----------------------------------------------------------------------------
(* QueueEntireClear *)

LEMMA ClearPreserved == Inv /\ [HNext]_hvars => ClearInv'
<1> SUFFICES ASSUME Inv, [HNext]_hvars
             PROVE  ClearInv'
  OBVIOUS
<1>1. TypeOK /\ ListInv /\ AllocInv /\ ClearInv
  BY DEF Inv
<1>2. /\ Len(contents) \in Nat /\ Positions = 1..Len(contents)
      /\ \A k \in Positions : contents[k] \in Nodes /\ contents[k] # Nil
  BY ListFacts DEF Positions
<1>3. ASSUME NEW t \in Threads, HStep(t)
      PROVE  ClearInv'
  BY <1>3, OthersUnmoved DEF ClearInv
<1>4. CASE HMain
  <2>1. UNCHANGED <<contents, next, previous, head>>
    BY <1>4 DEF HMain, ClearStep, StartClear, ClearWalk, ClearFree, ClearEnd, Finished,
                vars, heap
  <2>2. Positions' = Positions
    BY <2>1 DEF Positions
  <2>3. CASE StartClear
    <3>1. main' = (IF head = Nil THEN "done" ELSE "walk") /\ cur' = head
      BY <2>3 DEF StartClear
    <3>2. head = Nil => Positions = {}
      BY <1>2, ListFacts
    <3>3. head # Nil => head = contents[1] /\ 1 \in Positions
      BY ListFacts
    <3> QED
      BY <2>1, <2>2, <3>1, <3>2, <3>3 DEF ClearInv
  <2>4. CASE ClearWalk
    <3>1. main = "walk" /\ used' = used
      BY <2>4 DEF ClearWalk, heap
    <3>2. PICK k \in Positions : cur = contents[k]
      BY <1>1, <3>1 DEF ClearInv
    <3>3. CASE next[cur] # Nil
      <4>1. k + 1 \in Positions /\ next[cur] = contents[k + 1]
        BY <3>2, <3>3, ListFacts
      <4> QED
        BY <2>1, <2>2, <2>4, <3>1, <3>3, <4>1 DEF ClearInv, ClearWalk
    <3>4. CASE next[cur] = Nil
      <4>1. k = Len(contents) /\ k # 0 /\ k \in 0..Len(contents)
        BY <1>2, <3>2, <3>4, ListFacts
      <4>2. \A j \in Positions : contents[j] \in used /\ j <= k
        BY <1>1, <1>2, <3>1, <4>1 DEF AllocInv
      <4>3. main' = "free" /\ cur' = contents[k]
        BY <2>4, <3>2, <3>4 DEF ClearWalk
      <4> QED
        BY <2>1, <2>2, <3>1, <4>1, <4>2, <4>3 DEF ClearInv
    <3> QED
      BY <3>3, <3>4
  <2>5. CASE ClearFree
    <3>1. /\ main = "free" /\ main' = "free" /\ cur # Nil
          /\ used' = used \ {cur} /\ cur' = previous[cur]
      BY <2>5 DEF ClearFree
    <3>2. PICK k \in 0..Len(contents) :
            /\ cur = IF k = 0 THEN Nil ELSE contents[k]
            /\ \A j \in Positions : contents[j] \in used <=> j <= k
      BY <1>1, <3>1 DEF ClearInv
    <3>3. k # 0 /\ k \in Positions /\ cur = contents[k]
      BY <1>2, <3>1, <3>2
    <3>4. k - 1 \in 0..Len(contents)
      BY <1>2, <3>3
    <3>5. cur' = IF k - 1 = 0 THEN Nil ELSE contents[k - 1]
      <4>1. cur' = IF k > 1 THEN contents[k - 1] ELSE Nil
        BY <1>1, <3>1, <3>3 DEF ListInv, Pred
      <4>2. k > 1 <=> k - 1 # 0
        BY <1>2, <3>3
      <4> QED
        BY <4>1, <4>2
    <3>6. ASSUME NEW j \in Positions
          PROVE  contents[j] \in used' <=> j <= k - 1
      <4>1. contents[j] \in used' <=> j <= k /\ j # k
        BY <1>1, <3>1, <3>2, <3>3 DEF ListInv
      <4>2. j <= k - 1 <=> j <= k /\ j # k
        BY <1>2, <3>3
      <4> QED
        BY <4>1, <4>2
    <3> QED
      BY <2>1, <2>2, <3>1, <3>4, <3>5, <3>6 DEF ClearInv
  <2>6. CASE ClearEnd
    <3>1. main = "free" /\ main' = "done" /\ cur = Nil /\ used' = used
      BY <2>6 DEF ClearEnd, heap
    <3>2. PICK k \in 0..Len(contents) :
            /\ cur = IF k = 0 THEN Nil ELSE contents[k]
            /\ \A j \in Positions : contents[j] \in used <=> j <= k
      BY <1>1, <3>1 DEF ClearInv
    <3>3. k = 0
      BY <1>2, <3>1, <3>2
    <3>4. \A j \in Positions : contents[j] \notin used
      BY <1>2, <3>2, <3>3
    <3> QED
      BY <2>1, <2>2, <3>1, <3>4 DEF ClearInv
  <2>7. CASE Finished
    BY <1>1, <2>1, <2>2, <2>7 DEF ClearInv, Finished, vars
  <2> QED
    BY <1>4, <2>3, <2>4, <2>5, <2>6, <2>7 DEF HMain, ClearStep
<1>5. CASE UNCHANGED hvars
  BY <1>1, <1>5 DEF hvars, ClearInv, Positions
<1> QED
  BY <1>3, <1>4, <1>5 DEF HNext, HStep

-----------------------------------------------------------------------------
(* Arguments and results *)

LEMMA LocalsPreserved == Inv /\ [HNext]_hvars => LocalsInv'
<1> SUFFICES ASSUME Inv, [HNext]_hvars
             PROVE  LocalsInv'
  OBVIOUS
<1>1. TypeOK /\ LocalsInv
  BY DEF Inv
<1> DEFINE Rest(t) == /\ pc[t] \notin AppendPcs \cup {"unlock"} => arg[t] = NoId
                      /\ pc[t] # "unlock" => ret[t] = 0
(* Only the moving thread's locals change.                                 *)
<1>2. ASSUME NEW t \in Threads, HStep(t), ret' = [ret EXCEPT ![t] = ret'[t]], Rest(t)'
      PROVE  LocalsInv'
  <2>1. \A u \in Threads \ {t} : pc'[u] = pc[u] /\ arg'[u] = arg[u]
    BY <1>2, OthersUnmoved DEF Unmoved
  <2>2. \A u \in Threads \ {t} : ret'[u] = ret[u]
    BY <1>1, <1>2 DEF TypeOK
  <2>3. \A u \in Threads \ {t} : Rest(u)'
    BY <1>1, <2>1, <2>2 DEF LocalsInv
  <2> QED
    BY <1>2, <2>3 DEF LocalsInv
<1>3. ASSUME NEW t \in Threads, NEW n \in Nodes, HPush(t, n)
      PROVE  LocalsInv'
  <2>1. ret' = [ret EXCEPT ![t] = ret'[t]] /\ Rest(t)'
    BY <1>1, <1>3, PushHeap DEF TypeOK
  <2> QED
    BY <1>2, <1>3, <2>1 DEF HStep
<1>4. ASSUME NEW t \in Threads, HPop(t)
      PROVE  LocalsInv'
  <2>1. ret' = [ret EXCEPT ![t] = ret'[t]] /\ Rest(t)'
    BY <1>1, <1>4, PopHeap DEF TypeOK
  <2> QED
    BY <1>2, <1>4, <2>1 DEF HStep
<1>5. ASSUME NEW t \in Threads, HQuiet(t)
      PROVE  LocalsInv'
  <2>0. Rest(t) /\ Quiet(t)
    BY <1>1, <1>5 DEF LocalsInv, HQuiet
  <2> SUFFICES ret' = [ret EXCEPT ![t] = ret'[t]] /\ Rest(t)'
    BY <1>2, <1>5 DEF HStep
  <2> USE DEF Goto, At, Finish, LeaveCall, locals, AppendPcs
  <2>1. CASE \E i \in Ids : CallAppend(t, i)
    BY <1>1, <2>0, <2>1 DEF CallAppend, TypeOK
  <2>2. CASE CallPop(t)
    BY <1>1, <2>0, <2>2 DEF CallPop, TypeOK
  <2>3. CASE \E d \in BOOLEAN : CallMark(t, d)
    BY <1>1, <2>0, <2>3 DEF CallMark, TypeOK
  <2>4. CASE CallSize(t)
    BY <1>1, <2>0, <2>4 DEF CallSize, TypeOK
  <2>5. CASE Lock(t)
    BY <1>1, <2>0, <2>5 DEF Lock, Locked, LockPcs, TypeOK
  <2>6. CASE Unlock(t)
    BY <1>1, <2>0, <2>6 DEF Unlock, TypeOK
  <2>7. CASE AppendFirstNoMemory(t)
    BY <1>1, <2>0, <2>7 DEF AppendFirstNoMemory, TypeOK
  <2>8. CASE AppendBegin(t)
    BY <1>1, <2>0, <2>8 DEF AppendBegin, TypeOK
  <2>9. CASE FindDuplicate(t)
    BY <1>1, <2>0, <2>9 DEF FindDuplicate, TypeOK
  <2>10. CASE FindStep(t)
    BY <1>1, <2>0, <2>10 DEF FindStep, TypeOK
  <2>11. CASE FindNone(t)
    BY <1>1, <2>0, <2>11 DEF FindNone, TypeOK
  <2>12. CASE AppendWalk(t)
    BY <1>1, <2>0, <2>12 DEF AppendWalk, TypeOK
  <2>13. CASE AppendNoMemory(t)
    BY <1>1, <2>0, <2>13 DEF AppendNoMemory, TypeOK
  <2>14. CASE PopEmpty(t)
    BY <1>1, <2>0, <2>14 DEF PopEmpty, TypeOK
  <2>15. CASE PopBegin(t)
    BY <1>1, <2>0, <2>15 DEF PopBegin, TypeOK
  <2>16. CASE PopWalk(t)
    BY <1>1, <2>0, <2>16 DEF PopWalk, TypeOK
  <2>17. CASE SetDead(t)
    BY <1>1, <2>0, <2>17 DEF SetDead, TypeOK
  <2>18. CASE SizeCheck(t)
    BY <1>1, <2>0, <2>18 DEF SizeCheck, TypeOK
  <2>19. CASE SizeRead(t)
    BY <1>1, <2>0, <2>19 DEF SizeRead, TypeOK
  <2>20. CASE SizeWalk(t)
    BY <1>1, <2>0, <2>20 DEF SizeWalk, TypeOK
  <2>21. CASE SizeEnd(t)
    BY <1>1, <2>0, <2>21 DEF SizeEnd, TypeOK
  <2>22. CASE SizeReturn(t)
    BY <1>1, <2>0, <2>22 DEF SizeReturn, TypeOK
  <2> QED
    BY <2>0, <2>1, <2>2, <2>3, <2>4, <2>5, <2>6, <2>7, <2>8, <2>9, <2>10,
       <2>11, <2>12, <2>13, <2>14, <2>15, <2>16, <2>17, <2>18, <2>19, <2>20,
       <2>21, <2>22 DEF Quiet, CallStep, SizeStep
<1>6. CASE HMain
  <2>1. UNCHANGED <<pc, arg, ret>>
    BY <1>6 DEF HMain, ClearStep, StartClear, ClearWalk, ClearFree, ClearEnd, Finished,
                vars, locals
  <2> QED
    BY <1>1, <2>1 DEF LocalsInv
<1>7. CASE UNCHANGED hvars
  BY <1>1, <1>7 DEF hvars, LocalsInv
<1> QED
  BY <1>3, <1>4, <1>5, <1>6, <1>7 DEF HNext

-----------------------------------------------------------------------------
(* The invariant and what follows from it *)

LEMMA InvInit == HInit => Inv
<1> SUFFICES ASSUME HInit
             PROVE  Inv
  OBVIOUS
<1>1. contents = << >> /\ Positions = {} /\ Len(contents) = 0
  BY EmptySeq DEF HInit, Positions
<1>2. TypeOK
  <2>1. contents \in Seq(Nodes)
    BY <1>1, EmptySeq
  <2>2. \E i \in Ids : id = [n \in Nodes |-> i]
    BY DEF HInit, Init
  <2>3. id \in [Nodes -> Ids]
    BY <2>2
  <2> QED
    <3>1. "idle" \in Pcs /\ "idle" \notin AppendPcs
      BY DEF Pcs, AppendPcs
    <3>2. /\ pc \in [Threads -> Pcs]
          /\ \A t \in Threads : pc[t] \in AppendPcs => arg[t] \in Ids
      BY <3>1 DEF HInit, Init
    <3>3. /\ arg \in [Threads -> Ids \cup {NoId}] /\ flag \in [Threads -> BOOLEAN]
          /\ tmp \in [Threads -> Pointers] /\ prev \in [Threads -> Pointers]
          /\ cnt \in [Threads -> Nat] /\ ret \in [Threads -> Int]
          /\ seen \in [Threads -> SUBSET Nat]
      BY DEF HInit, Init, Pointers
    <3> QED
      BY <2>1, <2>3, <3>2, <3>3 DEF HInit, Init, TypeOK, Pointers
<1>3. MutexInv
  BY QueueAssumption DEF HInit, Init, MutexInv, HeldPcs, At
<1>4. ListInv /\ AllocInv /\ NoDuplicateIds
  BY <1>1 DEF HInit, Init, ListInv, AllocInv, NoDuplicateIds
<1>5. WalkInv /\ SizeInv
  BY DEF HInit, Init, WalkInv, FindPlace, LinkPlace, PopPlace, SizeInv, SizePlace, SizePcs, At
<1>6. ClearInv
  BY DEF HInit, Init, ClearInv
<1>7. LocalsInv
  BY DEF HInit, Init, LocalsInv
<1> QED
  BY <1>2, <1>3, <1>4, <1>5, <1>6, <1>7 DEF Inv

LEMMA InvStep == Inv /\ [HNext]_hvars => Inv'
BY TypeStep, MutexStep, ListStep, WalkPreserved, SizePreserved, ClearPreserved,
   LocalsPreserved DEF Inv

(* The inductive invariant: types, mutual exclusion, the shape of the heap,*)
(* no duplicate ids, and the place of every walk.                          *)
THEOREM Invariant == HSpec => []Inv
<1> QED
  BY InvInit, InvStep, PTL DEF HSpec

(* Every variable keeps its type (the types are not inductive alone: a     *)
(* pointer that is dereferenced must be known to be a node).               *)
THEOREM TypeCorrect == HSpec => []TypeOK
<1>1. Inv => TypeOK
  BY DEF Inv
<1> QED
  BY Invariant, <1>1, PTL

(* The heap is always the doubly linked list of the contents, and no id is *)
(* queued twice, for any number of threads, nodes and ids.                 *)
THEOREM HeapIsAList == HSpec => [](ListInv /\ NoDuplicateIds)
<1>1. Inv => ListInv /\ NoDuplicateIds
  BY DEF Inv
<1> QED
  BY Invariant, <1>1, PTL

(* The number an unlocked QSize returns is a length the queue had during   *)
(* the call (queue.c:207-227).                                             *)
THEOREM UnlockedSizeIsRight == HSpec => []SizeIsALengthItHad
<1>1. Inv => SizeIsALengthItHad
  BY DEF Inv, SizeInv, SizePlace, SizeIsALengthItHad
<1> QED
  BY Invariant, <1>1, PTL

(* No walk follows a null or a freed pointer (queue.c:149-157, 187-198).   *)
THEOREM DereferencesAreGood == HSpec => []NoBadDereference
<1>1. ASSUME Inv
      PROVE  NoBadDereference
  <2>1. TypeOK /\ MutexInv /\ AllocInv /\ WalkInv /\ SizeInv
    BY <1>1 DEF Inv
  <2>2. ASSUME NEW t \in Threads, pc[t] # "idle"
        PROVE  \A k \in Positions : contents[k] \in used
    BY <2>1, <2>2 DEF MutexInv, AllocInv, At
  <2>3. ASSUME NEW t \in Threads, At(t, "a_walk")
        PROVE  tmp[t] \in used
    BY <2>1, <2>2, <2>3 DEF WalkInv, LinkPlace, At
  <2>4. ASSUME NEW t \in Threads, At(t, "p_walk")
        PROVE  tmp[t] \in used /\ prev[t] \in used
    <3>1. PICK k \in Positions :
            /\ tmp[t] = contents[k]
            /\ prev[t] = IF k = 1 THEN contents[1] ELSE contents[k - 1]
      BY <2>1, <2>4 DEF WalkInv, PopPlace
    <3>2. k = 1 \/ k - 1 \in Positions
      BY <1>1, ListFacts DEF Positions
    <3> QED
      BY <2>2, <2>4, <3>1, <3>2 DEF At
  <2>5. ASSUME NEW t \in Threads, At(t, "s_walk")
        PROVE  tmp[t] \in used \cup {Nil}
    BY <2>1, <2>2, <2>5 DEF SizeInv, SizePlace, At
  <2> QED
    BY <2>3, <2>4, <2>5 DEF NoBadDereference, At
<1> QED
  BY Invariant, <1>1, PTL

(* QueueEntireClear frees every node of the list, none of them twice       *)
(* (queue.c:65-83).                                                        *)
THEOREM ClearIsExact == HSpec => []ClearFreesTheList
<1>1. ASSUME Inv
      PROVE  ClearFreesTheList
  <2>1. AllocInv /\ ClearInv
    BY <1>1 DEF Inv
  <2>2. main = "walk" => cur \in used
    BY <2>1 DEF AllocInv, ClearInv
  <2>3. ASSUME main = "free", cur # Nil
        PROVE  cur \in used
    <3>1. PICK k \in 0..Len(contents) :
            /\ cur = IF k = 0 THEN Nil ELSE contents[k]
            /\ \A j \in Positions : contents[j] \in used <=> j <= k
      BY <2>1, <2>3 DEF ClearInv
    <3>2. k # 0 /\ k \in Positions /\ k <= k
      BY <1>1, <2>3, <3>1, ListFacts DEF Positions
    <3> QED
      BY <3>1, <3>2
  <2> QED
    BY <2>1, <2>2, <2>3 DEF ClearFreesTheList, ClearInv
<1> QED
  BY Invariant, <1>1, PTL

-----------------------------------------------------------------------------
(***************************************************************************)
(* The pointer-level queue implements the abstract stack of WorkStack, for *)
(* any number of threads, nodes and ids: initial states map to initial     *)
(* states and every step maps to a step of the stack or to a stutter.      *)
(***************************************************************************)

(* The mapped variables. *)
Items == [k \in Positions |-> id[contents[k]]]
Call  == [t \in Threads |-> CallOf(pc[t])]

-----------------------------------------------------------------------------
(* Sequences given as functions *)

LEMMA FunctionIsSeq ==
  ASSUME NEW n \in Nat, NEW S, NEW f \in [1..n -> S]
  PROVE  f \in Seq(S) /\ Len(f) = n
OBVIOUS

LEMMA IsAppend ==
  ASSUME NEW n \in Nat, NEW S, NEW f \in [1..n -> S], NEW e \in S,
         NEW g \in [1..(n + 1) -> S],
         \A k \in 1..n : g[k] = f[k], g[n + 1] = e
  PROVE  g = Append(f, e)
<1>1. f \in Seq(S) /\ Len(f) = n
  BY FunctionIsSeq
<1>2. g \in Seq(S) /\ Len(g) = n + 1
  BY FunctionIsSeq
<1>3. /\ Append(f, e) \in Seq(S) /\ Len(Append(f, e)) = n + 1
      /\ \A i \in 1..n : Append(f, e)[i] = f[i]
      /\ Append(f, e)[n + 1] = e
  BY <1>1, AppendProperties
<1>4. \A i \in 1..(n + 1) : i \in 1..n \/ i = n + 1
  OBVIOUS
<1>5. \A i \in 1..Len(g) : g[i] = Append(f, e)[i]
  BY <1>2, <1>3, <1>4
<1> QED
  BY <1>2, <1>3, <1>5, SeqEqual

LEMMA IsFront ==
  ASSUME NEW n \in Nat, NEW S, NEW f \in [1..(n + 1) -> S], NEW g \in [1..n -> S],
         \A k \in 1..n : g[k] = f[k]
  PROVE  g = SubSeq(f, 1, Len(f) - 1)
<1>1. f \in Seq(S) /\ Len(f) = n + 1
  BY FunctionIsSeq
<1>2. g \in Seq(S) /\ Len(g) = n
  BY FunctionIsSeq
<1>3. Len(f) - 1 = n
  BY <1>1
<1>4. /\ SubSeq(f, 1, n) \in Seq(S) /\ Len(SubSeq(f, 1, n)) = n
      /\ \A i \in 1..n : SubSeq(f, 1, n)[i] = f[i]
  BY <1>1
<1>5. \A i \in 1..Len(g) : g[i] = SubSeq(f, 1, n)[i]
  BY <1>2, <1>4
<1> QED
  BY <1>2, <1>3, <1>4, <1>5, SeqEqual

-----------------------------------------------------------------------------
(* The mapped state *)

LEMMA ItemsFacts ==
  ASSUME Inv
  PROVE  /\ Items \in [1..Len(contents) -> Ids]
         /\ Len(Items) = Len(contents) /\ Len(contents) \in Nat
         /\ Items = << >> <=> contents = << >>
<1>1. TypeOK /\ Len(contents) \in Nat /\ \A k \in Positions : contents[k] \in Nodes
  BY ListFacts DEF Inv
<1>2. Items \in [1..Len(contents) -> Ids]
  BY <1>1 DEF Items, Positions, TypeOK
<1>3. Items \in Seq(Ids) /\ Len(Items) = Len(contents)
  BY <1>1, <1>2, FunctionIsSeq
<1>4. Items = << >> <=> Len(Items) = 0
  BY <1>3, EmptySeq
<1>5. contents = << >> <=> Len(contents) = 0
  BY ListFacts
<1> QED
  BY <1>1, <1>2, <1>3, <1>4, <1>5

(* The abstract stack holds i exactly if a listed node carries it.         *)
LEMMA HoldsFacts ==
  ASSUME Inv, NEW i
  PROVE  WS!Holds(i) <=> \E k \in Positions : id[contents[k]] = i
<1>1. Len(Items) = Len(contents)
  BY ItemsFacts
<1> QED
  BY <1>1 DEF WS!Holds, Items, Positions

(* A step that only moves t to l maps to the same move of t's call.        *)
LEMMA CallMove ==
  ASSUME TypeOK, NEW t \in Threads, NEW l, pc' = [pc EXCEPT ![t] = l]
  PROVE  Call' = [Call EXCEPT ![t] = CallOf(l)]
BY DEF TypeOK, Call

LEMMA CallStutter ==
  ASSUME TypeOK, NEW t \in Threads, NEW l, pc' = [pc EXCEPT ![t] = l],
         CallOf(l) = CallOf(pc[t])
  PROVE  Call' = Call
BY DEF TypeOK, Call

(* The stage each place in the code stands for.                            *)
LEMMA CallTable ==
  /\ \A l \in AppendPcs : CallOf(l) = "append"
  /\ \A l \in PopPcs : CallOf(l) = "pop"
  /\ CallOf("unlock") = "done"
  /\ \A l \in {"idle", "m_lock", "m_set", "m_unlock", "s_check", "s_read", "s_walk",
               "s_done"} : CallOf(l) = "idle"
BY DEF CallOf, AppendPcs, PopPcs

(* Finishing a call.                                                       *)
LEMMA CallDone ==
  ASSUME TypeOK, NEW t \in Threads, pc' = [pc EXCEPT ![t] = "unlock"]
  PROVE  Call' = [Call EXCEPT ![t] = "done"]
<1>1. Call' = [Call EXCEPT ![t] = CallOf("unlock")]
  BY CallMove
<1>2. CallOf("unlock") = "done"
  BY CallTable
<1> QED
  BY <1>1, <1>2

-----------------------------------------------------------------------------
(* The steps that take effect *)

LEMMA PushMaps ==
  ASSUME Inv, NEW t \in Threads, NEW n \in Nodes, HPush(t, n)
  PROVE  WS!DoAppend(t)
<1>1. TypeOK
  BY DEF Inv
<1>2. /\ id' = [id EXCEPT ![n] = arg[t]]
      /\ \A k \in Positions : id[contents[k]] # arg[t] /\ contents[k] # n
      /\ At(t, "a_check") \/ At(t, "a_walk")
      /\ ret' = [ret EXCEPT ![t] = 0]
  BY PushHeap DEF IsHeld
<1>3. pc' = [pc EXCEPT ![t] = "unlock"] /\ arg' = arg
  BY DEF HPush, Pushes, AppendFirst, AppendLink, Finish, Goto
<1>4. Call[t] = "append"
  BY <1>2, CallTable DEF Call, At, AppendPcs
<1>5. Call' = [Call EXCEPT ![t] = "done"]
  BY <1>1, <1>3, CallDone
<1>6. ~WS!Holds(arg[t])
  BY <1>2, HoldsFacts
<1>7. Items' = Append(Items, arg[t])
  <2>1. arg[t] \in Ids
    BY <1>1, <1>2 DEF TypeOK, At, AppendPcs
  <2>2. Items \in [1..Len(contents) -> Ids] /\ Len(contents) \in Nat
    BY ItemsFacts
  <2>3. contents \in Seq(Nodes) /\ contents' = Append(contents, n)
    BY <1>1 DEF HPush, TypeOK
  <2>4. /\ Len(contents') = Len(contents) + 1
        /\ \A k \in 1..Len(contents) : contents'[k] = contents[k]
        /\ contents'[Len(contents) + 1] = n
    BY <2>3, PushFacts
  <2>5. Positions' = 1..(Len(contents) + 1)
    BY <2>4 DEF Positions
  <2>6. \A k \in 1..(Len(contents) + 1) : k \in 1..Len(contents) \/ k = Len(contents) + 1
    BY <2>2
  <2>7. \A k \in 1..Len(contents) : id'[contents'[k]] = Items[k] /\ Items[k] \in Ids
    BY <1>1, <1>2, <2>2, <2>4, ListFacts DEF Items, Positions, TypeOK
  <2>8. id'[contents'[Len(contents) + 1]] = arg[t]
    BY <1>1, <1>2, <2>4 DEF TypeOK
  <2>9. Items' = [k \in 1..(Len(contents) + 1) |-> id'[contents'[k]]]
    BY <2>5 DEF Items
  <2>10. Items' \in [1..(Len(contents) + 1) -> Ids]
    BY <2>1, <2>6, <2>7, <2>8, <2>9
  <2>11. /\ \A k \in 1..Len(contents) : Items'[k] = Items[k]
         /\ Items'[Len(contents) + 1] = arg[t]
    BY <2>2, <2>7, <2>8, <2>9
  <2> QED
    BY <2>1, <2>2, <2>10, <2>11, IsAppend
<1> QED
  BY <1>2, <1>3, <1>4, <1>5, <1>6, <1>7 DEF WS!DoAppend, WS!Complete, Items, Call

LEMMA PopMaps ==
  ASSUME Inv, NEW t \in Threads, HPop(t)
  PROVE  WS!DoPop(t)
<1>1. TypeOK
  BY DEF Inv
<1>2. /\ Len(contents) \in Positions
      /\ At(t, "p_check") \/ At(t, "p_walk")
      /\ ret' = [ret EXCEPT ![t] = id[contents[Len(contents)]]]
      /\ id' = id
  BY PopHeap
<1>3. pc' = [pc EXCEPT ![t] = "unlock"] /\ arg' = arg
  BY DEF HPop, Pops, PopLast, PopCut, Finish, Goto
<1>4. Call[t] = "pop"
  BY <1>2, CallTable DEF Call, At, PopPcs
<1>5. Call' = [Call EXCEPT ![t] = "done"]
  BY <1>1, <1>3, CallDone
<1>6. contents # << >>
  BY PopNonEmpty DEF HPop
<1>7. /\ Items \in [1..Len(contents) -> Ids] /\ Len(contents) \in Nat
      /\ Len(Items) = Len(contents) /\ Items # << >>
  BY <1>6, ItemsFacts
<1>8. Items[Len(Items)] = id[contents[Len(contents)]]
  BY <1>2, <1>7 DEF Items
<1>9. Items' = SubSeq(Items, 1, Len(Items) - 1)
  <2>1. contents \in Seq(Nodes) /\ contents' = Front(contents)
    BY <1>1 DEF HPop, TypeOK
  <2>2. /\ Len(contents') \in Nat
        /\ Len(contents) = Len(contents') + 1
        /\ \A k \in 1..Len(contents') : contents'[k] = contents[k]
    BY <1>6, <2>1, PopFacts
  <2>3. Items' = [k \in 1..Len(contents') |-> id[contents'[k]]]
    BY <1>2 DEF Items, Positions
  <2>4. \A k \in 1..Len(contents') : id[contents'[k]] = Items[k] /\ Items[k] \in Ids
    <3>1. \A k \in 1..Len(contents') : k \in 1..Len(contents)
      BY <2>2
    <3> QED
      BY <1>7, <2>2, <3>1 DEF Items, Positions
  <2>5. Items' \in [1..Len(contents') -> Ids] /\ \A k \in 1..Len(contents') : Items'[k] = Items[k]
    BY <2>3, <2>4
  <2>6. Items \in [1..(Len(contents') + 1) -> Ids]
    BY <1>7, <2>2
  <2> QED
    BY <2>2, <2>5, <2>6, IsFront
<1> QED
  BY <1>2, <1>3, <1>4, <1>5, <1>7, <1>8, <1>9 DEF WS!DoPop, WS!Complete, Items, Call

-----------------------------------------------------------------------------
(* The steps that leave the contents alone *)

(* A quiet step that ends a call without effect, or moves inside one.      *)
LEMMA QuietMaps ==
  ASSUME Inv, NEW t \in Threads, HQuiet(t)
  PROVE  WS!ThreadStep(t) \/ UNCHANGED <<Items, Call, arg, ret>>
<1>1. TypeOK /\ LocalsInv /\ Quiet(t)
  BY DEF Inv, HQuiet
<1>2. Items' = Items
  <2>1. id' = id /\ contents' = contents
    BY QuietFrame DEF heap
  <2> QED
    BY <2>1 DEF Items, Positions
<1>3. Call[t] = CallOf(pc[t])
  BY DEF Call
<1> USE DEF Goto, At, locals
<1>4. ASSUME NEW i \in Ids, CallAppend(t, i)
      PROVE  WS!InvokeAppend(t, i)
  <2>1. pc[t] = "idle" /\ pc' = [pc EXCEPT ![t] = "a_lock"]
    BY <1>4 DEF CallAppend
  <2>2. CallOf("idle") = "idle" /\ CallOf("a_lock") = "append"
    BY CallTable DEF AppendPcs
  <2>3. Call' = [Call EXCEPT ![t] = "append"]
    BY <1>1, <2>1, <2>2 DEF TypeOK, Call
  <2> QED
    BY <1>2, <1>3, <1>4, <2>1, <2>2, <2>3 DEF CallAppend, WS!InvokeAppend, Items, Call
<1>5. CASE CallPop(t)
  <2>1. pc[t] = "idle" /\ pc' = [pc EXCEPT ![t] = "p_lock"]
    BY <1>5 DEF CallPop
  <2>2. CallOf("idle") = "idle" /\ CallOf("p_lock") = "pop"
    BY CallTable DEF PopPcs
  <2>3. Call' = [Call EXCEPT ![t] = "pop"]
    BY <1>1, <2>1, <2>2 DEF TypeOK, Call
  <2>4. WS!InvokePop(t)
    BY <1>2, <1>3, <1>5, <2>1, <2>2, <2>3 DEF CallPop, WS!InvokePop, Items, Call
  <2> QED
    BY <2>4 DEF WS!ThreadStep
<1>6. CASE \/ AppendFirstNoMemory(t) \/ AppendNoMemory(t)
  <2>1. /\ pc[t] = "a_check" \/ pc[t] = "a_walk"
        /\ pc' = [pc EXCEPT ![t] = "unlock"] /\ arg' = arg
    BY <1>6 DEF AppendFirstNoMemory, AppendNoMemory, Finish
  <2>2. Call[t] = "append" /\ Call' = [Call EXCEPT ![t] = "done"]
    BY <1>1, <1>3, <2>1, CallDone, CallTable DEF AppendPcs
  <2>3. ~WS!Holds(arg[t])
    <3>1. \A k \in Positions : id[contents[k]] # arg[t]
      <4>1. CASE AppendFirstNoMemory(t)
        BY <4>1, ListFacts DEF AppendFirstNoMemory, Positions
      <4>2. CASE AppendNoMemory(t)
        BY <4>2 DEF AppendNoMemory, Inv, WalkInv, LinkPlace
      <4> QED
        BY <1>6, <4>1, <4>2
    <3> QED
      BY <3>1, HoldsFacts
  <2>4. ret' = [ret EXCEPT ![t] = IF Items = << >> THEN 0 ELSE -1]
    <3>1. AppendFirstNoMemory(t) => contents = << >>
      BY ListFacts DEF AppendFirstNoMemory
    <3>2. AppendNoMemory(t) => contents # << >>
      BY WalkFacts DEF AppendNoMemory
    <3> QED
      BY <1>6, <3>1, <3>2, ItemsFacts DEF AppendFirstNoMemory, AppendNoMemory, Finish
  <2>5. WS!DoNoMemory(t)
    BY <1>2, <2>1, <2>2, <2>3, <2>4 DEF WS!DoNoMemory, WS!Complete, Items, Call
  <2> QED
    BY <2>5 DEF WS!ThreadStep
<1>7. CASE FindDuplicate(t)
  <2>1. /\ pc[t] = "a_find" /\ pc' = [pc EXCEPT ![t] = "unlock"] /\ arg' = arg
        /\ ret' = [ret EXCEPT ![t] = -1] /\ tmp[t] # Nil /\ id[tmp[t]] = arg[t]
    BY <1>7 DEF FindDuplicate, Finish
  <2>2. Call[t] = "append" /\ Call' = [Call EXCEPT ![t] = "done"]
    BY <1>1, <1>3, <2>1, CallDone, CallTable DEF AppendPcs
  <2>3. \E k \in Positions : tmp[t] = contents[k]
    BY <2>1 DEF Inv, WalkInv, FindPlace
  <2>4. WS!Holds(arg[t])
    BY <2>1, <2>3, HoldsFacts
  <2>5. WS!DoDuplicate(t)
    BY <1>2, <2>1, <2>2, <2>4 DEF WS!DoDuplicate, WS!Complete, Items, Call
  <2> QED
    BY <2>5 DEF WS!ThreadStep
<1>8. CASE PopEmpty(t)
  <2>1. /\ pc[t] = "p_check" /\ pc' = [pc EXCEPT ![t] = "unlock"] /\ arg' = arg
        /\ ret' = [ret EXCEPT ![t] = -1] /\ head = Nil
    BY <1>8 DEF PopEmpty, Finish
  <2>2. Call[t] = "pop" /\ Call' = [Call EXCEPT ![t] = "done"]
    BY <1>1, <1>3, <2>1, CallDone, CallTable DEF PopPcs
  <2>3. Items = << >>
    BY <2>1, ListFacts, ItemsFacts
  <2>4. WS!DoPopEmpty(t)
    BY <1>2, <2>1, <2>2, <2>3 DEF WS!DoPopEmpty, WS!Complete, Items, Call
  <2> QED
    BY <2>4 DEF WS!ThreadStep
<1>9. CASE Unlock(t) /\ pc[t] = "unlock"
  <2>1. /\ pc' = [pc EXCEPT ![t] = "idle"] /\ arg' = [arg EXCEPT ![t] = -1]
        /\ ret' = [ret EXCEPT ![t] = 0]
    BY <1>9 DEF Unlock, LeaveCall, NoId
  <2>2. CallOf("idle") = "idle" /\ CallOf("unlock") = "done"
    BY CallTable
  <2>3. Call[t] = "done" /\ Call' = [Call EXCEPT ![t] = "idle"]
    BY <1>1, <1>3, <1>9, <2>1, <2>2 DEF TypeOK, Call
  <2>4. WS!Return(t)
    BY <1>2, <2>1, <2>3 DEF WS!Return, WS!NoId, Items, Call
  <2> QED
    BY <2>4 DEF WS!ThreadStep
(* Leaving QMarkDead or QSize: the locals were at rest already.            *)
<1>10. CASE SizeReturn(t) \/ (Unlock(t) /\ pc[t] = "m_unlock")
  <2>1. /\ pc' = [pc EXCEPT ![t] = "idle"] /\ arg' = [arg EXCEPT ![t] = NoId]
        /\ ret' = [ret EXCEPT ![t] = 0] /\ pc[t] \in {"s_done", "m_unlock"}
    BY <1>10 DEF Unlock, SizeReturn, LeaveCall
  <2>2. arg[t] = NoId /\ ret[t] = 0
    BY <1>1, <2>1 DEF LocalsInv, AppendPcs
  <2>3. arg' = arg /\ ret' = ret
    BY <1>1, <2>1, <2>2 DEF TypeOK
  <2>4. CallOf("idle") = CallOf(pc[t])
    BY <2>1, CallTable
  <2>5. Call' = Call
    BY <1>1, <2>1, <2>4, CallStutter
  <2> QED
    BY <1>2, <2>3, <2>5
(* The steps that map to a stutter.                                        *)
<1>11. ASSUME NEW l, pc' = [pc EXCEPT ![t] = l], CallOf(l) = CallOf(pc[t]),
              arg' = arg, ret' = ret
       PROVE  UNCHANGED <<Items, Call, arg, ret>>
  BY <1>1, <1>2, <1>11, CallStutter
<1>12. ASSUME pc' = pc, arg' = arg, ret' = ret
       PROVE  UNCHANGED <<Items, Call, arg, ret>>
  BY <1>2, <1>12 DEF Call
<1>13. CASE CallSize(t) \/ (\E d \in BOOLEAN : CallMark(t, d))
  <2>1. PICK l \in {"s_check", "m_lock"} : pc' = [pc EXCEPT ![t] = l]
    BY <1>13 DEF CallSize, CallMark
  <2>2. pc[t] = "idle" /\ arg' = arg /\ ret' = ret
    BY <1>13 DEF CallSize, CallMark
  <2>3. CallOf(l) = CallOf(pc[t])
    BY <2>1, <2>2, CallTable
  <2> QED
    BY <1>11, <2>1, <2>2, <2>3
<1>14. CASE Lock(t)
  <2>1. pc[t] \in LockPcs /\ pc' = [pc EXCEPT ![t] = Locked(pc[t])] /\ arg' = arg /\ ret' = ret
    BY <1>14 DEF Lock
  <2>2. CallOf(Locked(pc[t])) = CallOf(pc[t])
    BY <2>1, CallTable DEF LockPcs, Locked, AppendPcs, PopPcs
  <2> QED
    BY <1>11, <2>1, <2>2
<1>15. CASE AppendBegin(t) \/ FindNone(t) \/ PopBegin(t)
  <2>1. /\ arg' = arg /\ ret' = ret
        /\ \/ pc[t] = "a_check" /\ pc' = [pc EXCEPT ![t] = "a_find"]
           \/ pc[t] = "a_find" /\ pc' = [pc EXCEPT ![t] = "a_walk"]
           \/ pc[t] = "p_check" /\ pc' = [pc EXCEPT ![t] = "p_walk"]
    BY <1>15 DEF AppendBegin, FindNone, PopBegin
  <2>2. /\ CallOf("a_check") = CallOf("a_find") /\ CallOf("a_find") = CallOf("a_walk")
        /\ CallOf("p_check") = CallOf("p_walk")
    BY CallTable DEF AppendPcs, PopPcs
  <2> QED
    BY <1>11, <2>1, <2>2
<1>16. CASE FindStep(t) \/ AppendWalk(t) \/ PopWalk(t) \/ SizeWalk(t)
  BY <1>12, <1>16 DEF FindStep, AppendWalk, PopWalk, SizeWalk
<1>17. CASE SetDead(t) \/ SizeCheck(t) \/ SizeRead(t) \/ SizeEnd(t)
  <2>1. /\ arg' = arg /\ ret' = ret /\ pc[t] \in {"m_set", "s_check", "s_read", "s_walk"}
        /\ \E l \in {"m_unlock", "s_read", "s_walk", "s_done"} : pc' = [pc EXCEPT ![t] = l]
    BY <1>17 DEF SetDead, SizeCheck, SizeRead, SizeEnd
  <2>2. PICK l \in {"m_unlock", "s_read", "s_walk", "s_done"} : pc' = [pc EXCEPT ![t] = l]
    BY <2>1
  <2>3. CallOf(l) = CallOf(pc[t])
    BY <2>1, <2>2, CallTable
  <2> QED
    BY <1>11, <2>1, <2>2, <2>3
<1>18. Unlock(t) => pc[t] = "unlock" \/ pc[t] = "m_unlock"
  BY DEF Unlock
<1>19. ASSUME NEW i \in Ids, CallAppend(t, i)
       PROVE  WS!ThreadStep(t)
  BY <1>4, <1>19 DEF WS!ThreadStep
<1> QED
  BY <1>1, <1>5, <1>6, <1>7, <1>8, <1>9, <1>10, <1>13, <1>14, <1>15, <1>16, <1>17, <1>18,
     <1>19 DEF Quiet, CallStep, SizeStep

-----------------------------------------------------------------------------
LEMMA InitMaps == HInit => WS!Init
<1> SUFFICES ASSUME HInit
             PROVE  WS!Init
  OBVIOUS
<1>1. contents = << >> /\ Len(contents) = 0
  BY EmptySeq DEF HInit
<1>2. Items \in [1..0 -> Ids]
  BY <1>1 DEF Items, Positions
<1>3. Items \in Seq(Ids) /\ Len(Items) = 0
  BY <1>2, FunctionIsSeq
<1>4. Items = << >>
  BY <1>3, EmptySeq
<1>5. \A t \in Threads : CallOf(pc[t]) = "idle"
  BY CallTable DEF HInit, Init
<1>6. Call = [t \in Threads |-> "idle"]
  BY <1>5 DEF Call
<1> QED
  BY <1>4, <1>6 DEF WS!Init, HInit, Init, NoId, WS!NoId, Items, Call

LEMMA StepMaps == Inv /\ [HNext]_hvars => [WS!Next]_(WS!vars)
<1> SUFFICES ASSUME Inv, [HNext]_hvars
             PROVE  WS!Next \/ UNCHANGED <<Items, Call, arg, ret>>
  BY DEF WS!vars, Items, Call
<1>1. ASSUME NEW t \in Threads, NEW n \in Nodes, HPush(t, n)
      PROVE  WS!Next
  BY <1>1, PushMaps DEF WS!Next, WS!ThreadStep
<1>2. ASSUME NEW t \in Threads, HPop(t)
      PROVE  WS!Next
  BY <1>2, PopMaps DEF WS!Next, WS!ThreadStep
<1>3. ASSUME NEW t \in Threads, HQuiet(t)
      PROVE  WS!Next \/ UNCHANGED <<Items, Call, arg, ret>>
  BY <1>3, QuietMaps DEF WS!Next
<1>4. CASE HMain
  <2>1. UNCHANGED <<contents, id, pc, arg, ret>>
    BY <1>4 DEF HMain, ClearStep, StartClear, ClearWalk, ClearFree, ClearEnd, Finished,
                vars, locals, heap
  <2> QED
    BY <2>1 DEF Items, Call, Positions
<1>5. CASE UNCHANGED hvars
  BY <1>5 DEF hvars, Items, Call, Positions
<1> QED
  BY <1>1, <1>2, <1>3, <1>4, <1>5 DEF HNext

(* The queue of src/queue.c, pointers, mutex and all, implements the       *)
(* atomic stack of distinct ids: what each QAppendItem and QpopItem returns*)
(* is what the stack returns (queue.c:122-204).                            *)
THEOREM QueueImplementsWorkStack == HSpec => ImplementsWorkStack
<1> QED
  BY InitMaps, StepMaps, Invariant, PTL DEF HSpec, ImplementsWorkStack, WS!Spec
=============================================================================
