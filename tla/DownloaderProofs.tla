-------------------------- MODULE DownloaderProofs --------------------------
(***************************************************************************)
(* Proofs about Downloader for any finite set of items, any story over     *)
(* them and any length of noderay.                                         *)
(***************************************************************************)
EXTENDS Downloader, SequenceTheorems, FiniteSetTheorems, TLAPS

-----------------------------------------------------------------------------
(* The two ways the stack and noderay change. *)

(* Appending adds one element, after all the others.                       *)
LEMMA PushFacts ==
  ASSUME NEW s \in Seq(Items), NEW i \in Items
  PROVE  /\ Append(s, i) \in Seq(Items)
         /\ Len(Append(s, i)) = Len(s) + 1
         /\ \A k \in 1..Len(s) : Append(s, i)[k] = s[k]
         /\ Append(s, i)[Len(s) + 1] = i
         /\ Elements(Append(s, i)) = Elements(s) \cup {i}
<1>1. /\ Append(s, i) \in Seq(Items)
      /\ Len(s) \in Nat
      /\ Len(Append(s, i)) = Len(s) + 1
      /\ \A k \in 1..Len(s) : Append(s, i)[k] = s[k]
      /\ Append(s, i)[Len(s) + 1] = i
  BY AppendProperties, LenProperties
<1>2. Elements(Append(s, i)) = Elements(s) \cup {i}
  <2>1. \A k \in 1..(Len(s) + 1) : k \in 1..Len(s) \/ k = Len(s) + 1
    BY <1>1
  <2>2. \A k \in 1..Len(s) : k \in 1..(Len(s) + 1)
    BY <1>1
  <2>3. Len(s) + 1 \in 1..(Len(s) + 1)
    BY <1>1
  <2> QED
    BY <1>1, <2>1, <2>2, <2>3, Zenon DEF Elements
<1> QED
  BY <1>1, <1>2

(* A distinct sequence stays distinct when a new element is added.         *)
LEMMA PushDistinct ==
  ASSUME NEW s \in Seq(Items), NEW i \in Items, i \notin Elements(s),
         \A j, k \in 1..Len(s) : s[j] = s[k] => j = k
  PROVE  \A j, k \in 1..Len(Append(s, i)) : Append(s, i)[j] = Append(s, i)[k] => j = k
<1> DEFINE r == Append(s, i)
<1>1. /\ Len(s) \in Nat
      /\ Len(r) = Len(s) + 1
      /\ \A k \in 1..Len(s) : r[k] = s[k]
      /\ r[Len(s) + 1] = i
  BY PushFacts, LenProperties
<1>2. \A k \in 1..Len(s) : s[k] # i
  BY DEF Elements
<1> HIDE DEF r
<1>3. \A j, k \in 1..Len(r) : r[j] = r[k] => j = k
  BY <1>1, <1>2
<1> QED
  BY <1>3 DEF r

(* A prefix, with its length as a variable of its own.                     *)
LEMMA PrefixFacts ==
  ASSUME NEW s \in Seq(Items), NEW m \in Nat, Len(s) = m + 1
  PROVE  /\ SubSeq(s, 1, m) \in Seq(Items)
         /\ Len(SubSeq(s, 1, m)) = m
         /\ \A k \in 1..m : SubSeq(s, 1, m)[k] = s[k]
OBVIOUS

(* Popping a distinct sequence removes its last element and no other.      *)
LEMMA PopFacts ==
  ASSUME NEW s \in Seq(Items), s # << >>,
         \A j, k \in 1..Len(s) : s[j] = s[k] => j = k
  PROVE  /\ Top(s) \in Items
         /\ Popped(s) \in Seq(Items)
         /\ \A k \in 1..Len(Popped(s)) : Popped(s)[k] = s[k] /\ k \in 1..Len(s)
         /\ Elements(s) = Elements(Popped(s)) \cup {Top(s)}
         /\ Top(s) \notin Elements(Popped(s))
<1> DEFINE r == Popped(s)
           i == Top(s)
<1>1. PICK m \in Nat : Len(s) = m + 1
  <2>1. Len(s) \in Nat /\ Len(s) # 0
    BY EmptySeq, LenProperties
  <2>2. Len(s) - 1 \in Nat /\ Len(s) = (Len(s) - 1) + 1
    BY <2>1
  <2> QED
    BY <2>2
<1>2. r = SubSeq(s, 1, m) /\ i = s[m + 1]
  BY <1>1 DEF Popped, Top
<1> HIDE DEF r, i
<1>3. /\ r \in Seq(Items)
      /\ Len(r) = m
      /\ \A k \in 1..m : r[k] = s[k]
  <2>1. /\ SubSeq(s, 1, m) \in Seq(Items)
        /\ Len(SubSeq(s, 1, m)) = m
        /\ \A k \in 1..m : SubSeq(s, 1, m)[k] = s[k]
    BY <1>1, PrefixFacts
  <2> QED
    BY <1>2, <2>1
<1>4. /\ \A k \in 1..(m + 1) : k \in 1..m \/ k = m + 1
      /\ \A k \in 1..m : k \in 1..(m + 1) /\ k # m + 1
      /\ m + 1 \in 1..(m + 1)
  OBVIOUS
<1>5. i \in Items
  BY <1>1, <1>2, <1>4, ElementOfSeq
<1>6. s[m + 1] = i
  BY <1>2
<1>7. Elements(s) = Elements(r) \cup {i}
  <2>1. Elements(s) = {s[k] : k \in 1..(m + 1)}
    BY <1>1 DEF Elements
  <2>2. Elements(r) = {r[k] : k \in 1..m}
    BY <1>3 DEF Elements
  <2>3. \A k \in 1..(m + 1) : s[k] \in Elements(r) \cup {i}
    BY <1>3, <1>4, <1>6, <2>2
  <2>4. \A k \in 1..m : r[k] \in Elements(s)
    BY <1>3, <1>4, <2>1
  <2>5. i \in Elements(s)
    BY <1>4, <1>6, <2>1
  <2>6. Elements(s) \subseteq Elements(r) \cup {i}
    <3>1. ASSUME NEW x \in Elements(s) PROVE x \in Elements(r) \cup {i}
      <4>1. PICK k \in 1..(m + 1) : x = s[k]
        BY <2>1
      <4> QED
        BY <4>1, <2>3
    <3> QED
      BY <3>1
  <2>7. Elements(r) \subseteq Elements(s)
    BY <2>2, <2>4, Zenon
  <2> QED
    BY <2>5, <2>6, <2>7, Zenon
<1>8. i \notin Elements(r)
  <2>1. \A k \in 1..m : s[k] # s[m + 1]
    BY <1>1, <1>4
  <2> QED
    BY <1>3, <1>6, <2>1 DEF Elements
<1> QED
  <2>1. \A k \in 1..Len(r) : r[k] = s[k] /\ k \in 1..Len(s)
    <3>1. \A k \in 1..m : r[k] = s[k] /\ k \in 1..(m + 1)
      BY <1>3, <1>4, Zenon
    <3>2. Len(r) = m /\ Len(s) = m + 1
      BY <1>1, <1>3
    <3> QED
      BY <3>1, <3>2, Zenon
  <2> QED
    BY <1>3, <1>5, <1>7, <1>8, <2>1, Zenon DEF r, i

-----------------------------------------------------------------------------
(* Facts read off the invariant. *)

LEMMA StoryFacts ==
  ASSUME TypeOK
  PROVE  /\ \A p \in Items : kids[p] \in Seq(Items) /\ Len(kids[p]) \in Nat
         /\ \A p \in Items : \A j \in 1..Len(kids[p]) : kids[p][j] \in Items
         /\ \A p \in Items : \A j \in 1..Len(kids[p]) : kids[p][j] # Root
         /\ \A p, q \in Items : \A i \in 1..Len(kids[p]), j \in 1..Len(kids[q]) :
              kids[p][i] = kids[q][j] => p = q /\ i = j
<1>1. IsStory(kids)
  BY DEF TypeOK
<1>2. \A p \in Items : kids[p] \in Seq(Items)
  BY <1>1 DEF IsStory
<1>3. \A p \in Items : Len(kids[p]) \in Nat
  BY <1>2, LenProperties
<1>4. \A p \in Items : \A j \in 1..Len(kids[p]) : kids[p][j] \in Items
  BY <1>2, ElementOfSeq
<1> QED
  BY <1>1, <1>2, <1>3, <1>4 DEF IsStory

LEMMA FiniteFacts ==
  ASSUME TypeOK
  PROVE  /\ IsFiniteSet(fetched) /\ IsFiniteSet(Answered)
         /\ Cardinality(Answered) \in Nat
<1>1. fetched \in SUBSET Items /\ IsFiniteSet(Items)
  BY DownloaderAssumption DEF TypeOK
<1>2. IsFiniteSet(fetched)
  BY <1>1, FS_Subset
<1>3. IsFiniteSet(Answered)
  BY <1>2, FS_Difference DEF Answered
<1> QED
  BY <1>2, <1>3, FS_CardinalityType

(* The frontier depends on the stack, on what was fetched and on what was  *)
(* handed over, and on nothing else.                                       *)
LEMMA FrontierSame ==
  ASSUME FrontierInv, UNCHANGED server,
         Known' = Known,
         \A p \in Items : \A j \in 1..Len(kids[p]) : Handed(p, j)' <=> Handed(p, j)
  PROVE  \A i \in Items :
           i \in Known' <=> \/ i = Root
                            \/ \E p \in Items : \E j \in 1..Len(kids'[p]) :
                                 kids'[p][j] = i /\ Handed(p, j)'
<1>1. kids' = kids
  BY DEF server
<1>2. \A i \in Items :
       i \in Known <=> \/ i = Root
                       \/ \E p \in Items : \E j \in 1..Len(kids[p]) :
                            kids[p][j] = i /\ Handed(p, j)
  BY DEF FrontierInv
<1> QED
  BY <1>1, <1>2, Zenon

-----------------------------------------------------------------------------
LEMMA InitInv == Init => Inv
<1> SUFFICES ASSUME Init PROVE Inv
  OBVIOUS
<1>0. Root \in Items /\ Items \subseteq Nat \ {0} /\ ArraySize \in Nat
  BY DownloaderAssumption
<1>1. TypeOK
  <2>1. IsStory(kids)
    BY DownloaderAssumption DEF Init
  <2>2. stack \in Seq(Items) /\ noderay \in Seq(Items) /\ Len(noderay) <= ArraySize
    BY <1>0 DEF Init
  <2>3. DOMAIN children = Items
    BY DEF Init
  <2> QED
    BY <2>1, <2>2, <2>3, <1>0 DEF Init, TypeOK, Running, Stopped, NoItem
<1>2. Current = {} /\ Answered = {}
  BY DEF Init, Current, Answered
<1>3. FrontierInv
  <2>1. Len(stack) = 1 /\ stack[1] = Root
    BY DEF Init
  <2>2. Elements(stack) = {Root}
    BY <2>1 DEF Elements
  <2>3. Known = {Root}
    BY <2>2 DEF Known, Init
  <2>4. \A p, j : ~Handed(p, j)
    BY <1>2 DEF Handed, Init
  <2>5. \A j, k \in 1..Len(stack) : stack[j] = stack[k] => j = k
    BY <2>1
  <2>6. \A k \in 1..Len(stack) : stack[k] \notin fetched
    BY DEF Init
  <2> QED
    BY <1>2, <2>3, <2>4, <2>5, <2>6, Zenon DEF FrontierInv
<1>4. NoderayInv
  <2>1. Len(noderay) = 0
    BY DEF Init
  <2> QED
    BY <2>1 DEF NoderayInv, Init
<1>5. CountInv
  BY <1>2, FS_EmptySet DEF CountInv, Init
<1>6. TriesInv
  BY DEF TriesInv, Init
<1> QED
  BY <1>1, <1>3, <1>4, <1>5, <1>6 DEF Inv

LEMMA PopInv == Inv /\ Pop => Inv'
<1> SUFFICES ASSUME Inv, Pop PROVE Inv'
  OBVIOUS
<1>0. TypeOK /\ FrontierInv /\ NoderayInv /\ CountInv /\ TriesInv
  BY DEF Inv
<1>1. /\ item' \in Items
      /\ stack' \in Seq(Items)
      /\ \A k \in 1..Len(stack') : stack'[k] = stack[k] /\ k \in 1..Len(stack)
      /\ Elements(stack) = Elements(stack') \cup {item'}
      /\ item' \notin Elements(stack')
  <2>1. /\ stack \in Seq(Items) /\ stack # << >>
        /\ \A j, k \in 1..Len(stack) : stack[j] = stack[k] => j = k
        /\ stack' = Popped(stack)
        /\ item' = Top(stack)
    BY <1>0 DEF TypeOK, FrontierInv, Pop
  <2> QED
    BY <2>1, PopFacts, Zenon
<1>2. item' \notin fetched
  <2>1. \A k \in 1..Len(stack) : stack[k] \notin fetched
    BY <1>0 DEF FrontierInv
  <2>2. \A x \in Elements(stack) : x \notin fetched
    BY <2>1 DEF Elements
  <2> QED
    BY <1>1, <2>2
<1>3. /\ pc = "turn" /\ pc' = "request"
      /\ fetched' = fetched \cup {item'}
      /\ UNCHANGED <<server, ki, noderay, count, children, lost>>
  BY DEF Pop
<1>4. Current = {} /\ Current' = {item'}
  BY <1>3 DEF Current
<1>5. lost \subseteq fetched
  BY <1>0 DEF TypeOK
<1>6. Answered' = Answered
  BY <1>2, <1>3, <1>4, <1>5, Zenon DEF Answered
<1>7. TypeOK'
  <2>1. tries' \in 0..3
    BY <1>0 DEF TypeOK, Pop
  <2> QED
    BY <1>0, <1>1, <1>3, <2>1, Zenon DEF TypeOK, server, Running, Stopped
<1>8. FrontierInv'
  <2>1. Known' = Known
    BY <1>1, <1>3 DEF Known
  <2>2. \A p, j : Handed(p, j)' <=> Handed(p, j)
    BY <1>3, <1>6 DEF Handed
  <2>3. \A i \in Items :
           i \in Known' <=> \/ i = Root
                            \/ \E p \in Items : \E j \in 1..Len(kids'[p]) :
                                 kids'[p][j] = i /\ Handed(p, j)'
    BY <1>0, <1>3, <2>1, <2>2, FrontierSame, Zenon
  <2>4. \A k \in 1..Len(stack') : stack'[k] \notin fetched'
    <3> SUFFICES ASSUME NEW k \in 1..Len(stack') PROVE stack'[k] \notin fetched'
      OBVIOUS
    <3>1. stack'[k] \notin fetched
      BY <1>0, <1>1, Zenon DEF FrontierInv
    <3>2. stack'[k] # item'
      BY <1>1 DEF Elements
    <3> QED
      BY <1>3, <3>1, <3>2
  <2>5. \A j, k \in 1..Len(stack') : stack'[j] = stack'[k] => j = k
    BY <1>0, <1>1, Zenon DEF FrontierInv
  <2>6. Current' \subseteq fetched' \ lost'
    BY <1>2, <1>3, <1>4, <1>5
  <2> QED
    BY <2>3, <2>4, <2>5, <2>6, Zenon DEF FrontierInv
<1>9. NoderayInv'
  BY <1>0, <1>2, <1>3 DEF NoderayInv, server
<1>10. CountInv'
  BY <1>0, <1>3, <1>6 DEF CountInv
<1>11. TriesInv'
  BY <1>0, <1>3 DEF TriesInv, Pop, TypeOK
<1> QED
  BY <1>7, <1>8, <1>9, <1>10, <1>11 DEF Inv

(* A step that moves neither the queue nor the replies.                    *)
LEMMA QuietInv ==
  ASSUME Inv,
         UNCHANGED <<server, stack, noderay, count, history>>,
         Answered' = Answered, Current' = Current,
         \A p \in Items : \A j \in 1..Len(kids[p]) : Handed(p, j)' <=> Handed(p, j)
  PROVE  /\ FrontierInv'
         /\ count' = Cardinality(Answered')
<1>0. TypeOK /\ FrontierInv /\ CountInv
  BY DEF Inv
<1>1. Known' = Known
  BY DEF Known, history
<1>2. \A i \in Items :
         i \in Known' <=> \/ i = Root
                          \/ \E p \in Items : \E j \in 1..Len(kids'[p]) :
                               kids'[p][j] = i /\ Handed(p, j)'
  BY <1>0, <1>1, FrontierSame, Zenon
<1>3. stack' = stack /\ fetched' = fetched /\ lost' = lost
  BY DEF history
<1>4. FrontierInv'
  BY <1>0, <1>2, <1>3, Zenon DEF FrontierInv
<1> QED
  BY <1>0, <1>4 DEF CountInv

LEMMA IdleInv == Inv /\ Idle => Inv'
<1> SUFFICES ASSUME Inv, Idle PROVE Inv'
  OBVIOUS
<1>0. TypeOK /\ FrontierInv /\ NoderayInv /\ CountInv /\ TriesInv
  BY DEF Inv
<1>1. /\ pc = "turn"
      /\ UNCHANGED <<server, stack, pc, item, ki, noderay, count, children, history>>
  BY DEF Idle
<1>2. Current' = Current /\ Answered' = Answered
  BY <1>1 DEF Current, Answered, history
<1>3. \A p, j : Handed(p, j)' <=> Handed(p, j)
  BY <1>1, <1>2 DEF Handed
<1>4. FrontierInv' /\ count' = Cardinality(Answered')
  BY <1>1, <1>2, <1>3, QuietInv
<1>5. TypeOK'
  <2>1. tries' \in 0..3
    BY <1>0 DEF TypeOK, Idle
  <2> QED
    BY <1>0, <1>1, <2>1 DEF TypeOK, server, history
<1>6. NoderayInv'
  BY <1>0, <1>1 DEF NoderayInv, server, history
<1>7. CountInv'
  BY <1>1, <1>4 DEF CountInv
<1>8. TriesInv'
  BY <1>0, <1>1 DEF TriesInv, Idle
<1> QED
  BY <1>4, <1>5, <1>6, <1>7, <1>8 DEF Inv

LEMMA RequestFailsInv == Inv /\ RequestFails => Inv'
<1> SUFFICES ASSUME Inv, RequestFails PROVE Inv'
  OBVIOUS
<1>0. TypeOK /\ FrontierInv /\ NoderayInv /\ CountInv /\ TriesInv
  BY DEF Inv
<1>1. /\ pc = "request" /\ pc' = "turn"
      /\ lost' = lost \cup {item}
      /\ UNCHANGED <<server, stack, tries, item, ki, noderay, count, children, fetched>>
  BY DEF RequestFails
<1>2. Current = {item} /\ Current' = {}
  BY <1>1 DEF Current
<1>3. Answered' = Answered
  BY <1>1, <1>2 DEF Answered
<1>4. \A p, j : Handed(p, j)' <=> Handed(p, j)
  BY <1>1, <1>3 DEF Handed
<1>5. item \in fetched
  BY <1>0, <1>2 DEF FrontierInv
<1>6. TypeOK'
  BY <1>0, <1>1, <1>5 DEF TypeOK, server, Running
<1>7. FrontierInv'
  <2>1. Known' = Known
    BY <1>1 DEF Known
  <2>2. \A i \in Items :
           i \in Known' <=> \/ i = Root
                            \/ \E p \in Items : \E j \in 1..Len(kids'[p]) :
                                 kids'[p][j] = i /\ Handed(p, j)'
    BY <1>0, <1>1, <1>4, <2>1, FrontierSame, Zenon
  <2> QED
    BY <1>0, <1>1, <1>2, <2>2, Zenon DEF FrontierInv
<1>8. NoderayInv'
  BY <1>0, <1>1 DEF NoderayInv, server
<1>9. CountInv'
  BY <1>0, <1>1, <1>3 DEF CountInv
<1>10. TriesInv'
  BY <1>0, <1>1 DEF TriesInv
<1> QED
  BY <1>6, <1>7, <1>8, <1>9, <1>10 DEF Inv

LEMMA NullReplyInv == Inv /\ NullReply => Inv'
<1> SUFFICES ASSUME Inv, NullReply PROVE Inv'
  OBVIOUS
<1>0. TypeOK /\ FrontierInv /\ NoderayInv /\ CountInv /\ TriesInv
  BY DEF Inv
<1>1. /\ pc = "request" /\ pc' = "crashed"
      /\ UNCHANGED <<server, stack, tries, item, ki, noderay, count, children, history>>
  BY DEF NullReply
<1>2. Current' = Current /\ Answered' = Answered
  BY <1>1 DEF Current, Answered, history
<1>3. \A p, j : Handed(p, j)' <=> Handed(p, j)
  BY <1>1, <1>2 DEF Handed
<1>4. FrontierInv' /\ count' = Cardinality(Answered')
  BY <1>1, <1>2, <1>3, QuietInv
<1>5. TypeOK'
  BY <1>0, <1>1 DEF TypeOK, server, history, Stopped
<1>6. NoderayInv'
  BY <1>0, <1>1 DEF NoderayInv, server, history
<1>7. CountInv'
  BY <1>1, <1>4 DEF CountInv
<1>8. TriesInv'
  BY <1>0, <1>1 DEF TriesInv
<1> QED
  BY <1>4, <1>5, <1>6, <1>7, <1>8 DEF Inv

LEMMA OverflowInv == Inv /\ Overflow => Inv'
<1> SUFFICES ASSUME Inv, Overflow PROVE Inv'
  OBVIOUS
<1>0. TypeOK /\ FrontierInv /\ NoderayInv /\ CountInv /\ TriesInv
  BY DEF Inv
<1>1. /\ pc = "request" /\ pc' = "overflow"
      /\ text[item] /\ Len(noderay) >= ArraySize
      /\ UNCHANGED <<server, stack, tries, item, ki, noderay, count, children, history>>
  BY DEF Overflow
<1>2. Current' = Current /\ Answered' = Answered
  BY <1>1 DEF Current, Answered, history
<1>3. \A p, j : Handed(p, j)' <=> Handed(p, j)
  BY <1>1, <1>2 DEF Handed
<1>4. FrontierInv' /\ count' = Cardinality(Answered')
  BY <1>1, <1>2, <1>3, QuietInv
<1>5. TypeOK'
  BY <1>0, <1>1 DEF TypeOK, server, history, Stopped
<1>6. Len(noderay) = ArraySize
  <2>1. Len(noderay) \in Nat /\ ArraySize \in Nat /\ Len(noderay) <= ArraySize
    BY <1>0, LenProperties, DownloaderAssumption DEF TypeOK
  <2> QED
    BY <1>1, <2>1
<1>7. NoderayInv'
  BY <1>0, <1>1, <1>6 DEF NoderayInv, server, history
<1>8. CountInv'
  BY <1>1, <1>4 DEF CountInv
<1>9. TriesInv'
  BY <1>0, <1>1 DEF TriesInv
<1> QED
  BY <1>4, <1>5, <1>7, <1>8, <1>9 DEF Inv

LEMMA JoinInv == Inv /\ Join => Inv'
<1> SUFFICES ASSUME Inv, Join PROVE Inv'
  OBVIOUS
<1>0. TypeOK /\ FrontierInv /\ NoderayInv /\ CountInv /\ TriesInv
  BY DEF Inv
<1>1. /\ pc = "turn" /\ pc' = "joined" /\ tries = 0
      /\ UNCHANGED <<server, stack, tries, item, ki, noderay, count, children, history>>
  BY DEF Join
<1>2. Current' = Current /\ Answered' = Answered
  BY <1>1 DEF Current, Answered, history
<1>3. \A p, j : Handed(p, j)' <=> Handed(p, j)
  BY <1>1, <1>2 DEF Handed
<1>4. FrontierInv' /\ count' = Cardinality(Answered')
  BY <1>1, <1>2, <1>3, QuietInv
<1>5. TypeOK'
  BY <1>0, <1>1 DEF TypeOK, server, history, Running
<1>6. NoderayInv'
  BY <1>0, <1>1 DEF NoderayInv, server, history
<1>7. CountInv'
  BY <1>1, <1>4 DEF CountInv
<1>8. TriesInv'
  BY <1>0, <1>1 DEF TriesInv
<1> QED
  BY <1>4, <1>5, <1>6, <1>7, <1>8 DEF Inv

LEMMA BuildTreeInv == Inv /\ BuildTree => Inv'
<1> SUFFICES ASSUME Inv, BuildTree PROVE Inv'
  OBVIOUS
<1>0. TypeOK /\ FrontierInv /\ NoderayInv /\ CountInv /\ TriesInv
  BY DEF Inv
<1>1. /\ pc = "joined" /\ pc' = "built"
      /\ UNCHANGED <<server, stack, tries, item, ki, noderay, count, history>>
  BY DEF BuildTree
<1>2. Current' = Current /\ Answered' = Answered
  BY <1>1 DEF Current, Answered, history
<1>3. \A p, j : Handed(p, j)' <=> Handed(p, j)
  BY <1>1, <1>2 DEF Handed
<1>4. FrontierInv' /\ count' = Cardinality(Answered')
  BY <1>1, <1>2, <1>3, QuietInv
<1>5. TypeOK'
  <2>1. DOMAIN children' = Items
    BY DEF BuildTree
  <2> QED
    BY <1>0, <1>1, <2>1 DEF TypeOK, server, history, Stopped
<1>6. NoderayInv'
  BY <1>0, <1>1 DEF NoderayInv, server, history
<1>7. CountInv'
  BY <1>1, <1>4 DEF CountInv
<1>8. TriesInv'
  BY <1>0, <1>1 DEF TriesInv
<1> QED
  BY <1>4, <1>5, <1>6, <1>7, <1>8 DEF Inv

LEMMA ReplyInv == Inv /\ Reply => Inv'
<1> SUFFICES ASSUME Inv, Reply PROVE Inv'
  OBVIOUS
<1>0. TypeOK /\ FrontierInv /\ NoderayInv /\ CountInv /\ TriesInv
  BY DEF Inv
<1>1. /\ pc = "request" /\ pc' = "kids" /\ ki' = 1
      /\ text[item] => Len(noderay) < ArraySize
      /\ noderay' = IF text[item] THEN Append(noderay, item) ELSE noderay
      /\ UNCHANGED <<server, stack, tries, item, count, children, history>>
  BY DEF Reply
<1>2. Current' = Current /\ Answered' = Answered /\ Current = {item}
  BY <1>1 DEF Current, Answered, history
<1>3. \A p \in Items : \A j \in 1..Len(kids[p]) : Handed(p, j)' <=> Handed(p, j)
  <2> SUFFICES ASSUME NEW p \in Items, NEW j \in 1..Len(kids[p])
               PROVE  Handed(p, j)' <=> Handed(p, j)
    OBVIOUS
  <2>1. ~(j < 1)
    BY StoryFacts, <1>0
  <2> QED
    BY <1>1, <1>2, <2>1 DEF Handed
<1>4. FrontierInv'
  <2>1. Known' = Known
    BY <1>1 DEF Known, history
  <2>2. \A i \in Items :
           i \in Known' <=> \/ i = Root
                            \/ \E p \in Items : \E j \in 1..Len(kids'[p]) :
                                 kids'[p][j] = i /\ Handed(p, j)'
    BY <1>0, <1>1, <1>3, <2>1, FrontierSame, Zenon
  <2>3. stack' = stack /\ fetched' = fetched /\ lost' = lost
    BY <1>1 DEF history
  <2> QED
    BY <1>0, <1>2, <2>2, <2>3, Zenon DEF FrontierInv
<1>5. item \in Items /\ noderay \in Seq(Items) /\ Len(noderay) \in Nat /\ ArraySize \in Nat
  BY <1>0, <1>1, LenProperties, DownloaderAssumption DEF TypeOK
<1>6. TypeOK'
  <2>1. noderay' \in Seq(Items) /\ Len(noderay') <= ArraySize
    <3>1. CASE text[item]
      BY <1>1, <1>5, <3>1, PushFacts
    <3>2. CASE ~text[item]
      BY <1>0, <1>1, <3>2 DEF TypeOK
    <3> QED
      BY <3>1, <3>2
  <2>2. ki' \in Nat
    BY <1>1
  <2> QED
    BY <1>0, <1>1, <1>5, <2>1, <2>2, Zenon DEF TypeOK, server, history, Running
<1>7. NoderayInv'
  <2>0. text' = text /\ fetched' = fetched /\ lost' = lost /\ item' = item
    BY <1>1 DEF server, history
  <2>1. CASE ~text[item]
    BY <1>0, <1>1, <2>0, <2>1 DEF NoderayInv
  <2>2. CASE text[item]
    <3>1. noderay' = Append(noderay, item)
      BY <1>1, <2>2
    <3>2. item \in fetched \ lost
      BY <1>0, <1>2 DEF FrontierInv
    <3>3. item \notin Elements(noderay)
      BY <1>0, <1>1 DEF NoderayInv, Elements
    <3>4. \A j, k \in 1..Len(noderay') : noderay'[j] = noderay'[k] => j = k
      BY <1>0, <1>5, <3>1, <3>3, PushDistinct DEF NoderayInv
    <3>5. \A k \in 1..Len(noderay') : noderay'[k] \in fetched \ lost /\ text[noderay'[k]]
      <4> SUFFICES ASSUME NEW k \in 1..Len(noderay')
                   PROVE  noderay'[k] \in fetched \ lost /\ text[noderay'[k]]
        OBVIOUS
      <4>1. CASE k \in 1..Len(noderay)
        BY <1>0, <1>5, <3>1, <4>1, PushFacts DEF NoderayInv
      <4>2. CASE k = Len(noderay) + 1
        BY <1>5, <2>2, <3>1, <3>2, <4>2, PushFacts
      <4>3. Len(noderay') = Len(noderay) + 1
        BY <1>5, <3>1, PushFacts
      <4>4. k \in 1..Len(noderay) \/ k = Len(noderay) + 1
        BY <1>5, <4>3
      <4> QED
        BY <4>1, <4>2, <4>4
    <3> QED
      BY <1>1, <2>0, <3>4, <3>5, Zenon DEF NoderayInv
  <2> QED
    BY <2>1, <2>2
<1>8. CountInv'
  <2>1. Len(kids[item]) \in Nat
    BY <1>0, <1>5, StoryFacts
  <2>2. 1 \in 1..(Len(kids[item]) + 1)
    BY <2>1
  <2> QED
    BY <1>0, <1>1, <1>2, <2>2 DEF CountInv, server
<1>9. TriesInv'
  BY <1>0, <1>1 DEF TriesInv
<1> QED
  BY <1>4, <1>6, <1>7, <1>8, <1>9 DEF Inv

LEMMA QueueKidInv == Inv /\ QueueKid => Inv'
<1> SUFFICES ASSUME Inv, QueueKid PROVE Inv'
  OBVIOUS
<1>0. TypeOK /\ FrontierInv /\ NoderayInv /\ CountInv /\ TriesInv
  BY DEF Inv
<1>1. /\ pc = "kids" /\ ki <= Len(kids[item])
      /\ stack' = Pushed(stack, kids[item][ki])
      /\ ki' = ki + 1
      /\ UNCHANGED <<server, pc, tries, item, noderay, count, children, history>>
  BY DEF QueueKid
<1>2. Current' = Current /\ Answered' = Answered /\ Current = {item}
  BY <1>1 DEF Current, Answered, history
<1>3. item \in Items /\ Len(kids[item]) \in Nat /\ ki \in 1..(Len(kids[item]) + 1)
  BY <1>0, <1>1, StoryFacts DEF TypeOK, CountInv
<1>4. ki \in 1..Len(kids[item]) /\ ki + 1 \in 1..(Len(kids[item]) + 1)
  BY <1>1, <1>3
<1> DEFINE kid == kids[item][ki]
<1>5. kid \in Items /\ kid # Root
  BY <1>0, <1>3, <1>4, StoryFacts
<1>6. item \notin Answered
  BY <1>2 DEF Answered
<1>7. \A p \in Items : \A j \in 1..Len(kids[p]) : kids[p][j] = kid => p = item /\ j = ki
  BY SMTT(30), <1>0, <1>3, <1>4, StoryFacts, Zenon
<1>8. ~Handed(item, ki)
  BY <1>3, <1>6 DEF Handed
<1>9. kid \notin Known
  <2>1. kid \in Known => \E p \in Items : \E j \in 1..Len(kids[p]) :
                            kids[p][j] = kid /\ Handed(p, j)
    BY <1>0, <1>5, Zenon DEF FrontierInv
  <2> QED
    BY <1>7, <1>8, <2>1
<1>10. stack \in Seq(Items) /\ Len(stack) \in Nat
  BY <1>0, LenProperties DEF TypeOK
<1>11. stack' = Append(stack, kid)
  BY <1>1, <1>9 DEF Pushed, Known
<1>12. /\ stack' \in Seq(Items)
       /\ Len(stack') = Len(stack) + 1
       /\ \A k \in 1..Len(stack) : stack'[k] = stack[k]
       /\ stack'[Len(stack) + 1] = kid
       /\ Elements(stack') = Elements(stack) \cup {kid}
  BY <1>5, <1>10, <1>11, PushFacts
<1>13. fetched' = fetched /\ lost' = lost /\ kids' = kids /\ text' = text
  BY <1>1 DEF history, server
<1>14. Known' = Known \cup {kid}
  BY <1>12, <1>13 DEF Known
<1>15. \A p \in Items : \A j \in 1..Len(kids[p]) :
         Handed(p, j)' <=> Handed(p, j) \/ (p = item /\ j = ki)
  <2> SUFFICES ASSUME NEW p \in Items, NEW j \in 1..Len(kids[p])
               PROVE  Handed(p, j)' <=> Handed(p, j) \/ (p = item /\ j = ki)
    OBVIOUS
  <2>1. j < ki + 1 <=> j < ki \/ j = ki
    BY <1>0, <1>3, StoryFacts
  <2> QED
    BY <1>1, <1>2, <2>1 DEF Handed
<1>16. FrontierInv'
  <2>1. ASSUME NEW i \in Items
        PROVE  i \in Known' <=> \/ i = Root
                                \/ \E p \in Items : \E j \in 1..Len(kids'[p]) :
                                     kids'[p][j] = i /\ Handed(p, j)'
    <3>1. i \in Known' <=> i \in Known \/ i = kid
      BY <1>14
    <3>2. i \in Known <=> \/ i = Root
                          \/ \E p \in Items : \E j \in 1..Len(kids[p]) :
                               kids[p][j] = i /\ Handed(p, j)
      BY <1>0 DEF FrontierInv
    <3>3. i = kid <=> \E p \in Items : \E j \in 1..Len(kids[p]) :
                        kids[p][j] = i /\ p = item /\ j = ki
      BY <1>3, <1>4
    <3> HIDE DEF kid
    <3> QED
      BY <1>13, <1>15, <3>1, <3>2, <3>3, Zenon
  <2>2. \A k \in 1..Len(stack') : k \in 1..Len(stack) \/ k = Len(stack) + 1
    BY <1>10, <1>12
  <2>3. \A k \in 1..Len(stack') : stack'[k] \notin fetched'
    <3>1. kid \notin fetched
      BY <1>9 DEF Known
    <3> HIDE DEF kid
    <3>2. \A k \in 1..Len(stack) : stack[k] \notin fetched
      BY <1>0 DEF FrontierInv
    <3> QED
      BY <1>12, <1>13, <2>2, <3>1, <3>2, Zenon
  <2>4. \A j, k \in 1..Len(stack') : stack'[j] = stack'[k] => j = k
    <3>1. kid \notin Elements(stack)
      BY <1>9 DEF Known
    <3>2. \A j, k \in 1..Len(stack) : stack[j] = stack[k] => j = k
      BY <1>0 DEF FrontierInv
    <3> HIDE DEF kid
    <3> QED
      BY <1>5, <1>10, <1>11, <3>1, <3>2, PushDistinct
  <2>5. Current' \subseteq fetched' \ lost'
    BY <1>0, <1>2, <1>13 DEF FrontierInv
  <2> QED
    BY <2>1, <2>3, <2>4, <2>5, Zenon DEF FrontierInv
<1>17. TypeOK'
  <2>1. ki' \in Nat
    BY <1>1, <1>4
  <2> QED
    BY <1>0, <1>1, <1>12, <1>13, <2>1, Zenon DEF TypeOK
<1>18. NoderayInv'
  BY <1>0, <1>1, <1>13 DEF NoderayInv
<1>19. CountInv'
  BY <1>0, <1>1, <1>2, <1>4, <1>13 DEF CountInv
<1>20. TriesInv'
  BY <1>0, <1>1 DEF TriesInv
<1> QED
  BY <1>16, <1>17, <1>18, <1>19, <1>20 DEF Inv

LEMMA KidsDoneInv == Inv /\ KidsDone => Inv'
<1> SUFFICES ASSUME Inv, KidsDone PROVE Inv'
  OBVIOUS
<1>0. TypeOK /\ FrontierInv /\ NoderayInv /\ CountInv /\ TriesInv
  BY DEF Inv
<1>1. /\ pc = "kids" /\ pc' = "turn"
      /\ ki > Len(kids[item])
      /\ count' = count + 1
      /\ UNCHANGED <<server, stack, tries, item, ki, noderay, children, history>>
  BY DEF KidsDone
<1>2. Current = {item} /\ Current' = {}
  BY <1>1 DEF Current
<1>3. fetched' = fetched /\ lost' = lost /\ kids' = kids /\ text' = text
  BY <1>1 DEF history, server
<1>4. item \in fetched \ lost
  BY <1>0, <1>2 DEF FrontierInv
<1>5. Answered' = Answered \cup {item} /\ item \notin Answered
  BY <1>2, <1>3, <1>4 DEF Answered
<1>6. \A p \in Items : \A j \in 1..Len(kids[p]) : Handed(p, j)' <=> Handed(p, j)
  <2> SUFFICES ASSUME NEW p \in Items, NEW j \in 1..Len(kids[p])
               PROVE  Handed(p, j)' <=> Handed(p, j)
    OBVIOUS
  <2>1. p = item => j < ki
    BY <1>0, <1>1, StoryFacts DEF TypeOK
  <2> QED
    BY <1>1, <1>5, <2>1 DEF Handed
<1>7. FrontierInv'
  <2>1. Known' = Known
    BY <1>1, <1>3 DEF Known
  <2>2. \A i \in Items :
           i \in Known' <=> \/ i = Root
                            \/ \E p \in Items : \E j \in 1..Len(kids'[p]) :
                                 kids'[p][j] = i /\ Handed(p, j)'
    BY <1>0, <1>1, <1>6, <2>1, FrontierSame, Zenon
  <2> QED
    BY <1>0, <1>1, <1>2, <1>3, <2>2, Zenon DEF FrontierInv
<1>8. TypeOK'
  <2>1. count' \in Nat
    BY <1>0, <1>1 DEF TypeOK
  <2> QED
    BY <1>0, <1>1, <1>3, <2>1 DEF TypeOK, Running
<1>9. NoderayInv'
  BY <1>0, <1>1, <1>3 DEF NoderayInv
<1>10. CountInv'
  <2>1. IsFiniteSet(Answered) /\ count = Cardinality(Answered)
    BY <1>0, FiniteFacts DEF CountInv
  <2>2. Cardinality(Answered \cup {item}) = Cardinality(Answered) + 1
    BY <1>5, <2>1, FS_AddElement
  <2> QED
    BY <1>1, <1>5, <2>1, <2>2 DEF CountInv
<1>11. TriesInv'
  BY <1>0, <1>1 DEF TriesInv
<1> QED
  BY <1>7, <1>8, <1>9, <1>10, <1>11 DEF Inv

LEMMA StepInv == Inv /\ [Next]_vars => Inv'
<1> SUFFICES ASSUME Inv, [Next]_vars PROVE Inv'
  OBVIOUS
<1>1. CASE Pop
  BY <1>1, PopInv
<1>2. CASE Idle
  BY <1>2, IdleInv
<1>3. CASE RequestFails
  BY <1>3, RequestFailsInv
<1>4. CASE NullReply
  BY <1>4, NullReplyInv
<1>5. CASE Reply
  BY <1>5, ReplyInv
<1>6. CASE Overflow
  BY <1>6, OverflowInv
<1>7. CASE QueueKid
  BY <1>7, QueueKidInv
<1>8. CASE KidsDone
  BY <1>8, KidsDoneInv
<1>9. CASE Join
  BY <1>9, JoinInv
<1>10. CASE BuildTree
  BY <1>10, BuildTreeInv
<1>11. CASE UNCHANGED vars
  <2>1. /\ UNCHANGED server /\ UNCHANGED history /\ UNCHANGED stack
        /\ UNCHANGED <<pc, tries, item, ki, noderay, count, children>>
    BY <1>11 DEF vars, server, history
  <2>2. UNCHANGED <<kids, text, fetched, lost>>
    BY <1>11 DEF vars
  <2>3. TypeOK'
    BY <2>1, <2>2 DEF Inv, TypeOK
  <2>4. Answered' = Answered /\ Current' = Current /\ Known' = Known
    BY <2>1, <2>2 DEF Answered, Current, Known
  <2>5. \A p, j : Handed(p, j)' <=> Handed(p, j)
    BY <2>1, <2>4 DEF Handed
  <2>6. FrontierInv'
    BY <2>1, <2>4, <2>5, QuietInv
  <2>7. NoderayInv'
    BY <2>1, <2>2 DEF Inv, NoderayInv
  <2>8. CountInv'
    BY <2>1, <2>2, <2>4 DEF Inv, CountInv
  <2>9. TriesInv'
    BY <2>1 DEF Inv, TriesInv
  <2> QED
    BY <2>3, <2>6, <2>7, <2>8, <2>9 DEF Inv
<1>12. Next \/ UNCHANGED vars
  OBVIOUS
<1> QED
  BY <1>1, <1>2, <1>3, <1>4, <1>5, <1>6, <1>7, <1>8, <1>9, <1>10, <1>11, <1>12
     DEF Next, Work, Ended

(* The inductive invariant holds: what was fetched, what is queued and     *)
(* what noderay holds fit together (downloader.c:34-117).                  *)
THEOREM Invariant == Spec => []Inv
<1> QED
  BY InitInv, StepInv, PTL DEF Spec

(* Every variable has its type.                                            *)
THEOREM TypeCorrect == Spec => []TypeOK
<1>1. Inv => TypeOK
  BY DEF Inv
<1> QED
  BY <1>1, Invariant, PTL

(* No id is requested twice.                                               *)
THEOREM FetchedOnce == Spec => []NeverFetchedAgain
<1>1. Inv => NeverFetchedAgain
  BY DEF Inv, FrontierInv, NeverFetchedAgain
<1> QED
  BY <1>1, Invariant, PTL

(* Main goes on only when everything an answered item leads to was asked   *)
(* for, and count says how many items were answered.                       *)
THEOREM Complete == Spec => []NothingForgotten
<1>1. Inv => NothingForgotten
  <2> SUFFICES ASSUME Inv, pc \in {"joined", "built"}
               PROVE  /\ Root \in fetched
                      /\ \A p \in Answered : Elements(kids[p]) \subseteq fetched
                      /\ count = Cardinality(Answered)
    BY DEF NothingForgotten
  <2>0. TypeOK /\ FrontierInv /\ CountInv /\ TriesInv
    BY DEF Inv
  <2>1. stack = << >>
    BY <2>0 DEF TriesInv
  <2>2. Known = fetched
    <3>1. Len(stack) = 0
      BY <2>1
    <3>2. Elements(stack) = {}
      BY <3>1 DEF Elements
    <3> QED
      BY <3>2 DEF Known
  <2>3. Root \in fetched
    BY <2>0, <2>2, DownloaderAssumption DEF FrontierInv
  <2>4. ASSUME NEW p \in Answered, NEW j \in 1..Len(kids[p])
        PROVE  kids[p][j] \in fetched
    <3>1. p \in Items
      BY <2>0 DEF TypeOK, Answered
    <3>2. kids[p][j] \in Items
      BY <2>0, <3>1, StoryFacts
    <3>3. Handed(p, j)
      BY DEF Handed
    <3> QED
      BY <2>0, <2>2, <3>1, <3>2, <3>3, Zenon DEF FrontierInv
  <2>5. \A p \in Answered : Elements(kids[p]) \subseteq fetched
    BY <2>4 DEF Elements
  <2> QED
    BY <2>0, <2>3, <2>5 DEF CountInv
<1> QED
  BY <1>1, Invariant, PTL

(* Only the first try ever finds work.                                     *)
THEOREM TriesRepeatNothing == Spec => TriesNeverHelp
<1>1. Inv /\ [Next]_vars => [tries < 3 => stack = << >> /\ fetched' = fetched]_vars
  <2> SUFFICES ASSUME Inv, Next, tries < 3
               PROVE  stack = << >> /\ fetched' = fetched
    OBVIOUS
  <2>1. stack = << >> /\ pc \in {"turn", "joined", "built"}
    BY DEF Inv, TriesInv
  <2> QED
    BY <2>1 DEF Next, Work, Ended, Pop, Idle, RequestFails, NullReply, Reply, Overflow,
                QueueKid, KidsDone, Join, BuildTree, vars, history
<1> QED
  BY <1>1, Invariant, PTL DEF Spec, TriesNeverHelp

(* noderay overflows only when the story has more texts than it has room.  *)
THEOREM OverflowNeedsTexts == Spec => []OverflowOnlyWhenFull
<1>1. Inv => OverflowOnlyWhenFull
  <2> SUFFICES ASSUME Inv, pc = "overflow"
               PROVE  Cardinality(Texts) > ArraySize
    BY DEF OverflowOnlyWhenFull
  <2>0. TypeOK /\ FrontierInv /\ NoderayInv
    BY DEF Inv
  <2>1. noderay \in Seq(Items) /\ Len(noderay) = ArraySize /\ ArraySize \in Nat
    BY <2>0, DownloaderAssumption DEF TypeOK, NoderayInv
  <2>2. item \in Items /\ item \in Texts
    <3>1. item \in fetched
      BY <2>0 DEF FrontierInv, Current
    <3>2. item \in Items
      BY <2>0, <3>1 DEF TypeOK
    <3> QED
      BY <2>0, <3>2 DEF NoderayInv, Texts
  <2>3. \A k \in 1..ArraySize : noderay[k] \in Texts \ {item}
    BY <2>0, <2>1, ElementOfSeq DEF NoderayInv, Texts
  <2>4. noderay \in [1..ArraySize -> Texts \ {item}]
    BY <2>1, <2>3
  <2>5. noderay \in Injection(1..ArraySize, Texts \ {item})
    BY <2>0, <2>1, <2>4 DEF NoderayInv, Injection, IsInjective
  <2>6. IsFiniteSet(Texts)
    BY DownloaderAssumption, FS_Subset DEF Texts
  <2>7. IsFiniteSet(Texts \ {item}) /\ Cardinality(Texts \ {item}) = Cardinality(Texts) - 1
    BY <2>2, <2>6, FS_RemoveElement
  <2>8. Cardinality(1..ArraySize) = ArraySize
    BY <2>1, FS_Interval
  <2>9. ArraySize <= Cardinality(Texts \ {item})
    BY <2>5, <2>7, <2>8, FS_Injection
  <2>10. Cardinality(Texts) \in Nat
    BY <2>6, FS_CardinalityType
  <2> QED
    BY <2>1, <2>7, <2>9, <2>10
<1> QED
  BY <1>1, Invariant, PTL

-----------------------------------------------------------------------------
(* The loop of buildCommentTree. *)

(* A set of natural numbers has a least one: induction without the         *)
(* theorems that take a predicate.                                         *)
LEMMA Least ==
  ASSUME NEW T \in SUBSET Nat, T # {}
  PROVE  \E m \in T : \A k \in T : m <= k
<1>1. IsWellFoundedOn(OpToRel(<, Nat), Nat)
  BY NatLessThanWellFounded
<1>2. PICK x \in T : \A y \in T : ~ (<<y, x>> \in OpToRel(<, Nat))
  BY <1>1, WFMin
<1>3. \A y \in T : ~ (y < x)
  BY <1>2 DEF OpToRel
<1> QED
  BY <1>3

(* One step of the loop over noderay: what the list is once the first k    *)
(* entries were looked at, from f, what it was before.                     *)
LinkStep(f, p, k) == IF k = 0 THEN << >>
                     ELSE IF Parent(noderay[k]) = p THEN Append(f[k - 1], noderay[k])
                     ELSE f[k - 1]

(* There is such a sequence of lists, one for each turn of the loop.       *)
LEMMA LoopIsDefined ==
  ASSUME NEW p, NEW n \in Nat
  PROVE  \E f : f = [k \in 0..n |-> LinkStep(f, p, k)]
<1> DEFINE Runs(m) == \E f : f = [k \in 0..m |-> LinkStep(f, p, k)]
           T == {m \in Nat : ~Runs(m)}
<1>1. SUFFICES ASSUME T # {} PROVE FALSE
  OBVIOUS
<1>2. PICK m \in T : \A k \in T : m <= k
  <2>1. T \in SUBSET Nat
    OBVIOUS
  <2> QED
    BY <1>1, <2>1, Least
<1>3. m \in Nat /\ ~Runs(m)
  OBVIOUS
<1>4. m # 0
  <2>1. PICK f : f = [k \in 0..0 |-> << >>]
    OBVIOUS
  <2>2. \A k \in 0..0 : LinkStep(f, p, k) = << >>
    BY DEF LinkStep
  <2>3. f = [k \in 0..0 |-> LinkStep(f, p, k)]
    BY <2>1, <2>2
  <2> QED
    BY <1>3, <2>3
<1>5. m - 1 \in Nat /\ Runs(m - 1)
  <2>1. m - 1 \in Nat /\ ~(m <= m - 1)
    BY <1>3, <1>4
  <2> QED
    BY <1>2, <2>1
<1>6. PICK g : g = [k \in 0..(m - 1) |-> LinkStep(g, p, k)]
  BY <1>5
<1>7. PICK f : f = [k \in 0..m |-> LinkStep(g, p, k)]
  OBVIOUS
<1>8. \A k \in 0..(m - 1) : f[k] = g[k]
  <2>1. \A k \in 0..(m - 1) : k \in 0..m
    BY <1>3
  <2>2. \A k \in 0..(m - 1) : g[k] = LinkStep(g, p, k)
    BY <1>6
  <2> QED
    BY <1>7, <2>1, <2>2
<1>9. \A k \in 0..m : LinkStep(f, p, k) = LinkStep(g, p, k)
  <2> SUFFICES ASSUME NEW k \in 0..m PROVE LinkStep(f, p, k) = LinkStep(g, p, k)
    OBVIOUS
  <2>1. k # 0 => k - 1 \in 0..(m - 1)
    BY <1>3
  <2> QED
    BY <1>8, <2>1 DEF LinkStep
<1>10. f = [k \in 0..m |-> LinkStep(f, p, k)]
  BY <1>7, <1>9
<1> QED
  BY <1>3, <1>10

(* The children of p are what the loop ends with.                          *)
LEMMA ChildrenByLoop ==
  ASSUME NEW p, noderay \in Seq(Items)
  PROVE  \E f : /\ \A k \in 0..Len(noderay) : f[k] = LinkStep(f, p, k)
                /\ ChildrenOf(p) = f[Len(noderay)]
<1>1. PICK n \in Nat : n = Len(noderay)
  BY LenProperties
<1>2. \E f : f = [k \in 0..n |-> LinkStep(f, p, k)]
  BY LoopIsDefined
<1>3. PICK f : f = CHOOSE h : h = [k \in 0..n |-> LinkStep(h, p, k)]
  OBVIOUS
<1>4. f = [k \in 0..n |-> LinkStep(f, p, k)]
  BY <1>2, <1>3
<1>5. ChildrenOf(p) = f[n]
  BY <1>1, <1>3 DEF ChildrenOf, LinkStep
<1>6. \A k \in 0..n : f[k] = LinkStep(f, p, k)
  BY <1>4
<1> QED
  BY <1>1, <1>5, <1>6

(* What the list r is made of once the first k entries were looked at: the *)
(* ones whose parent is p, in their order.                                 *)
Lists(r, p, k) ==
  /\ r \in Seq(Items)
  /\ \A c \in 1..Len(r) : \E a \in 1..k : noderay[a] = r[c] /\ Parent(noderay[a]) = p
  /\ \A a \in 1..k : Parent(noderay[a]) = p => \E c \in 1..Len(r) : r[c] = noderay[a]
  /\ \A c, d \in 1..Len(r) : c < d =>
       \E a, b \in 1..k : a < b /\ noderay[a] = r[c] /\ noderay[b] = r[d]

(* One more entry.                                                         *)
LEMMA ListsMore ==
  ASSUME NEW p, noderay \in Seq(Items), NEW k \in 1..Len(noderay), NEW r, Lists(r, p, k - 1)
  PROVE  IF Parent(noderay[k]) = p THEN Lists(Append(r, noderay[k]), p, k)
         ELSE Lists(r, p, k)
<1>1. /\ k \in Nat /\ noderay[k] \in Items
      /\ r \in Seq(Items) /\ Len(r) \in Nat
  <2>1. Len(noderay) \in Nat
    BY LenProperties
  <2>2. r \in Seq(Items)
    BY DEF Lists
  <2> QED
    BY <2>1, <2>2, ElementOfSeq, LenProperties
<1>2. \A a \in 1..(k - 1) : a \in 1..k /\ a < k
  BY <1>1
<1>3. \A a \in 1..k : a \in 1..(k - 1) \/ a = k
  BY <1>1
<1>4. \A c \in 1..Len(r) : \E a \in 1..k :
         a \in 1..(k - 1) /\ noderay[a] = r[c] /\ Parent(noderay[a]) = p
  <2> SUFFICES ASSUME NEW c \in 1..Len(r)
               PROVE  \E a \in 1..k :
                        a \in 1..(k - 1) /\ noderay[a] = r[c] /\ Parent(noderay[a]) = p
    OBVIOUS
  <2>1. PICK a \in 1..(k - 1) : noderay[a] = r[c] /\ Parent(noderay[a]) = p
    BY DEF Lists
  <2> QED
    BY <1>2, <2>1
<1>5. \A a \in 1..(k - 1) : Parent(noderay[a]) = p => \E c \in 1..Len(r) : r[c] = noderay[a]
  BY DEF Lists
<1>6. \A c, d \in 1..Len(r) : c < d =>
        \E a, b \in 1..k : a < b /\ noderay[a] = r[c] /\ noderay[b] = r[d]
  <2> SUFFICES ASSUME NEW c \in 1..Len(r), NEW d \in 1..Len(r), c < d
               PROVE  \E a, b \in 1..k : a < b /\ noderay[a] = r[c] /\ noderay[b] = r[d]
    OBVIOUS
  <2>1. PICK a, b \in 1..(k - 1) : a < b /\ noderay[a] = r[c] /\ noderay[b] = r[d]
    BY DEF Lists
  <2> QED
    BY <1>2, <2>1
<1>7. CASE Parent(noderay[k]) # p
  <2>1. \A a \in 1..k : Parent(noderay[a]) = p => \E c \in 1..Len(r) : r[c] = noderay[a]
    BY <1>3, <1>5, <1>7
  <2>2. Lists(r, p, k)
    BY <1>1, <1>4, <1>6, <2>1 DEF Lists
  <2> QED
    BY <1>7, <2>2
<1>8. CASE Parent(noderay[k]) = p
  <2>1. PICK n \in Nat : n = Len(r)
    BY <1>1
  <2>2. PICK q : q = Append(r, noderay[k])
    OBVIOUS
  <2>3. /\ q \in Seq(Items)
        /\ Len(q) = n + 1
        /\ \A c \in 1..n : q[c] = r[c]
        /\ q[n + 1] = noderay[k]
    BY <1>1, <2>1, <2>2, AppendProperties
  <2>4. /\ \A c \in 1..(n + 1) : c \in 1..n \/ c = n + 1
        /\ \A c \in 1..n : c \in 1..(n + 1)
        /\ n + 1 \in 1..(n + 1)
        /\ \A c, d \in 1..(n + 1) : c < d => c \in 1..n
    OBVIOUS
  <2>5. k \in 1..k
    BY <1>1
  <2>6. \A c \in 1..(n + 1) : \E a \in 1..k : noderay[a] = q[c] /\ Parent(noderay[a]) = p
    <3> SUFFICES ASSUME NEW c \in 1..(n + 1)
                 PROVE  \E a \in 1..k : noderay[a] = q[c] /\ Parent(noderay[a]) = p
      OBVIOUS
    <3>1. CASE c \in 1..n
      <4>1. PICK a \in 1..k : noderay[a] = r[c] /\ Parent(noderay[a]) = p
        BY <1>4, <2>1, <3>1
      <4> QED
        BY <2>3, <3>1, <4>1
    <3>2. CASE c = n + 1
      BY <1>8, <2>3, <2>5, <3>2
    <3> QED
      BY <2>4, <3>1, <3>2
  <2>7. \A a \in 1..k : Parent(noderay[a]) = p => \E c \in 1..(n + 1) : q[c] = noderay[a]
    <3> SUFFICES ASSUME NEW a \in 1..k, Parent(noderay[a]) = p
                 PROVE  \E c \in 1..(n + 1) : q[c] = noderay[a]
      OBVIOUS
    <3>1. CASE a \in 1..(k - 1)
      <4>1. PICK c \in 1..n : r[c] = noderay[a]
        BY <1>5, <2>1, <3>1
      <4> QED
        BY <2>3, <2>4, <4>1
    <3>2. CASE a = k
      BY <2>3, <2>4, <3>2
    <3> QED
      BY <1>3, <3>1, <3>2
  <2>8. \A c, d \in 1..(n + 1) : c < d =>
           \E a, b \in 1..k : a < b /\ noderay[a] = q[c] /\ noderay[b] = q[d]
    <3> SUFFICES ASSUME NEW c \in 1..(n + 1), NEW d \in 1..(n + 1), c < d
                 PROVE  \E a, b \in 1..k : a < b /\ noderay[a] = q[c] /\ noderay[b] = q[d]
      OBVIOUS
    <3>1. c \in 1..n
      BY <2>4
    <3>2. CASE d \in 1..n
      <4>1. PICK a, b \in 1..k : a < b /\ noderay[a] = r[c] /\ noderay[b] = r[d]
        BY <1>6, <2>1, <3>1, <3>2
      <4> QED
        BY <2>3, <3>1, <3>2, <4>1
    <3>3. CASE d = n + 1
      <4>1. PICK a \in 1..k : a \in 1..(k - 1) /\ noderay[a] = r[c]
        BY <1>4, <2>1, <3>1
      <4>2. a < k /\ noderay[a] = q[c] /\ noderay[k] = q[d]
        BY <1>2, <2>3, <3>1, <3>3, <4>1
      <4> QED
        BY <2>5, <4>2
    <3> QED
      BY <2>4, <3>2, <3>3
  <2>9. Lists(q, p, k)
    BY <2>3, <2>6, <2>7, <2>8 DEF Lists
  <2> QED
    BY <1>8, <2>2, <2>9
<1> QED
  BY <1>7, <1>8

(* By induction over the entries: the children of p are all the entries    *)
(* whose parent is p, and they keep their order.                           *)
LEMMA ChildrenFacts ==
  ASSUME NEW p, noderay \in Seq(Items)
  PROVE  Lists(ChildrenOf(p), p, Len(noderay))
<1>1. PICK n \in Nat : n = Len(noderay)
  BY LenProperties
<1>2. PICK f : /\ \A k \in 0..n : f[k] = LinkStep(f, p, k)
               /\ ChildrenOf(p) = f[n]
  BY <1>1, ChildrenByLoop
<1> DEFINE T == {k \in 0..n : ~Lists(f[k], p, k)}
<1>3. T = {}
  <2> SUFFICES ASSUME T # {} PROVE FALSE
    OBVIOUS
  <2>1. PICK m \in T : \A k \in T : m <= k
    <3>1. T \in SUBSET Nat
      OBVIOUS
    <3> QED
      BY <3>1, Least
  <2>2. m \in 0..n /\ ~Lists(f[m], p, m)
    OBVIOUS
  <2>3. CASE m = 0
    <3>1. f[0] = << >>
      BY <1>2, <2>2, <2>3 DEF LinkStep
    <3>2. Lists(<< >>, p, 0)
      BY DEF Lists
    <3> QED
      BY <2>2, <2>3, <3>1, <3>2
  <2>4. CASE m # 0
    <3>1. m \in 1..n /\ m - 1 \in 0..n /\ ~(m <= m - 1)
      BY <2>2, <2>4
    <3>2. Lists(f[m - 1], p, m - 1)
      BY <2>1, <3>1
    <3>3. IF Parent(noderay[m]) = p THEN Lists(Append(f[m - 1], noderay[m]), p, m)
          ELSE Lists(f[m - 1], p, m)
      BY <1>1, <3>1, <3>2, ListsMore
    <3>4. f[m] = IF Parent(noderay[m]) = p THEN Append(f[m - 1], noderay[m]) ELSE f[m - 1]
      BY <1>2, <2>2, <2>4 DEF LinkStep
    <3> QED
      BY <2>2, <3>3, <3>4
  <2> QED
    BY <2>3, <2>4
<1>4. n \in 0..n
  BY <1>1
<1> QED
  BY <1>1, <1>2, <1>3, <1>4

(* "parent" is the item that lists i.                                      *)
LEMMA ParentFacts ==
  ASSUME TypeOK, NEW p \in Items, NEW i \in Items
  PROVE  Parent(i) = p <=> i \in Elements(kids[p])
<1>1. \A q, r \in Items : i \in Elements(kids[q]) /\ i \in Elements(kids[r]) => q = r
  BY StoryFacts DEF Elements
<1>2. 0 \notin Items
  BY DownloaderAssumption
<1>3. (\E q \in Items : i \in Elements(kids[q])) =>
         (CHOOSE q \in Items : i \in Elements(kids[q])) \in Items
         /\ i \in Elements(kids[CHOOSE q \in Items : i \in Elements(kids[q])])
  OBVIOUS
<1> QED
  BY <1>1, <1>2, <1>3 DEF Parent

-----------------------------------------------------------------------------
(* What the steps do to the tree in the making. *)

LEMMA InitTree == Init => TreeInv
<1> SUFFICES ASSUME Init PROVE TreeInv
  OBVIOUS
<1>1. StoredInv
  <2>1. Len(noderay) = 0
    BY DEF Init
  <2>2. Elements(noderay) = {}
    BY <2>1 DEF Elements
  <2> QED
    BY <2>2 DEF StoredInv, Answered, Init
<1>2. OrderInv
  <2>1. Len(stack) = 1 /\ Len(noderay) = 0 /\ fetched = {} /\ pc = "turn"
    BY DEF Init
  <2>2. stack[1] = Root
    BY DEF Init
  <2>3. \A p \in Items : \A i \in 1..Len(kids[p]) : kids[p][i] # Root
    BY InitInv, StoryFacts DEF Inv
  <2>4. ASSUME NEW p \in Items, NEW i \in 1..Len(kids[p]), NEW j \in 1..Len(kids[p])
        PROVE  SiblingsInOrder(p, i, j)
    BY <2>1, <2>2, <2>3 DEF SiblingsInOrder
  <2> QED
    BY <2>4 DEF OrderInv
<1> QED
  BY <1>1, <1>2 DEF TreeInv, BuiltInv, Init

(* A step that moves nothing from one place to another.                    *)
LEMMA QuietTree ==
  ASSUME OrderInv, UNCHANGED <<kids, stack, noderay, fetched>>,
         Answered \subseteq Answered',
         pc' = "request" => pc = "request" /\ item' = item
  PROVE  OrderInv'
<1> SUFFICES ASSUME NEW p \in Items, NEW i \in 1..Len(kids[p]), NEW j \in 1..Len(kids[p])
             PROVE  SiblingsInOrder(p, i, j)'
  BY DEF OrderInv
<1>1. SiblingsInOrder(p, i, j)
  BY DEF OrderInv
<1> QED
  BY <1>1 DEF SiblingsInOrder

LEMMA PopTree == Inv /\ TreeInv /\ Pop => TreeInv'
<1> SUFFICES ASSUME Inv, TreeInv, Pop PROVE TreeInv'
  OBVIOUS
<1>0. TypeOK /\ FrontierInv /\ TypeOK' /\ NoderayInv
  BY PopInv DEF Inv
<1>1. /\ pc = "turn" /\ pc' = "request"
      /\ fetched' = fetched \cup {item'}
      /\ UNCHANGED <<kids, text, ki, noderay, count, children, lost>>
  BY DEF Pop, server
<1>2. /\ stack \in Seq(Items) /\ stack # << >>
      /\ \A j, k \in 1..Len(stack) : stack[j] = stack[k] => j = k
      /\ stack' = Popped(stack)
      /\ item' = Top(stack)
  BY <1>0 DEF TypeOK, FrontierInv, Pop
<1>3. /\ item' \in Items
      /\ \A k \in 1..Len(stack') : stack'[k] = stack[k] /\ k \in 1..Len(stack)
      /\ Elements(stack) = Elements(stack') \cup {item'}
      /\ item' \notin Elements(stack')
  BY <1>2, PopFacts, Zenon
<1>4. item' \notin fetched /\ item' \in Known
  <2>1. \A k \in 1..Len(stack) : stack[k] \notin fetched
    BY <1>0 DEF FrontierInv
  <2> QED
    BY <1>3, <2>1 DEF Elements, Known
<1>5. Answered' = Answered
  BY <1>0, <1>1, <1>4 DEF Answered, Current, TypeOK
<1>6. StoredInv'
  BY <1>1, <1>5 DEF TreeInv, StoredInv
<1>7. \A p \in Items : \A i \in 1..Len(kids[p]) : kids[p][i] = item' => p \in Answered
  <2> SUFFICES ASSUME NEW p \in Items, NEW i \in 1..Len(kids[p]), kids[p][i] = item'
               PROVE  p \in Answered
    OBVIOUS
  <2>1. item' # Root
    BY <1>0, StoryFacts
  <2>2. PICK q \in Items : \E j \in 1..Len(kids[q]) : kids[q][j] = item' /\ Handed(q, j)
    BY <1>0, <1>3, <1>4, <2>1 DEF FrontierInv
  <2>3. q = p
    BY <1>0, <2>2, StoryFacts
  <2> QED
    BY <1>1, <2>2, <2>3 DEF Handed
<1>8. \A p \in Items : \A i, j \in 1..Len(kids[p]) :
         kids[p][i] = item' /\ i < j => kids[p][j] \in fetched
  <2> SUFFICES ASSUME NEW p \in Items, NEW i \in 1..Len(kids[p]), NEW j \in 1..Len(kids[p]),
                      kids[p][i] = item', i < j, kids[p][j] \notin fetched
               PROVE  FALSE
    OBVIOUS
  <2>1. kids[p][j] \in Known
    <3>1. kids[p][j] \in Items
      BY <1>0, StoryFacts
    <3>2. Handed(p, j)
      BY <1>7 DEF Handed
    <3> QED
      BY <1>0, <3>1, <3>2 DEF FrontierInv
  <2>2. PICK b \in 1..Len(stack) : stack[b] = kids[p][j]
    BY <2>1 DEF Known, Elements
  <2>3. /\ Len(stack) \in 1..Len(stack) /\ b <= Len(stack)
        /\ stack[Len(stack)] = kids[p][i]
    <3>1. Len(stack) \in Nat /\ Len(stack) # 0
      BY <1>2, EmptySeq, LenProperties
    <3> QED
      BY <1>2, <3>1 DEF Top
  <2>4. Len(stack) < b
    <3>1. SiblingsInOrder(p, i, j)
      BY DEF TreeInv, OrderInv
    <3> QED
      BY <2>2, <2>3, <3>1 DEF SiblingsInOrder
  <2> QED
    BY <1>2, <2>3, <2>4, LenProperties
<1>9. OrderInv'
  <2> SUFFICES ASSUME NEW p \in Items, NEW i \in 1..Len(kids[p]), NEW j \in 1..Len(kids[p])
               PROVE  SiblingsInOrder(p, i, j)'
    BY <1>1 DEF OrderInv
  <2>0. i \in Nat /\ j \in Nat
    BY <1>0, StoryFacts
  <2>1. SiblingsInOrder(p, i, j) /\ SiblingsInOrder(p, j, i)
    BY DEF TreeInv, OrderInv
  <2>2. kids[p][i] \in fetched' => p \in Answered'
    BY <1>1, <1>5, <1>7, <2>1 DEF SiblingsInOrder
  <2>3. kids[p][i] \in fetched' /\ i < j => kids[p][j] \in fetched'
    BY <1>1, <1>8, <2>1 DEF SiblingsInOrder
  <2>4. kids[p][i] \in fetched' /\ kids[p][j] = item' => i >= j
    <3> SUFFICES ASSUME kids[p][i] \in fetched', kids[p][j] = item', i < j PROVE FALSE
      BY <2>0
    <3>1. kids[p][i] \in fetched
      BY <1>0, <1>1, <2>0, StoryFacts
    <3>2. kids[p][j] \in fetched
      BY <2>1, <3>1 DEF SiblingsInOrder
    <3> QED
      BY <1>4, <3>2
  <2>5. \A a, b \in 1..Len(stack') :
          stack'[a] = kids[p][i] /\ stack'[b] = kids[p][j] /\ i < j => a < b
    BY <1>3, <2>1 DEF SiblingsInOrder
  <2>6. \A a, b \in 1..Len(noderay) :
          noderay[a] = kids[p][i] /\ noderay[b] = kids[p][j] /\ a < b => i > j
    BY <2>1 DEF SiblingsInOrder
  <2> QED
    BY <1>1, <2>2, <2>3, <2>4, <2>5, <2>6 DEF SiblingsInOrder
<1> QED
  BY <1>1, <1>6, <1>9 DEF TreeInv, BuiltInv

LEMMA ReplyTree == Inv /\ TreeInv /\ Reply => TreeInv'
<1> SUFFICES ASSUME Inv, TreeInv, Reply PROVE TreeInv'
  OBVIOUS
<1>0. TypeOK /\ FrontierInv /\ NoderayInv
  BY DEF Inv
<1>1. /\ pc = "request" /\ pc' = "kids"
      /\ noderay' = IF text[item] THEN Append(noderay, item) ELSE noderay
      /\ UNCHANGED <<kids, text, stack, item, fetched, lost, children>>
  BY DEF Reply, server, history
<1>2. Current' = Current /\ Answered' = Answered /\ Current = {item}
  BY <1>1 DEF Current, Answered
<1>3. item \in Items /\ noderay \in Seq(Items) /\ Len(noderay) \in Nat
  BY <1>0, <1>1, LenProperties DEF TypeOK
<1>4. Elements(noderay') = Elements(noderay) \cup (IF text[item] THEN {item} ELSE {})
  BY <1>1, <1>3, PushFacts
<1>5. StoredInv'
  BY <1>1, <1>2, <1>4 DEF TreeInv, StoredInv
<1>6. OrderInv'
  <2> SUFFICES ASSUME NEW p \in Items, NEW i \in 1..Len(kids[p]), NEW j \in 1..Len(kids[p])
               PROVE  SiblingsInOrder(p, i, j)'
    BY <1>1 DEF OrderInv
  <2>0. i \in Nat /\ j \in Nat
    BY <1>0, StoryFacts
  <2>1. SiblingsInOrder(p, i, j)
    BY DEF TreeInv, OrderInv
  <2>2. \A a, b \in 1..Len(noderay') :
          noderay'[a] = kids[p][i] /\ noderay'[b] = kids[p][j] /\ a < b => i > j
    <3>1. CASE ~text[item]
      BY <1>1, <2>1, <3>1 DEF SiblingsInOrder
    <3>2. CASE text[item]
      <4> SUFFICES ASSUME NEW a \in 1..Len(noderay'), NEW b \in 1..Len(noderay'),
                          noderay'[a] = kids[p][i], noderay'[b] = kids[p][j], a < b
                   PROVE  i > j
        OBVIOUS
      <4>1. PICK n \in Nat : n = Len(noderay)
        BY <1>3
      <4>2. /\ Len(noderay') = n + 1
            /\ \A k \in 1..n : noderay'[k] = noderay[k]
            /\ noderay'[n + 1] = item
        BY <1>1, <1>3, <3>2, <4>1, PushFacts
      <4>3. a \in 1..n /\ (b \in 1..n \/ b = n + 1)
        BY <4>2
      <4>4. CASE b \in 1..n
        BY <2>1, <4>1, <4>2, <4>3, <4>4 DEF SiblingsInOrder
      <4>5. CASE b = n + 1
        <5>1. kids[p][i] = noderay[a] /\ kids[p][j] = item
          BY <4>2, <4>3, <4>5
        <5>2. noderay[a] \in fetched /\ noderay[a] # item
          BY <1>0, <1>1, <4>1, <4>3 DEF NoderayInv
        <5>3. i >= j
          BY <1>1, <2>1, <5>1, <5>2 DEF SiblingsInOrder
        <5>4. i # j
          BY <5>1, <5>2
        <5> QED
          BY <2>0, <5>3, <5>4
      <4> QED
        BY <4>3, <4>4, <4>5
    <3> QED
      BY <3>1, <3>2
  <2> QED
    BY <1>1, <1>2, <2>1, <2>2 DEF SiblingsInOrder
<1> QED
  BY <1>1, <1>5, <1>6 DEF TreeInv, BuiltInv

LEMMA QueueKidTree == Inv /\ TreeInv /\ QueueKid => TreeInv'
<1> SUFFICES ASSUME Inv, TreeInv, QueueKid PROVE TreeInv'
  OBVIOUS
<1>0. TypeOK /\ FrontierInv /\ CountInv
  BY DEF Inv
<1>1. /\ pc = "kids" /\ pc' = "kids" /\ ki <= Len(kids[item])
      /\ stack' = Pushed(stack, kids[item][ki])
      /\ UNCHANGED <<kids, text, item, noderay, fetched, lost, children>>
  BY DEF QueueKid, server, history
<1>2. Answered' = Answered /\ item \notin Answered
  BY <1>1 DEF Current, Answered
<1>3. item \in Items /\ Len(kids[item]) \in Nat /\ ki \in 1..(Len(kids[item]) + 1)
  BY <1>0, <1>1, StoryFacts DEF TypeOK, CountInv
<1>4. ki \in 1..Len(kids[item])
  BY <1>1, <1>3
<1>5. PICK kid \in Items : kid = kids[item][ki]
  BY <1>0, <1>3, <1>4, StoryFacts
<1>6. \A p \in Items : \A j \in 1..Len(kids[p]) : kids[p][j] = kid => p = item /\ j = ki
  BY SMTT(30), <1>0, <1>3, <1>4, <1>5, StoryFacts, Zenon
<1>7. StoredInv'
  BY <1>1, <1>2 DEF TreeInv, StoredInv
<1>8. PICK n \in Nat : n = Len(stack)
  BY <1>0, LenProperties DEF TypeOK
<1>9. stack' # stack =>
        /\ Len(stack') = n + 1
        /\ \A k \in 1..n : stack'[k] = stack[k]
        /\ stack'[n + 1] = kid
  BY <1>0, <1>1, <1>5, <1>8, PushFacts DEF Pushed, TypeOK
<1>10. \A j \in 1..Len(kids[item]) : \A b \in 1..n : stack[b] = kids[item][j] => j < ki
  <2> SUFFICES ASSUME NEW j \in 1..Len(kids[item]), NEW b \in 1..n, stack[b] = kids[item][j]
               PROVE  j < ki
    OBVIOUS
  <2>1. kids[item][j] \in Items /\ kids[item][j] # Root
    BY <1>0, <1>3, StoryFacts
  <2>2. kids[item][j] \in Known
    BY <1>8 DEF Known, Elements
  <2>3. PICK p \in Items : \E k \in 1..Len(kids[p]) :
                      kids[p][k] = kids[item][j] /\ Handed(p, k)
    BY <1>0, <2>1, <2>2 DEF FrontierInv
  <2>4. PICK k \in 1..Len(kids[p]) : kids[p][k] = kids[item][j] /\ Handed(p, k)
    BY <2>3
  <2>5. p = item /\ k = j
    BY <1>0, <1>3, <2>4, StoryFacts
  <2> QED
    BY <1>2, <2>4, <2>5 DEF Handed
<1>11. OrderInv'
  <2> SUFFICES ASSUME NEW p \in Items, NEW i \in 1..Len(kids[p]), NEW j \in 1..Len(kids[p])
               PROVE  SiblingsInOrder(p, i, j)'
    BY <1>1 DEF OrderInv
  <2>0. i \in Nat /\ j \in Nat /\ ki \in Nat
    BY <1>0, <1>3, StoryFacts
  <2>1. SiblingsInOrder(p, i, j)
    BY DEF TreeInv, OrderInv
  <2>2. \A a, b \in 1..Len(stack') :
          stack'[a] = kids[p][i] /\ stack'[b] = kids[p][j] /\ i < j => a < b
    <3>1. CASE stack' = stack
      BY <2>1, <3>1 DEF SiblingsInOrder
    <3>2. CASE stack' # stack
      <4> SUFFICES ASSUME NEW a \in 1..Len(stack'), NEW b \in 1..Len(stack'),
                          stack'[a] = kids[p][i], stack'[b] = kids[p][j], i < j
                   PROVE  a < b
        OBVIOUS
      <4>1. (a \in 1..n \/ a = n + 1) /\ (b \in 1..n \/ b = n + 1)
        BY <1>9, <3>2
      <4>2. CASE a \in 1..n /\ b \in 1..n
        BY <1>8, <1>9, <2>1, <3>2, <4>2 DEF SiblingsInOrder
      <4>3. CASE a \in 1..n /\ b = n + 1
        BY <4>3
      <4>4. CASE a = n + 1
        <5>1. kids[p][i] = kid
          BY <1>9, <3>2, <4>4
        <5>2. p = item /\ i = ki
          BY <1>6, <5>1
        <5>3. b \notin 1..n
          BY <1>9, <1>10, <2>0, <3>2, <5>2
        <5>4. kids[p][j] = kid
          BY <1>9, <3>2, <4>1, <5>3
        <5>5. j = ki
          BY <1>6, <5>4
        <5> QED
          BY <2>0, <5>2, <5>5
      <4> QED
        BY <4>1, <4>2, <4>3, <4>4
    <3> QED
      BY <3>1, <3>2
  <2> QED
    BY <1>1, <1>2, <2>1, <2>2 DEF SiblingsInOrder
<1> QED
  BY <1>1, <1>7, <1>11 DEF TreeInv, BuiltInv

LEMMA StepTree == Inv /\ TreeInv /\ [Next]_vars => TreeInv'
<1> SUFFICES ASSUME Inv, TreeInv, [Next]_vars PROVE TreeInv'
  OBVIOUS
<1>0. TypeOK /\ FrontierInv /\ StoredInv /\ OrderInv /\ BuiltInv
  BY DEF Inv, TreeInv
<1>1. CASE Pop
  BY <1>1, PopTree
<1>2. CASE Reply
  BY <1>2, ReplyTree
<1>3. CASE QueueKid
  BY <1>3, QueueKidTree
<1>4. CASE Idle \/ Join \/ NullReply \/ Overflow \/ BuildTree
  <2>1. /\ UNCHANGED <<kids, text, stack, item, noderay, fetched, lost>>
        /\ pc # "kids" /\ pc' # "kids"
        /\ pc' = "request" => pc = "request"
        /\ pc \in {"request", "crashed", "overflow"} <=> pc' \in {"request", "crashed", "overflow"}
    BY <1>4 DEF Idle, Join, NullReply, Overflow, BuildTree, server, history
  <2>2. Answered' = Answered
    BY <2>1 DEF Answered, Current
  <2>3. StoredInv'
    BY <1>0, <2>1, <2>2 DEF StoredInv
  <2>4. OrderInv'
    BY <1>0, <2>1, <2>2, QuietTree
  <2>5. BuiltInv'
    <3>1. CASE BuildTree
      <4>1. children' = [p \in Items |-> ChildrenOf(p)]
        BY <3>1 DEF BuildTree
      <4>2. \A p : ChildrenOf(p)' = ChildrenOf(p)
        BY <2>1 DEF ChildrenOf, Parent
      <4> QED
        BY <4>1, <4>2 DEF BuiltInv
    <3>2. CASE ~BuildTree
      BY <1>4, <3>2 DEF BuiltInv, Idle, Join, NullReply, Overflow
    <3> QED
      BY <3>1, <3>2
  <2> QED
    BY <2>3, <2>4, <2>5 DEF TreeInv
<1>5. CASE RequestFails
  <2>1. /\ pc = "request" /\ pc' = "turn"
        /\ lost' = lost \cup {item}
        /\ UNCHANGED <<kids, text, stack, item, noderay, fetched>>
    BY <1>5 DEF RequestFails, server
  <2>2. Answered' = Answered
    BY <2>1 DEF Answered, Current
  <2>3. StoredInv'
    BY <1>0, <2>1, <2>2 DEF StoredInv
  <2>4. OrderInv'
    BY <1>0, <2>1, <2>2, QuietTree
  <2> QED
    BY <2>1, <2>3, <2>4 DEF TreeInv, BuiltInv
<1>6. CASE KidsDone
  <2>1. /\ pc = "kids" /\ pc' = "turn"
        /\ UNCHANGED <<kids, text, stack, item, noderay, fetched, lost>>
    BY <1>6 DEF KidsDone, server, history
  <2>2. Answered' = Answered \cup {item}
    <3>1. item \in fetched \ lost
      BY <1>0, <2>1 DEF FrontierInv, Current
    <3> QED
      BY <2>1, <3>1 DEF Answered, Current
  <2>3. StoredInv'
    BY <1>0, <2>1, <2>2 DEF StoredInv
  <2>4. OrderInv'
    BY <1>0, <2>1, <2>2, QuietTree
  <2> QED
    BY <2>1, <2>3, <2>4 DEF TreeInv, BuiltInv
<1>7. CASE UNCHANGED vars
  <2>1. UNCHANGED <<kids, text, stack, pc, item, noderay, children, fetched, lost>>
    BY <1>7 DEF vars
  <2>2. Answered' = Answered
    BY <2>1 DEF Answered, Current
  <2>3. StoredInv'
    BY <1>0, <2>1, <2>2 DEF StoredInv
  <2>4. OrderInv'
    BY <1>0, <2>1, <2>2, QuietTree
  <2>5. BuiltInv'
    <3>1. \A p : ChildrenOf(p)' = ChildrenOf(p)
      BY <2>1 DEF ChildrenOf, Parent
    <3> QED
      BY <1>0, <2>1, <3>1 DEF BuiltInv
  <2> QED
    BY <2>3, <2>4, <2>5 DEF TreeInv
<1> QED
  BY <1>1, <1>2, <1>3, <1>4, <1>5, <1>6, <1>7 DEF Next, Work, Ended

(* The tree is made of the answered items with a text, and siblings went   *)
(* through the stack and into noderay in the reverse of their order.       *)
THEOREM TreeInvariant == Spec => []TreeInv
<1> QED
  BY InitTree, StepTree, Invariant, PTL DEF Spec

(* Under each item the tree has its answered kids with a text, all of them *)
(* and nothing else, for every story (comment_tree.c:67-105).              *)
THEOREM TreeIsComplete == Spec => []TreeIsWhatWasAnswered
<1>1. Inv /\ TreeInv => TreeIsWhatWasAnswered
  <2> SUFFICES ASSUME Inv, TreeInv, pc = "built", NEW p \in Items
               PROVE  Elements(children[p]) = {i \in Elements(kids[p]) : i \in Answered /\ text[i]}
    BY DEF TreeIsWhatWasAnswered
  <2>0. TypeOK /\ noderay \in Seq(Items)
    BY DEF Inv, TypeOK
  <2>1. children[p] = ChildrenOf(p)
    BY DEF TreeInv, BuiltInv
  <2>2. PICK r : r = children[p]
    OBVIOUS
  <2>3. Lists(r, p, Len(noderay))
    BY <2>0, <2>1, <2>2, ChildrenFacts
  <2>4. Elements(noderay) = {i \in Answered : text[i]}
    BY DEF TreeInv, StoredInv
  <2>5. \A a \in 1..Len(noderay) : noderay[a] \in Items
    BY <2>0, ElementOfSeq
  <2>6. \A i : i \in Elements(r) <=> i \in Elements(noderay) /\ Parent(i) = p
    <3>1. ASSUME NEW i \in Elements(r)
          PROVE  i \in Elements(noderay) /\ Parent(i) = p
      <4>1. PICK c \in 1..Len(r) : i = r[c]
        BY DEF Elements
      <4>2. PICK a \in 1..Len(noderay) : noderay[a] = r[c] /\ Parent(noderay[a]) = p
        BY <2>3 DEF Lists
      <4> QED
        BY <4>1, <4>2 DEF Elements
    <3>2. ASSUME NEW i \in Elements(noderay), Parent(i) = p
          PROVE  i \in Elements(r)
      <4>1. PICK a \in 1..Len(noderay) : i = noderay[a]
        BY DEF Elements
      <4>2. PICK c \in 1..Len(r) : r[c] = noderay[a]
        BY <2>3, <3>2, <4>1 DEF Lists
      <4> QED
        BY <4>1, <4>2 DEF Elements
    <3> QED
      BY <3>1, <3>2
  <2>7. \A i \in Elements(noderay) : i \in Items
    BY <2>5 DEF Elements
  <2>8. \A i \in Elements(noderay) : Parent(i) = p <=> i \in Elements(kids[p])
    BY <2>0, <2>7, ParentFacts
  <2> QED
    BY <2>2, <2>4, <2>6, <2>8
<1> QED
  BY <1>1, Invariant, TreeInvariant, PTL

(* The tree lists siblings in the reverse of the server's order.           *)
THEOREM SiblingsAreReversed == Spec => []RepliesAreReversed
<1>1. Inv /\ TreeInv => RepliesAreReversed
  <2> SUFFICES ASSUME Inv, TreeInv, pc = "built", NEW p \in Items,
                      NEW c \in 1..Len(children[p]), NEW d \in 1..Len(children[p]),
                      NEW i \in 1..Len(kids[p]), NEW j \in 1..Len(kids[p]),
                      children[p][c] = kids[p][i], children[p][d] = kids[p][j], c < d
               PROVE  i > j
    BY DEF RepliesAreReversed
  <2>1. children[p] = ChildrenOf(p) /\ noderay \in Seq(Items)
    BY DEF Inv, TypeOK, TreeInv, BuiltInv
  <2>2. Lists(children[p], p, Len(noderay))
    BY <2>1, ChildrenFacts
  <2>3. PICK a, b \in 1..Len(noderay) :
          a < b /\ noderay[a] = children[p][c] /\ noderay[b] = children[p][d]
    BY <2>2 DEF Lists
  <2>4. SiblingsInOrder(p, i, j)
    BY DEF TreeInv, OrderInv
  <2> QED
    BY <2>3, <2>4 DEF SiblingsInOrder
<1> QED
  BY <1>1, Invariant, TreeInvariant, PTL

-----------------------------------------------------------------------------
(* The download comes to an end. *)

(* What is left to do: an item never fetched outweighs the walk over any   *)
(* list of kids.                                                           *)
Weight == Cardinality(Items) + 3
Phase == CASE pc = "request" -> Len(kids[item]) + 7
           [] pc = "kids"    -> Len(kids[item]) + 7 - ki
           [] pc = "turn"    -> tries + 2
           [] pc = "joined"  -> 1
           [] OTHER          -> 0
ToDo == Weight * Cardinality(Items \ fetched) + Phase

(* No item has more kids than there are items.                             *)
LEMMA FewKids ==
  ASSUME TypeOK, NEW p \in Items
  PROVE  Len(kids[p]) \in Nat /\ Len(kids[p]) <= Cardinality(Items)
<1>1. kids[p] \in Seq(Items) /\ Len(kids[p]) \in Nat
  BY StoryFacts
<1>2. PICK length \in Nat : length = Len(kids[p])
  BY <1>1
<1>3. kids[p] \in [1..length -> Items]
  BY <1>1, <1>2
<1>4. \A j, k \in 1..length : kids[p][j] = kids[p][k] => j = k
  BY <1>2, StoryFacts
<1>5. kids[p] \in Injection(1..length, Items)
  BY <1>3, <1>4 DEF Injection, IsInjective
<1>6. Cardinality(1..length) <= Cardinality(Items)
  BY <1>5, FS_Injection, DownloaderAssumption
<1>7. Cardinality(1..length) = length
  BY FS_Interval
<1> QED
  BY <1>1, <1>2, <1>6, <1>7

LEMMA Products ==
  ASSUME NEW a \in Nat, NEW b \in Nat
  PROVE  a * b \in Nat /\ a * (b - 1) = a * b - a
OBVIOUS

(* The measure is a natural number, also when a kid is still to come.      *)
LEMMA ToDoFacts ==
  ASSUME Inv
  PROVE  /\ Phase \in Nat /\ ToDo \in Nat
         /\ Cardinality(Items) \in Nat /\ Cardinality(Items \ fetched) \in Nat
<1>1. TypeOK /\ CountInv
  BY DEF Inv
<1>2. IsFiniteSet(Items) /\ IsFiniteSet(Items \ fetched)
  BY DownloaderAssumption, FS_Difference
<1>3. Cardinality(Items) \in Nat /\ Cardinality(Items \ fetched) \in Nat
  BY <1>2, FS_CardinalityType
<1>4. pc \in {"request", "kids"} => Len(kids[item]) \in Nat
  BY <1>1, FewKids DEF TypeOK
<1>5. pc = "kids" => ki \in 1..(Len(kids[item]) + 1)
  BY <1>1 DEF CountInv
<1>6. tries \in 0..3
  BY <1>1 DEF TypeOK
<1>7. Phase \in Nat
  <2>1. CASE pc = "request"
    BY <1>4, <2>1 DEF Phase
  <2>2. CASE pc = "kids"
    BY <1>4, <1>5, <2>2 DEF Phase
  <2>3. CASE pc \notin {"request", "kids"}
    BY <1>6, <2>3 DEF Phase
  <2> QED
    BY <2>1, <2>2, <2>3
<1>8. Weight \in Nat
  BY <1>3 DEF Weight
<1>9. Weight * Cardinality(Items \ fetched) \in Nat
  BY <1>3, <1>8, Products
<1> QED
  BY <1>3, <1>7, <1>9 DEF ToDo

(* A download is paid for with the item it fetches.                        *)
LEMMA PopRunsDown == Inv /\ Pop => ToDo' < ToDo
<1> SUFFICES ASSUME Inv, Pop PROVE ToDo' < ToDo
  OBVIOUS
<1>1. TypeOK /\ FrontierInv /\ TypeOK' /\ Inv'
  BY PopInv DEF Inv
<1>2. /\ pc = "turn" /\ pc' = "request" /\ kids' = kids
      /\ fetched' = fetched \cup {item'} /\ item' = Top(stack) /\ stack # << >>
  BY DEF Pop, server
<1>3. item' \in Items /\ item' \notin fetched
  <2>1. item' \in Items
    BY <1>1, <1>2 DEF TypeOK
  <2>2. Len(stack) \in 1..Len(stack)
    <3>1. Len(stack) \in Nat /\ Len(stack) # 0
      BY <1>1, <1>2, EmptySeq, LenProperties DEF TypeOK
    <3> QED
      BY <3>1
  <2>3. stack[Len(stack)] \notin fetched
    BY <1>1, <2>2 DEF FrontierInv
  <2> QED
    BY <1>2, <2>1, <2>3 DEF Top
<1>4. Items \ fetched' = (Items \ fetched) \ {item'} /\ item' \in Items \ fetched
  BY <1>2, <1>3
<1>5. IsFiniteSet(Items \ fetched)
  BY DownloaderAssumption, FS_Difference
<1>6. Cardinality(Items \ fetched') = Cardinality(Items \ fetched) - 1
  BY <1>4, <1>5, FS_RemoveElement
<1>7. Phase' <= Cardinality(Items) + 7
  BY <1>1, <1>2, <1>3, FewKids, ToDoFacts DEF Phase
<1>8. tries = 3
  BY <1>1, <1>2 DEF Inv, TriesInv, TypeOK
<1>9. Phase = 5
  BY <1>2, <1>8 DEF Phase
<1>10. PICK w \in Nat, r \in Nat : /\ w = Weight /\ r = Cardinality(Items \ fetched)
                                  /\ Phase' <= w + 4
  BY <1>7, ToDoFacts DEF Weight
<1>11. Weight' = w /\ Cardinality(Items \ fetched') = r - 1
  BY <1>6, <1>10 DEF Weight
<1>12. PICK u \in Nat : u = w * r /\ w * (r - 1) = u - w
  BY Products
<1>13. PICK a \in Nat : a = Phase' /\ a <= w + 4
  <2>1. Phase' \in Nat
    BY <1>1, <1>2, <1>3, FewKids DEF Phase
  <2> QED
    BY <1>10, <2>1
<1>14. ToDo' = (u - w) + a
  BY <1>11, <1>12, <1>13, Zenon DEF ToDo
<1>15. ToDo = u + 5
  BY <1>9, <1>10, <1>12, Zenon DEF ToDo
<1>16. \A x, y, z \in Nat : z <= y + 4 => (x - y) + z < x + 5
  OBVIOUS
<1> QED
  BY <1>12, <1>13, <1>14, <1>15, <1>16, Zenon

(* Between two downloads every step moves on.                              *)
LEMMA WithoutPop ==
  ASSUME Inv, fetched' = fetched, Phase' \in Nat, Phase' < Phase
  PROVE  ToDo' < ToDo
<1>1. PICK u \in Nat : u = Weight * Cardinality(Items \ fetched)
  <2>1. Weight \in Nat /\ Cardinality(Items \ fetched) \in Nat
    BY ToDoFacts DEF Weight
  <2> QED
    BY <2>1, Products
<1>2. Weight' = Weight
  BY DEF Weight
<1>3. ToDo' = u + Phase' /\ ToDo = u + Phase
  BY <1>1, <1>2, Zenon DEF ToDo
<1> QED
  BY <1>1, <1>3, ToDoFacts

LEMMA StepRunsDown == Inv /\ Next => ToDo' < ToDo \/ UNCHANGED vars
<1> SUFFICES ASSUME Inv, Next PROVE ToDo' < ToDo \/ UNCHANGED vars
  OBVIOUS
<1>1. TypeOK /\ CountInv /\ TriesInv
  BY DEF Inv
<1>2. pc \in {"request", "kids"} => item \in Items /\ Len(kids[item]) \in Nat
  BY <1>1, FewKids DEF TypeOK
<1>3. tries \in 0..3 /\ ki \in Nat
  BY <1>1 DEF TypeOK
<1>4. pc = "kids" => ki <= Len(kids[item]) + 1
  BY <1>1, <1>2 DEF CountInv
<1>5. CASE Pop
  BY <1>5, PopRunsDown
<1>6. ASSUME \/ Idle \/ RequestFails \/ NullReply \/ Reply \/ Overflow
             \/ QueueKid \/ KidsDone \/ Join \/ BuildTree
      PROVE  ToDo' < ToDo
  <2>1. fetched' = fetched /\ kids' = kids
    BY <1>6 DEF Idle, RequestFails, NullReply, Reply, Overflow, QueueKid, KidsDone, Join,
                BuildTree, server, history
  <2>2. Phase' \in Nat /\ Phase' < Phase
    <3>1. CASE Idle
      BY <1>3, <3>1 DEF Idle, Phase
    <3>2. CASE RequestFails \/ NullReply \/ Overflow
      BY <1>2, <1>3, <3>2 DEF RequestFails, NullReply, Overflow, Phase
    <3>3. CASE Reply
      BY <1>2, <2>1, <3>3 DEF Reply, Phase
    <3>4. CASE QueueKid
      BY <1>2, <1>3, <1>4, <2>1, <3>4 DEF QueueKid, Phase
    <3>5. CASE KidsDone
      BY <1>2, <1>3, <1>4, <3>5 DEF KidsDone, Phase
    <3>6. CASE Join \/ BuildTree
      BY <1>3, <3>6 DEF Join, BuildTree, Phase
    <3> QED
      BY <1>6, <3>1, <3>2, <3>3, <3>4, <3>5, <3>6
  <2> QED
    BY <2>1, <2>2, WithoutPop
<1>7. Next => \/ Pop \/ Ended
              \/ Idle \/ RequestFails \/ NullReply \/ Reply \/ Overflow
              \/ QueueKid \/ KidsDone \/ Join \/ BuildTree
  BY DEF Next, Work
<1>8. Ended => UNCHANGED vars
  BY DEF Ended
<1> QED
  BY <1>5, <1>6, <1>7, <1>8

(* The safety half of DownloadEnds: every step of the worker and of main   *)
(* lowers a number that is never below 0, so that a story costs no more    *)
(* steps than ToDo says at the start, whatever is listed in it and         *)
(* whichever requests fail.  The step that pops an item may lengthen the   *)
(* queue by any number of kids; it is paid for by the item, which is never *)
(* popped again.                                                           *)
THEOREM DownloadRunsDown == Spec => [](ToDo \in Nat) /\ [][ToDo' < ToDo]_vars
<1>1. Inv => ToDo \in Nat
  BY ToDoFacts
<1>2. Inv /\ [Next]_vars => [ToDo' < ToDo]_vars
  BY StepRunsDown
<1> QED
  BY <1>1, <1>2, Invariant, PTL DEF Spec
=============================================================================
