---------------------------- MODULE NewsBlurProofs ----------------------------
(***************************************************************************)
(* Proofs about NewsBlur for any length of a page and any number of        *)
(* stories, arrivals and reads.                                            *)
(***************************************************************************)
EXTENDS NewsBlur, SequenceTheorems, FiniteSetTheorems, TLAPS

-----------------------------------------------------------------------------
(* Sequences and their elements. *)

(* A sequence has finitely many elements, and as many as its length when   *)
(* it holds none twice.                                                    *)
LEMMA ElementsFinite ==
  ASSUME NEW S, NEW s \in Seq(S)
  PROVE  /\ IsFiniteSet(Elements(s))
         /\ Cardinality(Elements(s)) <= Len(s)
         /\ (\A j, k \in 1..Len(s) : s[j] = s[k] => j = k)
              => Cardinality(Elements(s)) = Len(s)
<1>1. Len(s) \in Nat /\ s \in [1..Len(s) -> Elements(s)]
  BY LenProperties DEF Elements
<1>2. IsFiniteSet(1..Len(s)) /\ Cardinality(1..Len(s)) = Len(s)
  BY <1>1, FS_Interval
<1>3. s \in Surjection(1..Len(s), Elements(s))
  BY <1>1 DEF Surjection, Elements
<1>4. /\ IsFiniteSet(Elements(s))
      /\ Cardinality(Elements(s)) <= Cardinality(1..Len(s))
      /\ Cardinality(Elements(s)) = Cardinality(1..Len(s))
           <=> s \in Injection(1..Len(s), Elements(s))
  BY <1>2, <1>3, FS_Surjection
<1>5. (\A j, k \in 1..Len(s) : s[j] = s[k] => j = k)
        => s \in Injection(1..Len(s), Elements(s))
  BY <1>1 DEF Injection, IsInjective
<1> QED
  BY <1>2, <1>4, <1>5

(* The elements of two sequences joined are those of both.                 *)
LEMMA ElementsOfConcat ==
  ASSUME NEW S, NEW s \in Seq(S), NEW t \in Seq(S)
  PROVE  Elements(s \o t) = Elements(s) \cup Elements(t)
<1>1. /\ Len(s) \in Nat /\ Len(t) \in Nat
      /\ Len(s \o t) = Len(s) + Len(t)
      /\ \A i \in 1..(Len(s) + Len(t)) : (s \o t)[i] = IF i <= Len(s) THEN s[i] ELSE t[i - Len(s)]
  BY ConcatProperties, LenProperties
<1>2. \A k \in 1..Len(s) : (s \o t)[k] = s[k] /\ k \in 1..(Len(s) + Len(t))
  BY <1>1
<1>3. \A k \in 1..Len(t) : /\ (s \o t)[Len(s) + k] = t[k]
                           /\ Len(s) + k \in 1..(Len(s) + Len(t))
  <2> TAKE k \in 1..Len(t)
  <2>1. Len(s) + k \in 1..(Len(s) + Len(t)) /\ ~(Len(s) + k <= Len(s))
        /\ (Len(s) + k) - Len(s) = k
    BY <1>1
  <2> QED
    BY <1>1, <2>1
<1>4. \A k \in 1..(Len(s) + Len(t)) : k \in 1..Len(s) \/ (k - Len(s) \in 1..Len(t) /\ ~(k <= Len(s)))
  BY <1>1
<1>5. ASSUME NEW x \in Elements(s \o t) PROVE x \in Elements(s) \cup Elements(t)
  <2>1. PICK k \in 1..(Len(s) + Len(t)) : x = (s \o t)[k]
    BY <1>1 DEF Elements
  <2> QED
    BY <1>1, <1>4, <2>1 DEF Elements
<1>6. ASSUME NEW x \in Elements(s) PROVE x \in Elements(s \o t)
  BY <1>1, <1>2 DEF Elements
<1>7. ASSUME NEW x \in Elements(t) PROVE x \in Elements(s \o t)
  <2>1. PICK k \in 1..Len(t) : x = t[k]
    BY DEF Elements
  <2> QED
    BY <1>1, <1>3, <2>1 DEF Elements
<1> QED
  BY <1>5, <1>6, <1>7

(* One more element makes a set larger by one at most.                     *)
LEMMA OneMore ==
  ASSUME NEW S, NEW T, NEW x, IsFiniteSet(S), T \subseteq S \cup {x}
  PROVE  /\ IsFiniteSet(T)
         /\ Cardinality(T) <= Cardinality(S) + 1
         /\ Cardinality(T) \in Nat /\ Cardinality(S) \in Nat
<1>1. /\ IsFiniteSet(S \cup {x})
      /\ Cardinality(S \cup {x}) = IF x \in S THEN Cardinality(S) ELSE Cardinality(S) + 1
      /\ Cardinality(S) \in Nat
  BY FS_AddElement, FS_CardinalityType
<1>2. IsFiniteSet(T) /\ Cardinality(T) <= Cardinality(S \cup {x})
  BY <1>1, FS_Subset
<1>3. Cardinality(T) \in Nat /\ Cardinality(S \cup {x}) \in Nat
  BY <1>1, <1>2, FS_CardinalityType
<1> QED
  BY <1>1, <1>2, <1>3

LEMMA SmallerIs ==
  ASSUME NEW a \in Int, NEW b \in Int
  PROVE  /\ Smaller(a, b) \in Int
         /\ Smaller(a, b) <= a /\ Smaller(a, b) <= b
         /\ Smaller(a, b) = a \/ Smaller(a, b) = b
BY DEF Smaller

-----------------------------------------------------------------------------
(* The line between what was asked for and what was not. *)

(* The line goes down by a page with every request.                        *)
LEMMA AskedFacts ==
  ASSUME page \in Nat \ {0}
  PROVE  /\ Asked \in Nat
         /\ page' = page + 1 => Asked' = Asked + PageSize
         /\ page' = page => Asked' = Asked
         /\ page * PageSize = Asked + PageSize
         /\ page = 1 => Asked = 0
<1>1. PageSize \in Nat \ {0}
  BY NewsBlurAssumption
<1>2. (page - 1) * PageSize \in Nat
  <2>1. page - 1 \in Nat
    OBVIOUS
  <2> QED
    BY <1>1, <2>1, SMT
<1>3. page * PageSize = (page - 1) * PageSize + PageSize
  BY <1>1, SMT
<1>4. page' = page + 1 => (page' - 1) * PageSize = page * PageSize
  BY <1>1
<1>5. page = 1 => (page - 1) * PageSize = 0
  BY <1>1
<1> QED
  BY <1>2, <1>3, <1>4, <1>5 DEF Asked

(* The finite sets the invariant counts.                                   *)
LEMMA SetsFinite ==
  ASSUME StoriesInv, HeadInv
  PROVE  /\ IsFiniteSet(Fetched)
         /\ IsFiniteSet(Fetched \cap Below)
         /\ IsFiniteSet((first \cap Above) \ Fetched)
<1>1. IsFiniteSet(Fetched)
  BY ElementsFinite DEF HeadInv, Fetched
<1>2. IsFiniteSet(Fetched \cap Below)
  BY <1>1, FS_Intersection
<1>3. IsFiniteSet(first)
  <2>1. MaxUnread \in Nat
    BY NewsBlurAssumption
  <2>2. IsFiniteSet(1..MaxUnread)
    BY <2>1, FS_Interval
  <2> QED
    BY <2>2, FS_Subset DEF StoriesInv
<1>4. IsFiniteSet((first \cap Above) \ Fetched)
  BY <1>3, FS_Subset
<1> QED
  BY <1>1, <1>2, <1>4

LEMMA InitInv == Init => Inv
<1> SUFFICES ASSUME Init PROVE Inv
  OBVIOUS
<1>1. MaxUnread \in Nat /\ PageSize \in Nat
  BY NewsBlurAssumption
<1>2. PICK n \in 0..MaxUnread : unread = [k \in 1..n |-> n + 1 - k]
  BY DEF Init
<1>3. /\ unread \in Seq(1..MaxUnread) /\ Len(unread) = n
      /\ \A k \in 1..n : unread[k] = n + 1 - k
  <2>1. \A k \in 1..n : n + 1 - k \in 1..MaxUnread
    BY <1>1
  <2>2. n \in Nat
    BY <1>1
  <2> QED
    BY <1>2, <2>1, <2>2
<1>4. StoriesInv
  <2>1. \A j, k \in 1..Len(unread) : unread[j] = unread[k] => j = k
    BY <1>1, <1>3
  <2>2. first \subseteq 1..MaxUnread
    BY <1>3, ElementOfSeq DEF Init, Elements
  <2>3. arrivals = 0 /\ MaxUnread + arrivals = MaxUnread
    BY <1>1 DEF Init
  <2>4. page \in Nat \ {0} /\ arrivals \in Nat /\ reads \in Nat
    BY DEF Init
  <2>5. failed \in BOOLEAN
    BY DEF Init
  <2> QED
    BY <1>3, <2>1, <2>2, <2>3, <2>4, <2>5 DEF StoriesInv
<1>5. head = <<0>> /\ Len(head) = 1 /\ Fetched = {0}
  <2>1. head = <<0>>
    BY DEF Init, Blank
  <2>2. Len(head) = 1 /\ head[1] = 0
    BY <2>1
  <2> QED
    BY <2>1, <2>2 DEF Fetched, Elements
<1>6. HeadInv
  <2>1. head \in Seq(0..(MaxUnread + arrivals))
    BY <1>1, <1>5 DEF Init
  <2> QED
    BY <2>1, <1>5 DEF Init, HeadInv, Blank
<1>7. Cardinality(Fetched) = 1
  BY <1>5, FS_Singleton
<1>8. Fetched \cap Below = {}
  <2>1. page = 1 /\ Asked = 0
    BY <1>4, AskedFacts DEF Init, StoriesInv
  <2>2. \A k \in (Asked + 1)..Len(unread) : unread[k] # 0
    BY <1>1, <1>3, <2>1
  <2> QED
    BY <1>5, <2>2 DEF Below
<1>9. Above = {}
  <2>1. page = 1 /\ Asked = 0
    BY <1>4, AskedFacts DEF Init, StoriesInv
  <2>2. Len(unread) \in Nat
    BY <1>3, LenProperties
  <2>3. Smaller(Asked, Len(unread)) = 0
    BY <2>1, <2>2 DEF Smaller
  <2> QED
    BY <2>3 DEF Above
<1>10. ShiftInv
  <2>1. Repeated = 0
    BY <1>5, <1>7 DEF Repeated
  <2>2. Cardinality(Fetched \cap Below) = 0 /\ Cardinality((first \cap Above) \ Fetched) = 0
    BY <1>8, <1>9, FS_EmptySet
  <2> QED
    BY <2>1, <2>2 DEF ShiftInv, Init
<1> QED
  BY <1>4, <1>6, <1>10 DEF Inv

-----------------------------------------------------------------------------
(* What Page answers: the stories just below the line. *)

LEMMA PageFacts ==
  ASSUME StoriesInv
  PROVE  LET p == Page(page)
         IN  /\ p \in Seq(1..(MaxUnread + arrivals))
             /\ \A j, k \in 1..Len(p) : p[j] = p[k] => j = k
             /\ Elements(p) = {unread[k] : k \in (Asked + 1)..Smaller(Asked + PageSize, Len(unread))}
             /\ p = << >> => Len(unread) <= Asked
<1> DEFINE p == Page(page)
           last == Smaller(Asked + PageSize, Len(unread))
<1>1. /\ Asked \in Nat /\ page * PageSize = Asked + PageSize
      /\ (page - 1) * PageSize = Asked
  BY AskedFacts DEF StoriesInv, Asked
<1>2. PageSize \in Nat \ {0} /\ Len(unread) \in Nat
  BY NewsBlurAssumption, LenProperties DEF StoriesInv
<1>3. last \in Int /\ last <= Len(unread) /\ last <= Asked + PageSize
      /\ (last = Len(unread) \/ last = Asked + PageSize)
  BY <1>1, <1>2, SmallerIs
<1>4. p = SubSeq(unread, Asked + 1, last)
  BY <1>1 DEF Page
<1> HIDE DEF last, p
<1>5. \A k \in (Asked + 1)..last : k \in 1..Len(unread)
  BY <1>1, <1>2, <1>3
<1>6. \A k \in (Asked + 1)..last : unread[k] \in 1..(MaxUnread + arrivals)
  BY <1>5, ElementOfSeq DEF StoriesInv
<1>7. /\ p \in Seq(1..(MaxUnread + arrivals))
      /\ Len(p) = IF Asked + 1 <= last THEN last - (Asked + 1) + 1 ELSE 0
      /\ \A k \in 1..(last - (Asked + 1) + 1) : p[k] = unread[Asked + 1 + k - 1]
  <2>1. Asked + 1 \in Int /\ last \in Int
    BY <1>1, <1>3
  <2> QED
    BY <1>4, <1>6, <2>1, SubSeqProperties
<1>8. \A k \in 1..Len(p) : p[k] = unread[Asked + k] /\ Asked + k \in (Asked + 1)..last
  <2> TAKE k \in 1..Len(p)
  <2>1. k \in 1..(last - (Asked + 1) + 1) /\ Asked + 1 + k - 1 = Asked + k
        /\ Asked + k \in (Asked + 1)..last
    BY <1>1, <1>3, <1>7
  <2> QED
    BY <1>7, <2>1
<1>9. \A j, k \in 1..Len(p) : p[j] = p[k] => j = k
  <2> SUFFICES ASSUME NEW j \in 1..Len(p), NEW k \in 1..Len(p), p[j] = p[k] PROVE j = k
    OBVIOUS
  <2>1. Asked + j = Asked + k
    BY <1>5, <1>8 DEF StoriesInv
  <2> QED
    BY <1>1, <1>7, <2>1
<1>10. Elements(p) = {unread[k] : k \in (Asked + 1)..last}
  <2>1. \A k \in (Asked + 1)..last : k - Asked \in 1..Len(p) /\ Asked + (k - Asked) = k
    BY <1>1, <1>3, <1>7
  <2>2. \A x \in {unread[k] : k \in (Asked + 1)..last} : x \in Elements(p)
    BY <1>8, <2>1 DEF Elements
  <2>3. \A x \in Elements(p) : x \in {unread[k] : k \in (Asked + 1)..last}
    BY <1>8 DEF Elements
  <2> QED
    BY <2>2, <2>3
<1>11. p = << >> => Len(unread) <= Asked
  <2>1. p = << >> => Len(p) = 0
    OBVIOUS
  <2> QED
    BY <1>1, <1>2, <1>3, <1>7, <2>1
<1> QED
  BY <1>7, <1>9, <1>10, <1>11 DEF p, last

(* A request moves the page just below the line above it.                  *)
LEMMA LineMoves ==
  ASSUME StoriesInv, page' = page + 1, unread' = unread
  PROVE  /\ Below = Elements(Page(page)) \cup Below'
         /\ Elements(Page(page)) \cap Below' = {}
         /\ Above' \subseteq Above \cup Elements(Page(page))
         /\ Page(page) = << >> => Below = {} /\ Below' = {}
<1> DEFINE last == Smaller(Asked + PageSize, Len(unread))
<1>1. /\ Asked \in Nat /\ Asked' = Asked + PageSize
  BY AskedFacts DEF StoriesInv
<1>2. PageSize \in Nat \ {0} /\ Len(unread) \in Nat
  BY NewsBlurAssumption, LenProperties DEF StoriesInv
<1>3. last \in Int /\ last <= Len(unread) /\ last <= Asked + PageSize
      /\ (last = Len(unread) \/ last = Asked + PageSize)
  <2>1. Asked + PageSize \in Int /\ Len(unread) \in Int
    BY <1>1, <1>2
  <2> QED
    BY <2>1, SmallerIs
<1>4. Elements(Page(page)) = {unread[k] : k \in (Asked + 1)..last}
  BY PageFacts
<1>5. Page(page) = << >> => Len(unread) <= Asked
  BY PageFacts
<1>6. /\ Below = {unread[k] : k \in (Asked + 1)..Len(unread)}
      /\ Below' = {unread[k] : k \in (Asked + PageSize + 1)..Len(unread)}
      /\ Above' = {unread[k] : k \in 1..last}
  BY <1>1 DEF Below, Above
<1>7. Above = {unread[k] : k \in 1..Smaller(Asked, Len(unread))}
  BY DEF Above
<1> HIDE DEF last
<1>8. Below = Elements(Page(page)) \cup Below'
  <2>1. \A k \in (Asked + 1)..Len(unread) :
          k \in (Asked + 1)..last \/ k \in (Asked + PageSize + 1)..Len(unread)
    BY <1>1, <1>2, <1>3
  <2>2. \A k : k \in (Asked + 1)..last \/ k \in (Asked + PageSize + 1)..Len(unread)
              => k \in (Asked + 1)..Len(unread)
    BY <1>1, <1>2, <1>3
  <2> QED
    BY <1>4, <1>6, <2>1, <2>2
<1>9. Elements(Page(page)) \cap Below' = {}
  <2> SUFFICES ASSUME NEW j \in (Asked + 1)..last, NEW k \in (Asked + PageSize + 1)..Len(unread),
                      unread[j] = unread[k]
               PROVE  FALSE
    BY <1>4, <1>6
  <2>1. j \in 1..Len(unread) /\ k \in 1..Len(unread) /\ j # k
    BY <1>1, <1>2, <1>3
  <2> QED
    BY <2>1 DEF StoriesInv
<1>10. Above' \subseteq Above \cup Elements(Page(page))
  <2>1. Smaller(Asked, Len(unread)) = IF Asked < Len(unread) THEN Asked ELSE Len(unread)
    BY DEF Smaller
  <2>2. \A k \in 1..last : k \in 1..Smaller(Asked, Len(unread)) \/ k \in (Asked + 1)..last
    BY <1>1, <1>2, <1>3, <2>1
  <2> QED
    BY <1>4, <1>6, <1>7, <2>2
<1>11. Page(page) = << >> => Below = {} /\ Below' = {}
  <2>1. Len(unread) <= Asked => (Asked + 1)..Len(unread) = {} /\ (Asked + PageSize + 1)..Len(unread) = {}
    BY <1>1, <1>2
  <2> QED
    BY <1>5, <1>6, <2>1
<1> QED
  BY <1>8, <1>9, <1>10, <1>11

(* What NewsBlurArticles makes of the list.                                *)
LEMMA ReceivedFacts ==
  ASSUME StoriesInv, HeadInv, pc = "page",
         NEW stories \in Seq(1..(MaxUnread + arrivals)), Received(stories)
  PROVE  /\ head' = IF page = 1 THEN stories ELSE head \o stories
         /\ head' \in Seq(0..(MaxUnread + arrivals))
         /\ Blank \notin Fetched'
         /\ stories # << >> => head' # << >>
         /\ Fetched' = IF page = 1 THEN Elements(stories) ELSE Fetched \cup Elements(stories)
<1> DEFINE S == 0..(MaxUnread + arrivals)
           all == head \o stories
<1>1. stories \in Seq(S) /\ head \in Seq(S) /\ Blank \in S /\ Blank = 0
  <2>1. 1..(MaxUnread + arrivals) \subseteq S /\ 0 \in S
    BY NewsBlurAssumption DEF StoriesInv
  <2> QED
    BY <2>1, SeqMonotonic DEF HeadInv, Blank
<1>2. Blank \notin Elements(stories)
  <2>1. \A k \in 1..Len(stories) : stories[k] \in 1..(MaxUnread + arrivals)
    BY ElementOfSeq
  <2>2. \A k \in 1..Len(stories) : stories[k] # 0
    BY <2>1, NewsBlurAssumption DEF StoriesInv
  <2> QED
    BY <2>2 DEF Elements, Blank
<1>3. head' = IF Head(all) = Blank THEN Tail(all) ELSE all
  BY DEF Received
<1> HIDE DEF S
<1>4. CASE page = 1
  <2>1. head = <<Blank>>
    BY <1>4 DEF HeadInv
  <2>2. Head(all) = Blank /\ Tail(all) = stories
    <3>1. all \in Seq(S) /\ Len(all) = 1 + Len(stories)
          /\ \A i \in 1..(1 + Len(stories)) : all[i] = IF i <= 1 THEN <<Blank>>[i] ELSE stories[i - 1]
      BY <1>1, <2>1, ConcatProperties
    <3>2. Len(stories) \in Nat
      BY <1>1, LenProperties
    <3>3. all # << >> /\ all[1] = Blank
      BY <3>1, <3>2
    <3>4. /\ Tail(all) \in Seq(S) /\ Len(Tail(all)) = Len(stories)
          /\ \A i \in 1..Len(stories) : Tail(all)[i] = all[i + 1]
      BY <3>1, <3>2, <3>3, HeadTailProperties
    <3>5. \A i \in 1..Len(stories) : Tail(all)[i] = stories[i]
      BY <3>1, <3>2, <3>4
    <3>6. Tail(all) = stories
      BY <1>1, <3>4, <3>5, SeqEqual
    <3>7. Head(all) = all[1]
      BY <3>1, <3>3
    <3> QED
      BY <3>3, <3>6, <3>7
  <2>3. head' = stories
    BY <1>3, <2>2
  <2>4. Fetched' = Elements(stories)
    BY <2>3 DEF Fetched
  <2> QED
    BY <1>1, <1>2, <1>4, <2>3, <2>4 DEF S
<1>5. CASE page # 1
  <2>1. head # << >> /\ Blank \notin Fetched
    BY <1>5 DEF HeadInv
  <2>2. /\ all \in Seq(S) /\ Len(all) = Len(head) + Len(stories)
        /\ \A i \in 1..(Len(head) + Len(stories)) : all[i] = IF i <= Len(head) THEN head[i] ELSE stories[i - Len(head)]
    BY <1>1, ConcatProperties
  <2>3. Len(head) \in Nat \ {0} /\ Len(stories) \in Nat
    BY <1>1, <2>1, EmptySeq, LenProperties
  <2>4. Head(all) = head[1] /\ head[1] \in Fetched /\ all # << >>
    <3>1. all[1] = head[1] /\ all # << >>
      BY <2>2, <2>3
    <3>2. 1 \in 1..Len(head)
      BY <2>3
    <3> QED
      BY <2>2, <3>1, <3>2 DEF Fetched, Elements
  <2>5. head' = all
    BY <1>3, <2>1, <2>4
  <2>6. Fetched' = Fetched \cup Elements(stories)
    BY <1>1, <2>5, ElementsOfConcat DEF Fetched
  <2> QED
    BY <1>1, <1>2, <1>5, <2>1, <2>2, <2>4, <2>5, <2>6 DEF S
<1> QED
  BY <1>4, <1>5

LEMMA PageArrivesInv == Inv /\ PageArrives => Inv'
<1> SUFFICES ASSUME Inv, PageArrives PROVE Inv'
  OBVIOUS
<1>0. StoriesInv /\ HeadInv /\ ShiftInv
  BY DEF Inv
<1> DEFINE p == Page(page)
           M == MaxUnread + arrivals
<1>1. pc = "page" /\ Received(p) /\ UNCHANGED <<unread, arrivals, reads, failed, first>>
  BY DEF PageArrives, history
<1>2. /\ p \in Seq(1..M)
      /\ \A j, k \in 1..Len(p) : p[j] = p[k] => j = k
  BY <1>0, PageFacts
<1>3. page' = page + 1 /\ pc' = IF p = << >> THEN "write" ELSE "page"
  BY <1>1 DEF Received
<1> HIDE DEF p
<1>4. /\ head' = IF page = 1 THEN p ELSE head \o p
      /\ head' \in Seq(0..M)
      /\ Blank \notin Fetched'
      /\ p # << >> => head' # << >>
      /\ Fetched' = IF page = 1 THEN Elements(p) ELSE Fetched \cup Elements(p)
  BY <1>0, <1>1, <1>2, ReceivedFacts
<1>5. /\ Below = Elements(p) \cup Below'
      /\ Elements(p) \cap Below' = {}
      /\ Above' \subseteq Above \cup Elements(p)
      /\ p = << >> => Below = {} /\ Below' = {}
  BY <1>0, <1>1, <1>3, LineMoves DEF p
<1>6. IsFiniteSet(Elements(p)) /\ Cardinality(Elements(p)) = Len(p) /\ Len(p) \in Nat
  BY <1>2, ElementsFinite, LenProperties
<1>7. StoriesInv'
  BY <1>0, <1>1, <1>3 DEF StoriesInv
<1>8. HeadInv'
  <2>1. page' # 1
    BY <1>0, <1>3 DEF StoriesInv
  <2>2. pc' \in {"login", "feeds", "page"} => p # << >>
    BY <1>3
  <2>3. head' \in Seq(0..(MaxUnread + arrivals'))
    BY <1>1, <1>4
  <2> QED
    BY <1>4, <2>1, <2>2, <2>3 DEF HeadInv
<1>9. ShiftInv'
  <2> SUFFICES ASSUME ~failed PROVE ShiftInv'
    BY <1>1 DEF ShiftInv
  <2>0. /\ Repeated + Cardinality(Fetched \cap Below) <= arrivals
        /\ Cardinality((first \cap Above) \ Fetched) <= reads
    BY <1>0 DEF ShiftInv
  <2>1. Repeated' + Cardinality(Fetched' \cap Below') <= arrivals
    <3>1. CASE page = 1
      <4>1. head' = p /\ Fetched' = Elements(p)
        BY <1>4, <3>1
      <4>2. Repeated' = 0
        BY <1>6, <4>1 DEF Repeated
      <4>3. Cardinality(Fetched' \cap Below') = 0
        BY <1>5, <4>1, FS_EmptySet
      <4> QED
        BY <1>0, <4>2, <4>3 DEF StoriesInv
    <3>2. CASE page # 1
      <4>1. head' = head \o p /\ Fetched' = Fetched \cup Elements(p)
        BY <1>4, <3>2
      <4>2. Len(head') = Len(head) + Len(p) /\ Len(head) \in Nat
        <5>1. p \in Seq(0..M) /\ head \in Seq(0..M)
          <6>1. 1..M \subseteq 0..M
            BY NewsBlurAssumption, <1>0 DEF StoriesInv
          <6>2. p \in Seq(0..M)
            BY <1>2, <6>1, SeqMonotonic
          <6> QED
            BY <1>0, <6>2 DEF HeadInv
        <5> QED
          BY <4>1, <5>1, ConcatProperties, LenProperties
      <4>3. IsFiniteSet(Fetched) /\ IsFiniteSet(Fetched \cap Below)
        BY <1>0, SetsFinite
      <4>4. /\ Cardinality(Fetched') = Cardinality(Fetched) + Cardinality(Elements(p))
                                          - Cardinality(Fetched \cap Elements(p))
            /\ IsFiniteSet(Fetched')
        BY <1>6, <4>1, <4>3, FS_Union
      <4>5. IsFiniteSet(Fetched \cap Elements(p)) /\ IsFiniteSet(Fetched \cap Below')
        BY <4>3, FS_Intersection
      <4>6. Fetched' \cap Below' = Fetched \cap Below'
        BY <1>5, <4>1
      <4>7. /\ Fetched \cap Below = (Fetched \cap Elements(p)) \cup (Fetched \cap Below')
            /\ (Fetched \cap Elements(p)) \cap (Fetched \cap Below') = {}
        BY <1>5
      <4>8. Cardinality(Fetched \cap Below) = Cardinality(Fetched \cap Elements(p))
                                                + Cardinality(Fetched \cap Below') - 0
        BY <4>5, <4>7, FS_Union, FS_EmptySet
      <4>9. /\ Cardinality(Fetched) \in Nat /\ Cardinality(Fetched') \in Nat
            /\ Cardinality(Fetched \cap Elements(p)) \in Nat
            /\ Cardinality(Fetched \cap Below') \in Nat
        BY <4>3, <4>4, <4>5, FS_CardinalityType
      <4>10. /\ Repeated' = Len(head') - Cardinality(Fetched')
             /\ Repeated = Len(head) - Cardinality(Fetched)
        BY DEF Repeated
      <4>11. arrivals \in Nat
        BY <1>0 DEF StoriesInv
      <4>12. Repeated' + Cardinality(Fetched' \cap Below')
               = Repeated + Cardinality(Fetched \cap Below)
        <5>1. Cardinality(Fetched' \cap Below') = Cardinality(Fetched \cap Below')
          BY <4>6
        <5>2. Repeated' = Repeated + Cardinality(Fetched \cap Elements(p))
          BY SMTT(30), <1>6, <4>2, <4>4, <4>9, <4>10
        <5>3. Repeated \in Int
          BY <4>2, <4>9, <4>10
        <5> QED
          BY <4>8, <4>9, <5>1, <5>2, <5>3
      <4> QED
        BY <2>0, <4>12
    <3> QED
      BY <3>1, <3>2
  <2>2. Cardinality((first \cap Above') \ Fetched') <= reads
    <3>1. (first \cap Above') \ Fetched' \subseteq (first \cap Above) \ Fetched
      <4>1. CASE page # 1
        BY <1>4, <1>5, <4>1
      <4>2. CASE page = 1
        <5>1. Above = {}
          <6>1. Asked = 0
            BY <1>0, <4>2, AskedFacts DEF StoriesInv
          <6>2. Len(unread) \in Nat
            BY <1>0, LenProperties DEF StoriesInv
          <6>3. Smaller(Asked, Len(unread)) = 0
            BY <6>1, <6>2 DEF Smaller
          <6> QED
            BY <6>3 DEF Above
        <5> QED
          BY <1>4, <1>5, <4>2, <5>1
      <4> QED
        BY <4>1, <4>2
    <3>2. IsFiniteSet((first \cap Above) \ Fetched)
      BY <1>0, SetsFinite
    <3>3. /\ Cardinality((first \cap Above') \ Fetched') <= Cardinality((first \cap Above) \ Fetched)
          /\ IsFiniteSet((first \cap Above') \ Fetched')
      BY <3>1, <3>2, FS_Subset
    <3>4. /\ Cardinality((first \cap Above') \ Fetched') \in Nat
          /\ Cardinality((first \cap Above) \ Fetched) \in Nat /\ reads \in Nat
      BY <1>0, <3>2, <3>3, FS_CardinalityType DEF StoriesInv
    <3> QED
      BY <2>0, <3>3, <3>4
  <2>3. pc' \in {"write", "done"} => Below' = {}
    BY <1>3, <1>5
  <2> QED
    BY <1>1, <2>1, <2>2, <2>3 DEF ShiftInv
<1> QED
  BY <1>7, <1>8, <1>9 DEF Inv

LEMMA PageFailsInv == Inv /\ PageFails => Inv'
<1> SUFFICES ASSUME Inv, PageFails PROVE Inv'
  OBVIOUS
<1>0. StoriesInv /\ HeadInv
  BY DEF Inv
<1>1. /\ pc = "page" /\ Received(<< >>) /\ failed' = TRUE
      /\ UNCHANGED <<unread, arrivals, reads, first>>
  BY DEF PageFails
<1>2. page' = page + 1 /\ pc' = "write"
  BY <1>1 DEF Received
<1>3. head' \in Seq(0..(MaxUnread + arrivals))
  <2>1. << >> \in Seq(1..(MaxUnread + arrivals))
    BY EmptySeq
  <2> QED
    BY <1>0, <1>1, <2>1, ReceivedFacts
<1>4. StoriesInv'
  BY <1>0, <1>1, <1>2 DEF StoriesInv
<1>5. HeadInv'
  BY <1>1, <1>2, <1>3 DEF HeadInv
<1>6. ShiftInv'
  BY <1>1 DEF ShiftInv
<1> QED
  BY <1>4, <1>5, <1>6 DEF Inv

(* A step that leaves the list, the server and the histories alone.        *)
LEMMA QuietInv ==
  ASSUME Inv, UNCHANGED <<unread, page, head, arrivals, reads, failed, first>>,
         pc' \in {"login", "feeds", "page"} => pc \in {"login", "feeds", "page"},
         pc' \in {"write", "done"} => pc \in {"write", "done"}
  PROVE  Inv'
<1>1. Fetched' = Fetched /\ Above' = Above /\ Below' = Below /\ Repeated' = Repeated
  BY DEF Fetched, Above, Below, Asked, Repeated
<1>2. StoriesInv'
  BY DEF Inv, StoriesInv
<1>3. HeadInv'
  BY <1>1 DEF Inv, HeadInv
<1>4. ShiftInv'
  BY <1>1 DEF Inv, ShiftInv
<1> QED
  BY <1>2, <1>3, <1>4 DEF Inv

-----------------------------------------------------------------------------
(* The server's list moves under the line. *)

(* A story in front of the list moves the story above the line below it.   *)
LEMMA ArriveMoves ==
  ASSUME StoriesInv, Asked' = Asked, unread' = <<MaxUnread + arrivals + 1>> \o unread
  PROVE  /\ unread' \in Seq(1..(MaxUnread + arrivals + 1))
         /\ \A j, k \in 1..Len(unread') : unread'[j] = unread'[k] => j = k
         /\ Above' \subseteq Above \cup {MaxUnread + arrivals + 1}
         /\ \E z : Below' \subseteq Below \cup {z}
<1> DEFINE new == MaxUnread + arrivals + 1
<1>1. new \in Nat /\ MaxUnread + arrivals \in Nat /\ Len(unread) \in Nat /\ Asked \in Nat
  BY NewsBlurAssumption, LenProperties, AskedFacts DEF StoriesInv
<1>2. unread \in Seq(1..new) /\ <<new>> \in Seq(1..new)
  <2>1. 1..(MaxUnread + arrivals) \subseteq 1..new /\ new \in 1..new
    BY <1>1
  <2>2. unread \in Seq(1..new)
    BY <2>1, SeqMonotonic DEF StoriesInv
  <2> HIDE DEF new
  <2> QED
    BY <2>1, <2>2
<1> HIDE DEF new
<1>3. /\ unread' \in Seq(1..new) /\ Len(unread') = Len(unread) + 1
      /\ unread'[1] = new
      /\ \A k \in 1..Len(unread) : unread'[k + 1] = unread[k]
  <2>1. /\ <<new>> \o unread \in Seq(1..new)
        /\ Len(<<new>> \o unread) = 1 + Len(unread)
        /\ \A i \in 1..(1 + Len(unread)) :
             (<<new>> \o unread)[i] = IF i <= 1 THEN <<new>>[i] ELSE unread[i - 1]
    BY <1>2, ConcatProperties
  <2>2. unread' = <<new>> \o unread
    BY DEF new
  <2>3. 1 \in 1..(1 + Len(unread)) /\ <<new>>[1] = new
    BY <1>1
  <2>4. \A k \in 1..Len(unread) : k + 1 \in 1..(1 + Len(unread)) /\ ~(k + 1 <= 1) /\ (k + 1) - 1 = k
    BY <1>1
  <2> QED
    BY <1>1, <2>1, <2>2, <2>3, <2>4
<1>4. \A j \in 1..Len(unread') : j = 1 \/ (j - 1 \in 1..Len(unread) /\ unread'[j] = unread[j - 1])
  <2> TAKE j \in 1..Len(unread')
  <2>1. j = 1 \/ (j - 1 \in 1..Len(unread) /\ (j - 1) + 1 = j)
    BY <1>1, <1>3
  <2> QED
    BY <1>3, <2>1
<1>5. \A k \in 1..Len(unread) : unread[k] # new
  <2> TAKE k \in 1..Len(unread)
  <2>1. unread[k] \in 1..(MaxUnread + arrivals)
    BY ElementOfSeq DEF StoriesInv
  <2> QED
    BY <1>1, <2>1 DEF new
<1>6. \A j, k \in 1..Len(unread') : unread'[j] = unread'[k] => j = k
  <2> SUFFICES ASSUME NEW j \in 1..Len(unread'), NEW k \in 1..Len(unread'), unread'[j] = unread'[k]
               PROVE  j = k
    OBVIOUS
  <2>1. CASE j = 1 \/ k = 1
    BY <1>3, <1>4, <1>5, <2>1
  <2>2. CASE j # 1 /\ k # 1
    <3>1. j - 1 \in 1..Len(unread) /\ k - 1 \in 1..Len(unread) /\ unread[j - 1] = unread[k - 1]
      BY <1>4, <2>2
    <3>2. j - 1 = k - 1
      BY <3>1 DEF StoriesInv
    <3> QED
      BY <1>1, <1>3, <3>2
  <2> QED
    BY <2>1, <2>2
<1>7. Above' \subseteq Above \cup {new}
  <2>1. Above' = {unread'[k] : k \in 1..Smaller(Asked, Len(unread) + 1)}
    BY <1>3 DEF Above
  <2>2. \A k \in 1..Smaller(Asked, Len(unread) + 1) :
          /\ k \in 1..Len(unread')
          /\ k # 1 => k - 1 \in 1..Smaller(Asked, Len(unread))
    BY <1>1, <1>3 DEF Smaller
  <2> QED
    BY <1>3, <1>4, <2>1, <2>2 DEF Above
<1>8. \E z : Below' \subseteq Below \cup {z}
  <2>1. Below' = {unread'[k] : k \in (Asked + 1)..(Len(unread) + 1)}
    BY <1>3 DEF Below
  <2>2. \A k \in (Asked + 1)..(Len(unread) + 1) :
          /\ k \in 1..Len(unread')
          /\ k # Asked + 1 => k # 1 /\ k - 1 \in (Asked + 1)..Len(unread)
    BY <1>1, <1>3
  <2>3. Below' \subseteq Below \cup {unread'[Asked + 1]}
    BY <1>4, <2>1, <2>2 DEF Below
  <2> QED
    BY <2>3
<1> QED
  BY <1>3, <1>6, <1>7, <1>8 DEF new

LEMMA ArriveInv == Inv /\ Arrive => Inv'
<1> SUFFICES ASSUME Inv, Arrive PROVE Inv'
  OBVIOUS
<1>0. StoriesInv /\ HeadInv /\ ShiftInv
  BY DEF Inv
<1>1. /\ pc = "page" /\ arrivals' = arrivals + 1
      /\ unread' = <<MaxUnread + arrivals'>> \o unread
      /\ UNCHANGED <<page, head, pc, reads, failed, first>>
  BY DEF Arrive
<1> DEFINE new == MaxUnread + arrivals + 1
<1>2. arrivals \in Nat /\ MaxUnread \in Nat /\ new \in Nat /\ MaxUnread + arrivals' = new
  BY <1>0, <1>1, NewsBlurAssumption DEF StoriesInv
<1>3. Asked' = Asked
  BY <1>0, <1>1, AskedFacts DEF StoriesInv
<1>4. /\ unread' \in Seq(1..new)
      /\ \A j, k \in 1..Len(unread') : unread'[j] = unread'[k] => j = k
      /\ Above' \subseteq Above \cup {new}
      /\ \E z : Below' \subseteq Below \cup {z}
  <2>1. unread' = <<MaxUnread + arrivals + 1>> \o unread
    BY <1>1, <1>2
  <2> QED
    BY <1>0, <1>3, <2>1, ArriveMoves
<1>5. PICK z : Below' \subseteq Below \cup {z}
  BY <1>4
<1>6. head \in Seq(0..(MaxUnread + arrivals))
  BY <1>0 DEF HeadInv
<1>7. new \notin Fetched /\ new \notin first
  <2>1. \A k \in 1..Len(head) : head[k] \in 0..(MaxUnread + arrivals)
    BY <1>6, ElementOfSeq
  <2>2. new \notin 0..(MaxUnread + arrivals) /\ new \notin 1..MaxUnread
    BY <1>2
  <2> QED
    BY <1>0, <2>1, <2>2 DEF Fetched, Elements, StoriesInv
<1>8. Fetched' = Fetched /\ Repeated' = Repeated
  BY <1>1 DEF Fetched, Repeated
<1>9. StoriesInv'
  <2>1. arrivals' \in Nat
    BY <1>1, <1>2
  <2> QED
    BY <1>0, <1>1, <1>2, <1>4, <2>1, Zenon DEF StoriesInv
<1>10. HeadInv'
  <2>1. 0..(MaxUnread + arrivals) \subseteq 0..new
    BY <1>2
  <2>2. head' \in Seq(0..(MaxUnread + arrivals'))
    BY <1>1, <1>2, <1>6, <2>1, SeqMonotonic
  <2> QED
    BY <1>0, <1>1, <1>8, <2>2 DEF HeadInv
<1>11. ShiftInv'
  <2> SUFFICES ASSUME ~failed PROVE ShiftInv'
    BY <1>1 DEF ShiftInv
  <2>0. /\ Repeated + Cardinality(Fetched \cap Below) <= arrivals
        /\ Cardinality((first \cap Above) \ Fetched) <= reads
    BY <1>0 DEF ShiftInv
  <2>1. Repeated + Cardinality(Fetched \cap Below') <= arrivals + 1
    <3>1. Fetched \cap Below' \subseteq (Fetched \cap Below) \cup {z}
      BY <1>5
    <3>2. IsFiniteSet(Fetched \cap Below) /\ IsFiniteSet(Fetched)
      BY <1>0, SetsFinite
    <3>3. /\ Cardinality(Fetched \cap Below') <= Cardinality(Fetched \cap Below) + 1
          /\ Cardinality(Fetched \cap Below') \in Nat /\ Cardinality(Fetched \cap Below) \in Nat
      BY <3>1, <3>2, OneMore
    <3>4. Repeated \in Int
      BY <1>6, <3>2, LenProperties, FS_CardinalityType DEF Repeated
    <3> QED
      BY <1>2, <2>0, <3>3, <3>4
  <2>2. Cardinality((first \cap Above') \ Fetched) <= reads
    <3>1. (first \cap Above') \ Fetched \subseteq (first \cap Above) \ Fetched
      BY <1>4, <1>7
    <3>2. IsFiniteSet((first \cap Above) \ Fetched)
      BY <1>0, SetsFinite
    <3>3. /\ Cardinality((first \cap Above') \ Fetched) <= Cardinality((first \cap Above) \ Fetched)
          /\ IsFiniteSet((first \cap Above') \ Fetched)
      BY <3>1, <3>2, FS_Subset
    <3>4. /\ Cardinality((first \cap Above') \ Fetched) \in Nat
          /\ Cardinality((first \cap Above) \ Fetched) \in Nat /\ reads \in Nat
      BY <1>0, <3>2, <3>3, FS_CardinalityType DEF StoriesInv
    <3> QED
      BY <2>0, <3>3, <3>4
  <2> QED
    BY <1>1, <1>8, <2>1, <2>2 DEF ShiftInv
<1> QED
  BY <1>9, <1>10, <1>11 DEF Inv

(* Without story k, the stories behind it move up, one of them above the   *)
(* line.                                                                   *)
LEMMA ReadMoves ==
  ASSUME StoriesInv, Asked' = Asked, NEW k \in 1..Len(unread),
         unread' = SubSeq(unread, 1, k - 1) \o SubSeq(unread, k + 1, Len(unread))
  PROVE  /\ unread' \in Seq(1..(MaxUnread + arrivals))
         /\ \A i, j \in 1..Len(unread') : unread'[i] = unread'[j] => i = j
         /\ Below' \subseteq Below
         /\ \E z : Above' \subseteq Above \cup {z}
<1> DEFINE S == 1..(MaxUnread + arrivals)
           a == SubSeq(unread, 1, k - 1)
           b == SubSeq(unread, k + 1, Len(unread))
<1>1. Len(unread) \in Nat /\ Asked \in Nat /\ unread \in Seq(S)
  BY LenProperties, AskedFacts DEF StoriesInv
<1>2. \A j \in 1..Len(unread) : unread[j] \in S
  BY <1>1, ElementOfSeq
<1> HIDE DEF S
<1>3. a \in Seq(S) /\ Len(a) = k - 1 /\ \A j \in 1..(k - 1) : a[j] = unread[j]
  <2>1. \A j \in 1..(k - 1) : unread[j] \in S
    BY <1>1, <1>2
  <2>2. /\ a \in Seq(S)
        /\ Len(a) = IF 1 <= k - 1 THEN (k - 1) - 1 + 1 ELSE 0
        /\ \A j \in 1..((k - 1) - 1 + 1) : a[j] = unread[1 + j - 1]
    BY <1>1, <2>1, SubSeqProperties
  <2>3. \A j \in 1..(k - 1) : a[j] = unread[j]
    <3> TAKE j \in 1..(k - 1)
    <3>1. j \in 1..((k - 1) - 1 + 1) /\ 1 + j - 1 = j
      BY <1>1
    <3> QED
      BY <2>2, <3>1
  <2>4. Len(a) = k - 1
    BY <1>1, <2>2
  <2> QED
    BY <2>2, <2>3, <2>4
<1>4. b \in Seq(S) /\ Len(b) = Len(unread) - k /\ \A j \in 1..(Len(unread) - k) : b[j] = unread[k + j]
  <2>1. \A j \in (k + 1)..Len(unread) : unread[j] \in S
    BY <1>1, <1>2
  <2>2. /\ b \in Seq(S)
        /\ Len(b) = IF k + 1 <= Len(unread) THEN Len(unread) - (k + 1) + 1 ELSE 0
        /\ \A j \in 1..(Len(unread) - (k + 1) + 1) : b[j] = unread[(k + 1) + j - 1]
    BY <1>1, <2>1, SubSeqProperties
  <2>3. \A j \in 1..(Len(unread) - k) : b[j] = unread[k + j]
    <3> TAKE j \in 1..(Len(unread) - k)
    <3>1. j \in 1..(Len(unread) - (k + 1) + 1) /\ (k + 1) + j - 1 = k + j
      BY <1>1
    <3> QED
      BY <2>2, <3>1
  <2>4. Len(b) = Len(unread) - k
    BY <1>1, <2>2
  <2> QED
    BY <2>2, <2>3, <2>4
<1>5. /\ unread' \in Seq(S) /\ Len(unread') = Len(unread) - 1
      /\ \A j \in 1..(Len(unread) - 1) : unread'[j] = IF j < k THEN unread[j] ELSE unread[j + 1]
  <2>1. /\ a \o b \in Seq(S)
        /\ Len(a \o b) = Len(a) + Len(b)
        /\ \A j \in 1..(Len(a) + Len(b)) : (a \o b)[j] = IF j <= Len(a) THEN a[j] ELSE b[j - Len(a)]
    BY <1>3, <1>4, ConcatProperties
  <2>2. unread' = a \o b /\ Len(a) + Len(b) = Len(unread) - 1
    <3>1. unread' = a \o b
      OBVIOUS
    <3> HIDE DEF a, b
    <3>2. Len(a) + Len(b) = Len(unread) - 1
      BY <1>1, <1>3, <1>4
    <3> QED
      BY <3>1, <3>2
  <2>3. ASSUME NEW j \in 1..(Len(unread) - 1)
        PROVE  unread'[j] = IF j < k THEN unread[j] ELSE unread[j + 1]
    <3>1. CASE j < k
      <4>1. j \in 1..(k - 1) /\ j <= Len(a)
        BY <1>1, <1>3, <3>1
      <4> QED
        BY <1>3, <2>1, <2>2, <3>1, <4>1
    <3>2. CASE ~(j < k)
      <4>1. /\ ~(j <= Len(a)) /\ j - Len(a) \in 1..(Len(unread) - k)
            /\ k + (j - Len(a)) = j + 1
        BY <1>1, <1>3, <3>2
      <4> QED
        BY <1>4, <2>1, <2>2, <3>2, <4>1
    <3> QED
      BY <3>1, <3>2
  <2>4. Len(unread') = Len(unread) - 1
    BY <2>1, <2>2
  <2> QED
    BY <2>1, <2>2, <2>3, <2>4
<1> HIDE DEF a, b
<1>6. \A i, j \in 1..Len(unread') : unread'[i] = unread'[j] => i = j
  <2> SUFFICES ASSUME NEW i \in 1..Len(unread'), NEW j \in 1..Len(unread'), unread'[i] = unread'[j]
               PROVE  i = j
    OBVIOUS
  <2> DEFINE From(m) == IF m < k THEN m ELSE m + 1
  <2>0. i \in 1..(Len(unread) - 1) /\ j \in 1..(Len(unread) - 1)
    BY <1>5
  <2>1. /\ From(i) \in 1..Len(unread) /\ From(j) \in 1..Len(unread)
        /\ From(i) = From(j) => i = j
    BY <1>1, <2>0
  <2>2. unread'[i] = unread[From(i)] /\ unread'[j] = unread[From(j)]
    BY <1>5, <2>0
  <2> QED
    BY <2>1, <2>2 DEF StoriesInv
<1>7. Below' \subseteq Below
  <2>1. Below' = {unread'[j] : j \in (Asked + 1)..(Len(unread) - 1)}
    BY <1>5 DEF Below
  <2>2. \A j \in (Asked + 1)..(Len(unread) - 1) :
          /\ j \in 1..(Len(unread) - 1)
          /\ j \in (Asked + 1)..Len(unread) /\ j + 1 \in (Asked + 1)..Len(unread)
    BY <1>1
  <2> QED
    BY <1>5, <2>1, <2>2 DEF Below
<1>8. \E z : Above' \subseteq Above \cup {z}
  <2>1. Above' = {unread'[j] : j \in 1..Smaller(Asked, Len(unread) - 1)}
    BY <1>5 DEF Above
  <2>2. \A j \in 1..Smaller(Asked, Len(unread) - 1) :
          /\ j \in 1..(Len(unread) - 1)
          /\ j \in 1..Smaller(Asked, Len(unread))
          /\ j + 1 \in 1..Smaller(Asked, Len(unread)) \/ j + 1 = Asked + 1
    BY <1>1 DEF Smaller
  <2>3. Above' \subseteq Above \cup {unread[Asked + 1]}
    BY <1>5, <2>1, <2>2 DEF Above
  <2> QED
    BY <2>3
<1> QED
  BY <1>5, <1>6, <1>7, <1>8 DEF S

LEMMA ReadElsewhereInv == Inv /\ ReadElsewhere => Inv'
<1> SUFFICES ASSUME Inv, ReadElsewhere PROVE Inv'
  OBVIOUS
<1>0. StoriesInv /\ HeadInv /\ ShiftInv
  BY DEF Inv
<1>1. /\ pc = "page" /\ reads' = reads + 1
      /\ UNCHANGED <<page, head, pc, arrivals, failed, first>>
  BY DEF ReadElsewhere
<1>2. PICK k \in 1..Len(unread) :
        unread' = SubSeq(unread, 1, k - 1) \o SubSeq(unread, k + 1, Len(unread))
  BY DEF ReadElsewhere
<1>3. Asked' = Asked
  BY <1>0, <1>1, AskedFacts DEF StoriesInv
<1>4. /\ unread' \in Seq(1..(MaxUnread + arrivals))
      /\ \A i, j \in 1..Len(unread') : unread'[i] = unread'[j] => i = j
      /\ Below' \subseteq Below
      /\ \E z : Above' \subseteq Above \cup {z}
  BY <1>0, <1>2, <1>3, ReadMoves
<1>5. PICK z : Above' \subseteq Above \cup {z}
  BY <1>4
<1>6. Fetched' = Fetched /\ Repeated' = Repeated
  BY <1>1 DEF Fetched, Repeated
<1>7. StoriesInv'
  <2>1. reads' \in Nat
    BY <1>0, <1>1 DEF StoriesInv
  <2> QED
    BY <1>0, <1>1, <1>4, <2>1, Zenon DEF StoriesInv
<1>8. HeadInv'
  BY <1>0, <1>1, <1>6 DEF HeadInv
<1>9. ShiftInv'
  <2> SUFFICES ASSUME ~failed PROVE ShiftInv'
    BY <1>1 DEF ShiftInv
  <2>0. /\ Repeated + Cardinality(Fetched \cap Below) <= arrivals
        /\ Cardinality((first \cap Above) \ Fetched) <= reads
    BY <1>0 DEF ShiftInv
  <2>1. Repeated + Cardinality(Fetched \cap Below') <= arrivals
    <3>1. Fetched \cap Below' \subseteq Fetched \cap Below
      BY <1>4
    <3>2. IsFiniteSet(Fetched \cap Below) /\ IsFiniteSet(Fetched)
      BY <1>0, SetsFinite
    <3>3. /\ Cardinality(Fetched \cap Below') <= Cardinality(Fetched \cap Below)
          /\ IsFiniteSet(Fetched \cap Below')
      BY <3>1, <3>2, FS_Subset
    <3>4. Cardinality(Fetched \cap Below') \in Nat /\ Cardinality(Fetched \cap Below) \in Nat
      BY <3>2, <3>3, FS_CardinalityType
    <3>5. Repeated \in Int /\ arrivals \in Nat
      BY <1>0, <3>2, LenProperties, FS_CardinalityType DEF Repeated, HeadInv, StoriesInv
    <3> QED
      BY <2>0, <3>3, <3>4, <3>5
  <2>2. Cardinality((first \cap Above') \ Fetched) <= reads + 1
    <3>1. (first \cap Above') \ Fetched \subseteq ((first \cap Above) \ Fetched) \cup {z}
      BY <1>5
    <3>2. IsFiniteSet((first \cap Above) \ Fetched)
      BY <1>0, SetsFinite
    <3>3. /\ Cardinality((first \cap Above') \ Fetched) <= Cardinality((first \cap Above) \ Fetched) + 1
          /\ Cardinality((first \cap Above') \ Fetched) \in Nat
          /\ Cardinality((first \cap Above) \ Fetched) \in Nat
      BY <3>1, <3>2, OneMore
    <3>4. reads \in Nat
      BY <1>0 DEF StoriesInv
    <3> QED
      BY <2>0, <3>3, <3>4
  <2> QED
    BY <1>1, <1>6, <2>1, <2>2 DEF ShiftInv
<1> QED
  BY <1>7, <1>8, <1>9 DEF Inv

-----------------------------------------------------------------------------
(* Theorems *)

LEMMA StepInv == Inv /\ [Next]_vars => Inv'
<1> SUFFICES ASSUME Inv, [Next]_vars PROVE Inv'
  OBVIOUS
<1>1. CASE Login
  BY <1>1, QuietInv DEF Login, history
<1>2. CASE Feeds
  BY <1>2, QuietInv DEF Feeds, history
<1>3. CASE PageArrives
  BY <1>3, PageArrivesInv
<1>4. CASE PageFails
  BY <1>4, PageFailsInv
<1>5. CASE Write
  BY <1>5, QuietInv DEF Write, history
<1>6. CASE Arrive
  BY <1>6, ArriveInv
<1>7. CASE ReadElsewhere
  BY <1>7, ReadElsewhereInv
<1>8. CASE UNCHANGED vars
  BY <1>8, QuietInv DEF vars
<1>9. Next \/ UNCHANGED vars
  OBVIOUS
<1> QED
  BY <1>1, <1>2, <1>3, <1>4, <1>5, <1>6, <1>7, <1>8, <1>9 DEF Next, Work, Ended

(* The inductive invariant holds: what was fetched and what lies on either *)
(* side of the line between the pages asked for and the rest fit together  *)
(* (t_newsblur.c's loop with downloader.c:248-290).                        *)
THEOREM Invariant == Spec => []Inv
<1> QED
  BY InitInv, StepInv, PTL DEF Spec

(* NewsBlurArticles is never called with a null list.                      *)
THEOREM NeverWithoutAHead == Spec => []ListHasAHead
<1>1. Inv => ListHasAHead
  <2>1. <<Blank>> # << >>
    OBVIOUS
  <2> QED
    BY <2>1 DEF Inv, HeadInv, ListHasAHead
<1> QED
  BY <1>1, Invariant, PTL

(* A download without failures repeats at most one story for each arrival  *)
(* and misses at most one for each story read elsewhere.                   *)
THEOREM BoundedShifts == Spec => []ShiftsAreBounded
<1>1. Inv => ShiftsAreBounded
  <2> SUFFICES ASSUME Inv, pc = "done", ~failed
               PROVE  Repeated <= arrivals /\ Cardinality(Missed) <= reads
    BY DEF ShiftsAreBounded
  <2>0. StoriesInv /\ HeadInv /\ ShiftInv
    BY DEF Inv
  <2>1. /\ Repeated + Cardinality(Fetched \cap Below) <= arrivals
        /\ Cardinality((first \cap Above) \ Fetched) <= reads
        /\ Below = {}
    BY <2>0 DEF ShiftInv
  <2>2. Missed = (first \cap Above) \ Fetched
    <3>1. Len(unread) \in Nat /\ Asked \in Nat
      BY <2>0, LenProperties, AskedFacts DEF StoriesInv
    <3>2. (Asked + 1)..Len(unread) = {}
      BY <2>1 DEF Below
    <3>3. Smaller(Asked, Len(unread)) = Len(unread)
      BY <3>1, <3>2 DEF Smaller
    <3> QED
      BY <3>3 DEF Missed, Above, Elements
  <2>3. Repeated <= arrivals
    <3>1. IsFiniteSet(Fetched) /\ Cardinality(Fetched \cap Below) = 0
      BY <2>0, <2>1, SetsFinite, FS_EmptySet
    <3>2. Repeated \in Int /\ arrivals \in Nat
      BY <2>0, <3>1, LenProperties, FS_CardinalityType DEF Repeated, HeadInv, StoriesInv
    <3> QED
      BY <2>1, <3>1, <3>2
  <2> QED
    BY <2>1, <2>2, <2>3
<1> QED
  BY <1>1, Invariant, PTL
=============================================================================
