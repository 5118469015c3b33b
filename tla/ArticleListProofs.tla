-------------------------- MODULE ArticleListProofs --------------------------
(***************************************************************************)
(* Proofs about ArticleList for any heap, any hashes and any answers.      *)
(* They assume that keys are not handled during a fetch: when they are,    *)
(* sorts lose articles and redraws lose marks.                             *)
(***************************************************************************)
EXTENDS ArticleList, SequenceTheorems, FiniteSetTheorems, TLAPS

-----------------------------------------------------------------------------
(* Sequences of nodes. *)

(* A set of natural numbers has a least one: induction without the         *)
(* theorems that take a predicate.                                         *)
LEMMA Least ==
  ASSUME NEW T \in SUBSET Nat, T # {}
  PROVE  \E m \in T : \A k \in T : m <= k
<1>1. IsWellFoundedOn(OpToRel(<, Nat), Nat)
  BY NatLessThanWellFounded
<1>2. PICK x \in T : \A y \in T : ~ (<<y, x>> \in OpToRel(<, Nat))
  BY <1>1, WFMin
<1>3. \A y \in T : ~ (y < x)
  BY <1>2 DEF OpToRel
<1> QED
  BY <1>3

LEMMA Counted ==
  ASSUME NEW n \in Nat
  PROVE  IsFiniteSet(1..n) /\ Cardinality(1..n) = n
<1>1. n \in Int /\ 1 \in Int
  OBVIOUS
<1>2. IsFiniteSet(1..n) /\ Cardinality(1..n) = IF 1 > n THEN 0 ELSE n - 1 + 1
  BY <1>1, FS_Interval
<1> QED
  BY <1>2

(* A sequence of different nodes is no longer than the heap, and as long   *)
(* as the set of its elements.                                             *)
LEMMA DistinctLength ==
  ASSUME NEW s \in Seq(Nodes), \A j, k \in 1..Len(s) : s[j] = s[k] => j = k
  PROVE  /\ Len(s) \in Nat
         /\ Len(s) <= Cardinality(Nodes)
         /\ Cardinality(Elements(s)) = Len(s)
         /\ Cardinality(Nodes) \in Nat
<1>1. Len(s) \in Nat /\ s \in [1..Len(s) -> Nodes] /\ s \in [1..Len(s) -> Elements(s)]
  BY LenProperties DEF Elements
<1>2. IsFiniteSet(Nodes) /\ Cardinality(Nodes) \in Nat
  BY ArticleListAssumption, FS_CardinalityType
<1>3. IsFiniteSet(1..Len(s)) /\ Cardinality(1..Len(s)) = Len(s)
  BY <1>1, Counted
<1>4. s \in Injection(1..Len(s), Nodes)
  BY <1>1 DEF Injection, IsInjective
<1>5. Cardinality(1..Len(s)) <= Cardinality(Nodes)
  BY <1>2, <1>4, FS_Injection
<1>6. s \in Bijection(1..Len(s), Elements(s))
  BY <1>1 DEF Bijection, Injection, IsInjective, Surjection, Elements
<1>7. Cardinality(Elements(s)) = Cardinality(1..Len(s))
  BY <1>3, <1>6, FS_Bijection DEF ExistsBijection
<1> QED
  BY <1>1, <1>2, <1>3, <1>5, <1>7

(* A walk of n steps along the links visits the nodes of the chain and     *)
(* then stays at the end.                                                  *)
LEMMA WalkIs ==
  ASSUME NEW links, NEW p, NEW s, IsChain(links, p, s),
         NEW n \in Nat, Len(s) <= n,
         NEW f, \A k \in 1..n : f[k] = IF k <= Len(s) THEN s[k] ELSE Nil
  PROVE  \A k \in 1..n : f[k] = IF k = 1 THEN p
                                ELSE IF f[k - 1] = Nil THEN Nil ELSE links[f[k - 1]]
<1>1. /\ s \in Seq(Nodes) /\ Len(s) \in Nat
      /\ p = IF s = << >> THEN Nil ELSE s[1]
      /\ \A k \in 1..Len(s) : links[s[k]] = IF k = Len(s) THEN Nil ELSE s[k + 1]
  BY LenProperties DEF IsChain
<1>2. s = << >> <=> Len(s) = 0
  BY <1>1, EmptySeq
<1>3. \A k \in 1..Len(s) : s[k] # Nil
  BY <1>1, ElementOfSeq, ArticleListAssumption
<1> SUFFICES ASSUME NEW k \in 1..n
             PROVE  f[k] = IF k = 1 THEN p
                           ELSE IF f[k - 1] = Nil THEN Nil ELSE links[f[k - 1]]
  OBVIOUS
<1>4. CASE k = 1
  BY <1>1, <1>2, <1>4
<1>5. CASE k # 1
  <2>1. k - 1 \in 1..n /\ k \in Nat /\ (k - 1) + 1 = k
    BY <1>5
  <2>2. CASE k - 1 <= Len(s)
    <3>1. f[k - 1] = s[k - 1] /\ k - 1 \in 1..Len(s)
      BY <1>1, <2>1, <2>2
    <3>2. links[s[k - 1]] = IF k - 1 = Len(s) THEN Nil ELSE s[k]
      BY <1>1, <2>1, <3>1
    <3>3. f[k] = IF k - 1 = Len(s) THEN Nil ELSE s[k]
      BY <1>1, <2>1, <2>2
    <3>4. s[k - 1] # Nil
      BY <1>3, <3>1
    <3> QED
      BY <1>5, <3>1, <3>2, <3>3, <3>4
  <2>3. CASE ~(k - 1 <= Len(s))
    <3>1. f[k - 1] = Nil /\ f[k] = Nil
      BY <1>1, <2>1, <2>3
    <3> QED
      BY <1>5, <3>1
  <2> QED
    BY <2>2, <2>3
<1> QED
  BY <1>4, <1>5

(* The nodes reached from p are those of the chain that begins there.      *)
LEMMA ChainIs ==
  ASSUME NEW links, NEW p, NEW s, IsChain(links, p, s)
  PROVE  ChainIn(links, p) = s
<1> DEFINE at[k \in 1..Cardinality(Nodes)] ==
             IF k = 1 THEN p ELSE IF at[k - 1] = Nil THEN Nil ELSE links[at[k - 1]]
           len == Cardinality({k \in 1..Cardinality(Nodes) : at[k] # Nil})
<1>1. /\ s \in Seq(Nodes) /\ Len(s) \in Nat /\ Len(s) <= Cardinality(Nodes)
      /\ Cardinality(Nodes) \in Nat
  BY DistinctLength DEF IsChain
<1>0. PICK f : f = [k \in 1..Cardinality(Nodes) |-> IF k <= Len(s) THEN s[k] ELSE Nil]
  OBVIOUS
<1>2. \A k \in 1..Cardinality(Nodes) :
        f[k] = IF k = 1 THEN p ELSE IF f[k - 1] = Nil THEN Nil ELSE links[f[k - 1]]
  <2>1. \A k \in 1..Cardinality(Nodes) : f[k] = IF k <= Len(s) THEN s[k] ELSE Nil
    BY <1>0
  <2> QED
    BY <1>1, <2>1, WalkIs
<1>3. /\ \A k \in 1..Cardinality(Nodes) : at[k] = f[k]
      /\ at = [k \in 1..Cardinality(Nodes) |-> at[k]]
  <2> DEFINE Reached(g) == [k \in 1..Cardinality(Nodes) |->
               IF k = 1 THEN p ELSE IF g[k - 1] = Nil THEN Nil ELSE links[g[k - 1]]]
  <2>1. f = Reached(f)
    <3>1. f = [k \in 1..Cardinality(Nodes) |-> f[k]]
      BY <1>0
    <3> QED
      BY <1>2, <3>1
  <2>2. at = CHOOSE g : g = Reached(g)
    OBVIOUS
  <2>3. at = Reached(at)
    <3> HIDE DEF at, Reached
    <3> QED
      BY <2>1, <2>2
  <2>4. \A k \in 1..Cardinality(Nodes) :
          at[k] = IF k = 1 THEN p ELSE IF at[k - 1] = Nil THEN Nil ELSE links[at[k - 1]]
    <3> HIDE DEF at
    <3> QED
      BY <2>3
  <2>5. at = [k \in 1..Cardinality(Nodes) |-> at[k]]
    <3> HIDE DEF at
    <3> QED
      BY <2>3
  <2>6. ASSUME NEW g, \A k \in 1..Cardinality(Nodes) :
               g[k] = IF k = 1 THEN p ELSE IF g[k - 1] = Nil THEN Nil ELSE links[g[k - 1]]
        PROVE  \A k \in 1..Cardinality(Nodes) : g[k] = f[k]
    <3> DEFINE T == {k \in 1..Cardinality(Nodes) : g[k] # f[k]}
    <3> SUFFICES ASSUME T # {} PROVE FALSE
      OBVIOUS
    <3>1. T \in SUBSET Nat
      OBVIOUS
    <3>2. PICK m \in T : \A k \in T : m <= k
      BY <3>1, Least
    <3>3. m \in 1..Cardinality(Nodes) /\ g[m] # f[m] /\ m \in Nat
      OBVIOUS
    <3>4. m # 1
      BY <1>1, <1>2, <2>6, <3>3
    <3>5. m - 1 \in 1..Cardinality(Nodes) /\ ~(m <= m - 1)
      BY <1>1, <3>3, <3>4
    <3>6. m - 1 \notin T
      BY <3>2, <3>5
    <3>7. g[m - 1] = f[m - 1]
      BY <3>5, <3>6
    <3> QED
      BY <1>2, <2>6, <3>3, <3>4, <3>7
  <2> HIDE DEF at
  <2> QED
    BY <2>4, <2>5, <2>6
<1> HIDE DEF at
<1>4. \A k \in 1..Len(s) : s[k] \in Nodes /\ s[k] # Nil
  BY <1>1, ElementOfSeq, ArticleListAssumption
<1>5. \A k \in 1..Cardinality(Nodes) : at[k] = IF k <= Len(s) THEN s[k] ELSE Nil
  BY <1>0, <1>3
<1>6. {k \in 1..Cardinality(Nodes) : at[k] # Nil} = 1..Len(s)
  BY <1>1, <1>4, <1>5
<1>7. len = Len(s)
  <2>1. Cardinality(1..Len(s)) = Len(s)
    BY <1>1, Counted
  <2> QED
    BY <1>6, <2>1
<1> HIDE DEF len
<1>8. [k \in 1..len |-> at[k]] = s
  <2>1. s = [k \in 1..Len(s) |-> s[k]]
    BY <1>1, LenProperties
  <2>2. \A k \in 1..Len(s) : at[k] = s[k]
    BY <1>1, <1>5
  <2> QED
    BY <1>7, <2>1, <2>2
<1>9. ChainIn(links, p) = [k \in 1..len |-> at[k]]
  BY DEF ChainIn, at, len
<1> QED
  BY <1>8, <1>9

-----------------------------------------------------------------------------
(* What the invariant says of the list *)

(* The list is the sequence that its links make.                           *)
LEMMA ChainIsPrimed ==
  ASSUME NEW s, IsChain(next', list', s)
  PROVE  Chain' = s
BY ChainIs DEF Chain

LEMMA SameChain ==
  ASSUME UNCHANGED <<list, next>>
  PROVE  Chain' = Chain
BY DEF Chain

(* While it is whole the list begins at its head and holds every article   *)
(* but the pending one.                                                    *)
LEMMA ChainFacts ==
  ASSUME TypeOK, ChainInv, Whole
  PROVE  /\ Chain \in Seq(Nodes) /\ Len(Chain) \in Nat
         /\ \A k \in 1..Len(Chain) : Chain[k] \in Nodes /\ Chain[k] \in Elements(Chain)
         /\ \A n \in Elements(Chain) : \E k \in 1..Len(Chain) : n = Chain[k]
         /\ \A j, k \in 1..Len(Chain) : Chain[j] = Chain[k] => j = k
         /\ \A k \in 1..Len(Chain) :
              next[Chain[k]] = IF k = Len(Chain) THEN Nil ELSE Chain[k + 1]
         /\ Elements(Chain) = used \ Pending
         /\ list = Nil => Chain = << >> /\ Elements(Chain) = {}
         /\ list # Nil => Len(Chain) >= 1 /\ Chain[1] = list /\ list \in Elements(Chain)
<1>1. IsChain(next, list, Chain) /\ Elements(Chain) = used \ Pending
  BY DEF ChainInv
<1>2. Chain \in Seq(Nodes) /\ Len(Chain) \in Nat
  BY <1>1, LenProperties DEF IsChain
<1>3. \A k \in 1..Len(Chain) : Chain[k] \in Nodes /\ Chain[k] \in Elements(Chain)
  BY <1>2, ElementOfSeq DEF Elements
<1>4. Chain = << >> <=> Len(Chain) = 0
  BY <1>2, EmptySeq
<1>5. list = IF Chain = << >> THEN Nil ELSE Chain[1]
  BY <1>1 DEF IsChain
<1>6. list = Nil => Chain = << >> /\ Elements(Chain) = {}
  <2>1. Len(Chain) # 0 => 1 \in 1..Len(Chain)
    BY <1>2
  <2>2. list = Nil => Chain = << >>
    BY <1>3, <1>4, <1>5, <2>1, ArticleListAssumption
  <2>3. Len(Chain) = 0 => Elements(Chain) = {}
    BY DEF Elements
  <2> QED
    BY <1>4, <2>2, <2>3
<1>7. list # Nil => Len(Chain) >= 1 /\ Chain[1] = list /\ list \in Elements(Chain)
  BY <1>2, <1>3, <1>4, <1>5
<1>8. \A n \in Elements(Chain) : \E k \in 1..Len(Chain) : n = Chain[k]
  BY DEF Elements
<1> QED
  BY <1>1, <1>2, <1>3, <1>6, <1>7, <1>8 DEF IsChain

(* The next free article.                                                  *)
LEMMA FreshIs ==
  ASSUME used \in SUBSET Nodes, used # Nodes
  PROVE  Fresh \in Nodes /\ Fresh \notin used
<1>1. \E n \in Nodes \ used : TRUE
  OBVIOUS
<1> QED
  BY <1>1 DEF Fresh

-----------------------------------------------------------------------------
(* The invariant is kept: steps that leave every article alone *)

(* The list, the articles and their hashes stay as they are.               *)
LEMMA SameArticles ==
  ASSUME TypeOK, ChainInv, HashesInv, UNCHANGED <<list, nodes>>,
         Whole' => Whole /\ Pending' = Pending
  PROVE  ChainInv' /\ HashesInv'
<1>1. Chain' = Chain /\ Elements(Chain)' = Elements(Chain)
  BY SameChain DEF nodes, Elements
<1>2. HashesInv'
  BY DEF HashesInv, Same, nodes
<1>3. ChainInv'
  <2> SUFFICES ASSUME Whole'
               PROVE  /\ IsChain(next', list', Chain')
                      /\ Follows(Chain)'
                      /\ Elements(Chain)' = used' \ Pending'
                      /\ list' # Nil => previous'[list'] \in {Nil, Wild} /\ LastIsPlain(Chain)'
    BY DEF ChainInv
  <2>1. /\ IsChain(next, list, Chain) /\ Follows(Chain)
        /\ Elements(Chain) = used \ Pending
        /\ list # Nil => previous[list] \in {Nil, Wild} /\ LastIsPlain(Chain)
    BY DEF ChainInv
  <2>2. Follows(Chain)'
    BY <1>1, <2>1 DEF Follows, nodes
  <2>3. LastIsPlain(Chain) => LastIsPlain(Chain)'
    BY <1>1 DEF LastIsPlain, nodes
  <2> QED
    BY <1>1, <2>1, <2>2, <2>3 DEF nodes
<1> QED
  BY <1>2, <1>3

(* A step of the fetch thread, between two keys.                           *)
LEMMA FetchStepInv ==
  ASSUME Inv, upc = "keys", upc' = "keys", UNCHANGED <<list, nodes>>,
         shared' \in BOOLEAN, input' \in BOOLEAN,
         todo' \in Seq(Article),
         fpc' \in {"sleep", "request", "article", "find", "walk", "link", "draw", "store"},
         list # Nil, Pending' = Pending,
         fpc' \in {"find", "walk", "link"} => todo' # << >>,
         FetchInv'
  PROVE  Inv'
<1>1. TypeOK'
  BY DEF Inv, TypeOK, nodes
<1>2. TurnsInv'
  BY DEF TurnsInv
<1>3. ChainInv' /\ HashesInv'
  BY SameArticles DEF Inv, Whole
<1>4. SortInv'
  BY DEF SortInv
<1> QED
  BY <1>1, <1>2, <1>3, <1>4 DEF Inv

(* A step of the key loop, between two fetches.                            *)
LEMMA KeyStepInv ==
  ASSUME Inv, fpc = "sleep", fpc' = "sleep", UNCHANGED <<list, nodes>>,
         shared' = shared, input' \in BOOLEAN, todo' = todo,
         upc' \in {"keys", "search", "reset", "sort", "join", "head", "mark", "draw", "store",
                  "crashed"},
         shared \/ upc' # "keys" => list # Nil,
         Whole' => Whole,
         SortInv'
  PROVE  Inv'
<1>1. TypeOK'
  BY DEF Inv, TypeOK, nodes
<1>2. TurnsInv'
  BY DEF Inv, TurnsInv
<1>3. ChainInv' /\ HashesInv'
  BY SameArticles DEF Inv, Pending
<1>4. FetchInv'
  BY DEF FetchInv
<1> QED
  BY <1>1, <1>2, <1>3, <1>4 DEF Inv

-----------------------------------------------------------------------------
(* The invariant is kept: the fetch thread *)

(* The first fetch allocates the head; a later one takes the list as it    *)
(* is.                                                                     *)
LEMMA FetchStartInv ==
  ASSUME Inv, ~Concurrent, FetchStart
  PROVE  Inv'
<1>1. fpc = "sleep" /\ fpc' = "request" /\ upc = "keys" /\ upc' = "keys"
  BY DEF FetchStart, keyvars
<1>2. CASE list # Nil /\ UNCHANGED <<list, nodes>>
  <2>1. UNCHANGED <<shared, input, todo>> /\ Pending' = Pending /\ FetchInv'
    BY <1>1 DEF FetchStart, Pending, FetchInv
  <2> QED
    BY <1>1, <1>2, <2>1, FetchStepInv DEF Inv, TypeOK
<1>3. CASE list = Nil /\ ~ (list # Nil /\ UNCHANGED <<list, nodes>>)
  <2>1. /\ list = Nil /\ list' = Fresh /\ used' = used \cup {Fresh}
        /\ \E p \in {Nil, Wild} : previous' = [previous EXCEPT ![Fresh] = p]
        /\ \E f \in SUBSET {"match"} : flags' = [flags EXCEPT ![Fresh] = f]
        /\ UNCHANGED <<next, hash, init, shared, input, todo>>
    BY <1>3 DEF FetchStart
  <2>2. Whole /\ Pending = {} /\ Pending' = {} /\ used = {}
    <3>1. Whole /\ Pending = {} /\ Pending' = {}
      BY <1>1 DEF Whole, Pending
    <3> QED
      BY <2>1, <3>1, ChainFacts DEF Inv
  <2>3. Fresh \in Nodes /\ Fresh # Nil
    BY <2>2, FreshIs, ArticleListAssumption
  <2>4. next[Fresh] = Nil /\ init[Fresh] = 0
    BY <2>2, <2>3 DEF Inv, HashesInv
  <2>5. TypeOK'
    BY <1>1, <2>1, <2>3 DEF Inv, TypeOK, Flags
  <2>6. TurnsInv'
    BY <1>1, <2>1, <2>3 DEF TurnsInv
  <2> DEFINE s == <<Fresh>>
  <2>7. s \in Seq(Nodes) /\ Len(s) = 1 /\ s[1] = Fresh /\ s # << >> /\ Elements(s) = {Fresh}
    BY <2>3 DEF Elements
  <2> HIDE DEF s
  <2>8. IsChain(next', list', s)
    BY <2>1, <2>4, <2>7 DEF IsChain
  <2>9. Chain' = s
    BY <2>8, ChainIsPrimed
  <2>10. ChainInv'
    <3>1. Follows(Chain)'
      BY <2>7, <2>9 DEF Follows
    <3>2. Elements(Chain)' = used' \ Pending'
      <4>1. Elements(Chain)' = Elements(s)
        BY <2>9 DEF Elements
      <4> QED
        BY <2>1, <2>2, <2>7, <4>1
    <3>3. previous'[list'] \in {Nil, Wild}
      BY <2>1, <2>3 DEF Inv, TypeOK
    <3>4. LastIsPlain(Chain)'
      BY <2>1, <2>4 DEF LastIsPlain
    <3> QED
      BY <2>8, <2>9, <3>1, <3>2, <3>3, <3>4 DEF ChainInv
  <2>11. HashesInv'
    BY <2>1, <2>2, <2>4 DEF Inv, HashesInv, Same
  <2>12. FetchInv' /\ SortInv'
    BY <1>1 DEF FetchInv, SortInv
  <2> QED
    BY <2>5, <2>6, <2>10, <2>11, <2>12 DEF Inv
<1> QED
  BY <1>2, <1>3 DEF FetchStart

LEMMA FetchTurn ==
  ASSUME Inv, fpc # "sleep"
  PROVE  upc = "keys" /\ list # Nil /\ Whole
BY DEF Inv, TurnsInv, Whole

LEMMA FetchFailsInv ==
  ASSUME Inv, FetchFails
  PROVE  Inv'
<1>1. /\ fpc = "request" /\ fpc' = "draw" /\ upc' = upc /\ shared' = TRUE
      /\ UNCHANGED <<list, nodes, input, todo>>
  BY DEF FetchFails, keyvars
<1>2. Pending' = Pending /\ FetchInv'
  BY <1>1 DEF Pending, FetchInv
<1> QED
  BY <1>1, <1>2, FetchTurn, FetchStepInv DEF Inv, TypeOK

LEMMA FetchReplyInv ==
  ASSUME Inv, FetchReply
  PROVE  Inv'
<1>1. /\ fpc = "request" /\ fpc' = "article" /\ upc' = upc
      /\ UNCHANGED <<list, nodes, input, shared>>
  BY DEF FetchReply, keyvars
<1>2. todo' \in Seq(Article)
  BY ArticleListAssumption DEF FetchReply
<1>3. Pending' = Pending /\ FetchInv'
  BY <1>1 DEF Pending, FetchInv
<1> QED
  BY <1>1, <1>2, <1>3, FetchTurn, FetchStepInv DEF Inv, TypeOK

LEMMA FetchDoneInv ==
  ASSUME Inv, FetchDone
  PROVE  Inv'
<1>1. /\ fpc = "article" /\ fpc' = "draw" /\ upc' = upc /\ shared' = TRUE
      /\ UNCHANGED <<list, nodes, input, todo>>
  BY DEF FetchDone, keyvars
<1>2. Pending' = Pending /\ FetchInv'
  BY <1>1 DEF Pending, FetchInv
<1> QED
  BY <1>1, <1>2, FetchTurn, FetchStepInv DEF Inv, TypeOK

LEMMA FindBeginInv ==
  ASSUME Inv, FindBegin
  PROVE  Inv'
<1>1. /\ fpc = "article" /\ fpc' = "find" /\ upc' = upc /\ todo # << >>
      /\ fnode' = IF Head(todo).hash = NoHash THEN Nil ELSE list
      /\ UNCHANGED <<list, nodes, input, shared, todo>>
  BY DEF FindBegin, keyvars
<1>2. upc = "keys" /\ list # Nil /\ Whole
  BY <1>1, FetchTurn
<1>3. Chain' = Chain
  BY <1>1, SameChain DEF nodes
<1>4. Len(Chain) \in Nat /\ Len(Chain) >= 1 /\ Chain[1] = list
  BY <1>2, ChainFacts DEF Inv
<1>5. FetchInv'
  <2>1. CASE Head(todo).hash = NoHash
    <3>1. Len(Chain') + 1 \in 1..(Len(Chain') + 1) /\ fnode' = Nil /\ Head(todo').hash = NoHash
      BY <1>1, <1>3, <1>4, <2>1
    <3> QED
      BY <1>1, <3>1 DEF FetchInv
  <2>2. CASE Head(todo).hash # NoHash
    <3>1. 1 \in 1..(Len(Chain') + 1) /\ 1 # Len(Chain') + 1 /\ fnode' = Chain'[1]
      BY <1>1, <1>3, <1>4, <2>2
    <3>2. \A j \in 1..(1 - 1) : init'[Chain'[j]] = 1 => hash'[Chain'[j]] # Head(todo').hash
      OBVIOUS
    <3> QED
      BY <1>1, <3>1, <3>2 DEF FetchInv
  <2> QED
    BY <2>1, <2>2
<1>6. Pending' = Pending
  BY <1>1 DEF Pending
<1> QED
  BY <1>1, <1>2, <1>5, <1>6, FetchStepInv DEF Inv, TypeOK

(* The article is over: the next one, or the end of the answer.            *)
LEMMA DoneWithArticle ==
  ASSUME TypeOK, todo # << >>, ArticleDone
  PROVE  /\ todo' \in Seq(Article)
         /\ fpc' = "article" /\ Pending' = {} /\ FetchInv'
<1>1. fpc' = "article" /\ todo' = Tail(todo)
  BY DEF ArticleDone
<1>2. Tail(todo) \in Seq(Article)
  BY HeadTailProperties DEF TypeOK
<1> QED
  BY <1>1, <1>2 DEF Pending, FetchInv

LEMMA FindHitInv ==
  ASSUME Inv, FindHit
  PROVE  Inv'
<1>1. fpc = "find" /\ ArticleDone /\ upc' = upc /\ UNCHANGED <<list, nodes, input, shared>>
  BY DEF FindHit, keyvars
<1>2. upc = "keys" /\ list # Nil /\ todo # << >> /\ Pending = {}
  BY <1>1, FetchTurn DEF Inv, TurnsInv, Pending
<1> QED
  BY <1>1, <1>2, DoneWithArticle, FetchStepInv DEF Inv, TypeOK

LEMMA NoMemoryInv ==
  ASSUME Inv, NoMemory
  PROVE  Inv'
<1>1. fpc = "find" /\ ArticleDone /\ upc' = upc /\ UNCHANGED <<list, nodes, input, shared>>
  BY DEF NoMemory, keyvars
<1>2. upc = "keys" /\ list # Nil /\ todo # << >> /\ Pending = {}
  BY <1>1, FetchTurn DEF Inv, TurnsInv, Pending
<1> QED
  BY <1>1, <1>2, DoneWithArticle, FetchStepInv DEF Inv, TypeOK

LEMMA FindStepInv ==
  ASSUME Inv, FindStep
  PROVE  Inv'
<1>1. /\ fpc = "find" /\ fpc' = "find" /\ upc' = upc /\ fnode # Nil /\ ~Found
      /\ fnode' = next[fnode]
      /\ UNCHANGED <<list, nodes, input, shared, todo>>
  BY DEF FindStep, keyvars
<1>2. upc = "keys" /\ list # Nil /\ Whole /\ todo # << >> /\ Pending' = Pending
  BY <1>1, FetchTurn DEF Inv, TurnsInv, Pending
<1>3. Chain' = Chain
  BY <1>1, SameChain DEF nodes
<1>4. /\ Len(Chain) \in Nat
      /\ \A k \in 1..Len(Chain) :
           next[Chain[k]] = IF k = Len(Chain) THEN Nil ELSE Chain[k + 1]
  BY <1>2, ChainFacts DEF Inv
<1>5. FetchInv'
  <2>1. PICK k \in 1..(Len(Chain) + 1) :
          /\ fnode = IF k = Len(Chain) + 1 THEN Nil ELSE Chain[k]
          /\ Head(todo).hash # NoHash =>
               \A j \in 1..(k - 1) : init[Chain[j]] = 1 => hash[Chain[j]] # Head(todo).hash
    BY <1>1 DEF Inv, FetchInv
  <2>2. k \in 1..Len(Chain) /\ fnode = Chain[k]
    BY <1>1, <1>4, <2>1
  <2>3. k + 1 \in 1..(Len(Chain) + 1)
    BY <1>4, <2>2
  <2>4. fnode' = IF k + 1 = Len(Chain) + 1 THEN Nil ELSE Chain[k + 1]
    BY <1>1, <1>4, <2>2
  <2>5. init[fnode] = 1 => hash[fnode] # Head(todo).hash
    BY <1>1 DEF Found
  <2>6. Head(todo).hash # NoHash =>
          \A j \in 1..((k + 1) - 1) : init[Chain[j]] = 1 => hash[Chain[j]] # Head(todo).hash
    BY <1>4, <2>1, <2>2, <2>5
  <2>7. init' = init /\ hash' = hash /\ todo' = todo
    BY <1>1 DEF nodes
  <2> QED
    BY <1>1, <1>3, <2>3, <2>4, <2>6, <2>7 DEF FetchInv
<1> QED
  BY <1>1, <1>2, <1>5, FetchStepInv DEF Inv, TypeOK

(* The head is filled in once, when it is the only article.                *)
LEMMA FillHeadInv ==
  ASSUME Inv, FillHead
  PROVE  Inv'
<1>1. /\ fpc = "find" /\ fnode = Nil /\ upc' = upc /\ ArticleDone
      /\ init[list] <= 0
      /\ init' = [init EXCEPT ![list] = @ + 1]
      /\ flags' = [flags EXCEPT ![list] = {}]
      /\ hash' = [hash EXCEPT ![list] = Head(todo).hash]
      /\ UNCHANGED <<list, shared, next, previous, used, input>>
  BY DEF FillHead, keyvars
<1>2. /\ upc = "keys" /\ list # Nil /\ Whole /\ Whole' /\ todo # << >> /\ Pending = {}
      /\ list \in Nodes
  BY <1>1, FetchTurn DEF Inv, TypeOK, TurnsInv, Pending, Whole
<1>3. /\ todo' \in Seq(Article)
      /\ fpc' = "article" /\ Pending' = {} /\ FetchInv'
  BY <1>1, <1>2, DoneWithArticle DEF Inv
<1>4. Head(todo).hash \in Hashes \cup {NoHash}
  <2>1. Head(todo) \in Article
    BY <1>2, HeadTailProperties DEF Inv, TypeOK
  <2> QED
    BY <2>1 DEF Article
<1>5. init[list] = 0 /\ init'[list] = 1
  BY <1>1, <1>2 DEF Inv, TypeOK
<1>6. list \in used /\ used = {list}
  <2>1. list \in used
    BY <1>2, ChainFacts DEF Inv
  <2> QED
    BY <1>5, <2>1 DEF Inv, HashesInv
<1>7. TypeOK'
  <2>1. init' \in [Nodes -> {0, 1}]
    BY <1>1, <1>2, <1>5 DEF Inv, TypeOK
  <2>2. hash' \in [Nodes -> Hashes \cup {NoHash}] /\ flags' \in [Nodes -> SUBSET Flags]
    BY <1>1, <1>2, <1>4 DEF Inv, TypeOK
  <2> QED
    BY <1>1, <1>3, <2>1, <2>2 DEF Inv, TypeOK
<1>8. TurnsInv'
  BY <1>1, <1>2, <1>3 DEF TurnsInv
<1>9. Chain' = Chain /\ Elements(Chain)' = Elements(Chain)
  BY <1>1, SameChain DEF Elements
<1>10. ChainInv'
  <2>1. IsChain(next', list', Chain') /\ previous'[list'] \in {Nil, Wild}
    BY <1>1, <1>2, <1>9 DEF Inv, ChainInv
  <2>2. Follows(Chain)'
    BY <1>1, <1>2, <1>9 DEF Inv, ChainInv, Follows
  <2>3. Elements(Chain)' = used' \ Pending'
    BY <1>1, <1>2, <1>3, <1>9 DEF Inv, ChainInv
  <2>4. LastIsPlain(Chain)'
    <3>1. Chain[Len(Chain)] = list
      BY <1>2, <1>6, ChainFacts DEF Inv
    <3>2. flags'[list] = {}
      BY <1>1, <1>2 DEF Inv, TypeOK
    <3> QED
      BY <1>9, <3>1, <3>2 DEF LastIsPlain
  <2> QED
    BY <2>1, <2>2, <2>3, <2>4 DEF ChainInv
<1>11. HashesInv'
  BY <1>1, <1>2, <1>5, <1>6 DEF Inv, HashesInv, TypeOK, Same
<1>12. SortInv'
  BY <1>1, <1>2 DEF SortInv
<1> QED
  BY <1>3, <1>7, <1>8, <1>10, <1>11, <1>12 DEF Inv

LEMMA NewArticleInv ==
  ASSUME Inv, NewArticle
  PROVE  Inv'
<1> DEFINE n == Fresh
<1>1. /\ fpc = "find" /\ fnode = Nil /\ upc' = upc
      /\ init[list] > 0 /\ used # Nodes
      /\ fnew' = n /\ fnode' = list /\ fpc' = "walk"
      /\ used' = used \cup {n}
      /\ init' = [init EXCEPT ![n] = 1]
      /\ flags' = [flags EXCEPT ![n] = IF Head(todo).saved THEN {"saved"} ELSE {}]
      /\ hash' = [hash EXCEPT ![n] = Head(todo).hash]
      /\ next' = [next EXCEPT ![n] = Nil]
      /\ previous' = [previous EXCEPT ![n] = Nil]
      /\ UNCHANGED <<list, shared, input, todo>>
  BY DEF NewArticle, keyvars
<1>2. /\ upc = "keys" /\ list # Nil /\ Whole /\ Whole' /\ todo # << >> /\ Pending = {}
      /\ list \in Nodes
  BY <1>1, FetchTurn DEF Inv, TypeOK, TurnsInv, Pending, Whole
<1>3. n \in Nodes /\ n \notin used
  BY <1>1, FreshIs DEF Inv, TypeOK
<1> HIDE DEF n
<1>4. Head(todo).hash \in Hashes \cup {NoHash}
  <2>1. Head(todo) \in Article
    BY <1>2, HeadTailProperties DEF Inv, TypeOK
  <2> QED
    BY <2>1 DEF Article
<1>5. init[list] = 1
  BY <1>1, <1>2 DEF Inv, TypeOK
<1>6. /\ Elements(Chain) = used /\ list \in used /\ n # list
      /\ Len(Chain) \in Nat /\ Len(Chain) >= 1
      /\ \A k \in 1..Len(Chain) : Chain[k] \in Nodes /\ Chain[k] \in used /\ Chain[k] # n
  BY <1>2, <1>3, ChainFacts DEF Inv
<1>7. TypeOK'
  <2>1. /\ init' \in [Nodes -> {0, 1}] /\ hash' \in [Nodes -> Hashes \cup {NoHash}]
        /\ flags' \in [Nodes -> SUBSET Flags]
    BY <1>1, <1>3, <1>4 DEF Inv, TypeOK, Flags
  <2>2. next' \in [Nodes -> Nodes \cup {Nil}] /\ previous' \in [Nodes -> Nodes \cup {Nil, Wild}]
    BY <1>1, <1>3 DEF Inv, TypeOK
  <2>3. used' \in SUBSET Nodes
    BY <1>1, <1>3 DEF Inv, TypeOK
  <2> QED
    BY <1>1, <1>2, <2>1, <2>2, <2>3 DEF Inv, TypeOK
<1>8. TurnsInv'
  BY <1>1, <1>2 DEF TurnsInv
<1>9. IsChain(next', list', Chain)
  <2>1. \A k \in 1..Len(Chain) : next'[Chain[k]] = next[Chain[k]]
    BY <1>1, <1>3, <1>6 DEF Inv, TypeOK
  <2> QED
    BY <1>1, <1>2, <2>1 DEF Inv, ChainInv, IsChain
<1>10. Chain' = Chain /\ Elements(Chain)' = Elements(Chain)
  BY <1>9, ChainIsPrimed DEF Elements
<1>11. ChainInv'
  <2>1. previous'[list'] \in {Nil, Wild}
    BY <1>1, <1>2, <1>3, <1>6 DEF Inv, ChainInv, TypeOK
  <2>2. Follows(Chain)'
    <3>1. \A k \in 2..Len(Chain) : k \in 1..Len(Chain)
      OBVIOUS
    <3>2. \A k \in 2..Len(Chain) : previous'[Chain[k]] = previous[Chain[k]]
      BY <1>1, <1>3, <1>6, <3>1 DEF Inv, TypeOK
    <3> QED
      BY <1>2, <1>10, <3>2 DEF Inv, ChainInv, Follows
  <2>3. Elements(Chain)' = used' \ Pending'
    BY <1>1, <1>3, <1>6, <1>10 DEF Pending
  <2>4. LastIsPlain(Chain)'
    <3>1. flags'[Chain[Len(Chain)]] = flags[Chain[Len(Chain)]]
      BY <1>1, <1>3, <1>6 DEF Inv, TypeOK
    <3>2. LastIsPlain(Chain)
      BY <1>2 DEF Inv, ChainInv
    <3> QED
      BY <1>5, <1>10, <3>1, <3>2 DEF LastIsPlain
  <2> QED
    BY <1>1, <1>9, <1>10, <2>1, <2>2, <2>3, <2>4 DEF ChainInv
<1>12. HashesInv'
  <2>1. Head(todo).hash # NoHash => \A m \in used : init[m] = 1 => hash[m] # Head(todo).hash
    <3>1. PICK k \in 1..(Len(Chain) + 1) :
            /\ fnode = IF k = Len(Chain) + 1 THEN Nil ELSE Chain[k]
            /\ Head(todo).hash # NoHash =>
                 \A j \in 1..(k - 1) : init[Chain[j]] = 1 => hash[Chain[j]] # Head(todo).hash
      BY <1>1 DEF Inv, FetchInv
    <3>2. k = Len(Chain) + 1
      BY <1>1, <1>6, <3>1, ArticleListAssumption
    <3>3. \A m \in used : \E j \in 1..Len(Chain) : m = Chain[j]
      BY <1>2, <1>6, ChainFacts DEF Inv
    <3> QED
      BY <1>6, <3>1, <3>2, <3>3
  <2>2. \A m \in used : init'[m] = init[m] /\ hash'[m] = hash[m] /\ next'[m] = next[m]
    BY <1>1, <1>3 DEF Inv, TypeOK
  <2>3. \A m \in Nodes \ used' : init'[m] = 0 /\ next'[m] = Nil
    BY <1>1, <1>3 DEF Inv, HashesInv, TypeOK
  <2>4. \A m \in used : init[m] = 1
    BY <1>5 DEF Inv, HashesInv
  <2>5. init'[n] = 1 /\ hash'[n] = Head(todo).hash
    BY <1>1, <1>3 DEF Inv, TypeOK
  <2>6. \A m \in used' : init'[m] = 1
    BY <1>1, <2>2, <2>4, <2>5
  <2>7. \A l, m \in used' : hash'[l] = hash'[m] /\ hash'[l] # NoHash => l = m
    <3>1. \A l, m \in used : hash[l] = hash[m] /\ hash[l] # NoHash => l = m
      BY <2>4 DEF Inv, HashesInv, Same
    <3> QED
      BY <1>1, <2>1, <2>2, <2>4, <2>5, <3>1
  <2> QED
    BY <2>3, <2>6, <2>7 DEF HashesInv, Same
<1>13. FetchInv'
  <2>1. "match" \notin flags'[n] /\ next'[n] = Nil /\ init'[n] = 1
    BY <1>1, <1>3 DEF Inv, TypeOK
  <2>2. init'[list'] = 1 /\ fnode' \in Elements(Chain)' /\ fnew' \in used'
    BY <1>1, <1>3, <1>5, <1>6, <1>10 DEF Inv, TypeOK
  <2> QED
    BY <1>1, <2>1, <2>2 DEF FetchInv
<1>14. SortInv'
  BY <1>1, <1>2 DEF SortInv
<1> QED
  BY <1>7, <1>8, <1>11, <1>12, <1>13, <1>14 DEF Inv

LEMMA WalkInv ==
  ASSUME Inv, Walk
  PROVE  Inv'
<1>1. /\ fpc = "walk" /\ fpc' = "walk" /\ upc' = upc /\ next[fnode] # Nil
      /\ fnode' = next[fnode] /\ fnew' = fnew
      /\ UNCHANGED <<list, nodes, input, shared, todo>>
  BY DEF Walk, keyvars
<1>2. upc = "keys" /\ list # Nil /\ Whole /\ todo # << >> /\ Pending' = Pending
  BY <1>1, FetchTurn DEF Inv, TurnsInv, Pending
<1>3. Elements(Chain)' = Elements(Chain)
  BY <1>1, SameChain DEF nodes, Elements
<1>4. fnode' \in Elements(Chain)
  <2>1. PICK k \in 1..Len(Chain) : fnode = Chain[k]
    BY <1>1, <1>2, ChainFacts DEF Inv, FetchInv
  <2>2. k + 1 \in 1..Len(Chain) /\ fnode' = Chain[k + 1]
    BY <1>1, <1>2, <2>1, ChainFacts DEF Inv
  <2> QED
    BY <1>2, <2>2, ChainFacts DEF Inv
<1>5. FetchInv'
  BY <1>1, <1>3, <1>4 DEF Inv, FetchInv, nodes
<1> QED
  BY <1>1, <1>2, <1>5, FetchStepInv DEF Inv, TypeOK

LEMMA WalkEndInv ==
  ASSUME Inv, WalkEnd
  PROVE  Inv'
<1>1. /\ fpc = "walk" /\ fpc' = "link" /\ upc' = upc /\ next[fnode] = Nil
      /\ fnode' = fnode /\ fnew' = fnew
      /\ UNCHANGED <<list, nodes, input, shared, todo>>
  BY DEF WalkEnd, keyvars
<1>2. upc = "keys" /\ list # Nil /\ Whole /\ todo # << >> /\ Pending' = Pending
  BY <1>1, FetchTurn DEF Inv, TurnsInv, Pending
<1>3. Elements(Chain)' = Elements(Chain)
  BY <1>1, SameChain DEF nodes, Elements
<1>4. FetchInv'
  BY <1>1, <1>3 DEF Inv, FetchInv, nodes
<1> QED
  BY <1>1, <1>2, <1>4, FetchStepInv DEF Inv, TypeOK

(* The new article goes behind the last.                                   *)
LEMMA LinkInv ==
  ASSUME Inv, Link
  PROVE  Inv'
<1>1. /\ fpc = "link" /\ upc' = upc /\ ArticleDone
      /\ previous' = [previous EXCEPT ![fnew] = fnode]
      /\ next' = [next EXCEPT ![fnode] = fnew]
      /\ UNCHANGED <<list, shared, hash, flags, init, used, input>>
  BY DEF Link, keyvars
<1>2. /\ upc = "keys" /\ list # Nil /\ Whole /\ Whole' /\ todo # << >> /\ Pending = {fnew}
  BY <1>1, FetchTurn DEF Inv, TurnsInv, Pending, Whole
<1>3. /\ todo' \in Seq(Article)
      /\ fpc' = "article" /\ Pending' = {} /\ FetchInv'
  BY <1>1, <1>2, DoneWithArticle DEF Inv
<1>4. /\ fnode \in Elements(Chain) /\ fnew \in used /\ init[fnew] = 1
      /\ "match" \notin flags[fnew] /\ next[fnew] = Nil /\ next[fnode] = Nil
  BY <1>1 DEF Inv, FetchInv
<1> DEFINE s == Append(Chain, fnew)
           len == Len(Chain)
<1>5. /\ Chain \in Seq(Nodes) /\ len \in Nat /\ len >= 1
      /\ \A k \in 1..len : Chain[k] \in Nodes /\ Chain[k] \in Elements(Chain)
      /\ \A j, k \in 1..len : Chain[j] = Chain[k] => j = k
      /\ \A k \in 1..len : next[Chain[k]] = IF k = len THEN Nil ELSE Chain[k + 1]
      /\ Elements(Chain) = used \ {fnew}
      /\ Chain[1] = list /\ list \in Elements(Chain)
  BY <1>2, ChainFacts DEF Inv
<1>6. fnode = Chain[len] /\ fnode \in Nodes /\ fnew \in Nodes /\ fnew # fnode /\ fnew # list
  <2>1. PICK k \in 1..len : fnode = Chain[k]
    BY <1>2, <1>4, ChainFacts DEF Inv
  <2>2. k = len
    <3>1. k # len => k + 1 \in 1..len
      BY <1>5
    <3>2. \A l \in 1..len : Chain[l] # Nil
      BY <1>5, ArticleListAssumption
    <3> QED
      BY <1>4, <1>5, <2>1, <3>1, <3>2
  <2> QED
    BY <1>4, <1>5, <2>1, <2>2 DEF Inv, TypeOK
<1>7. /\ s \in Seq(Nodes) /\ s # << >> /\ Len(s) = len + 1
      /\ \A k \in 1..len : s[k] = Chain[k]
      /\ s[len + 1] = fnew
  BY <1>5, <1>6, AppendProperties
<1> HIDE DEF s, len
<1>8. \A k \in 1..Len(s) : (k \in 1..len /\ s[k] = Chain[k]) \/ (k = len + 1 /\ s[k] = fnew)
  BY <1>5, <1>7
<1>9. IsChain(next', list', s)
  <2>1. \A j, k \in 1..Len(s) : s[j] = s[k] => j = k
    BY <1>5, <1>8
  <2>2. list' = s[1]
    BY <1>1, <1>5, <1>7
  <2>3. ASSUME NEW k \in 1..Len(s)
        PROVE  next'[s[k]] = IF k = Len(s) THEN Nil ELSE s[k + 1]
    <3>1. CASE k = len + 1
      BY <1>1, <1>4, <1>6, <1>7, <3>1 DEF Inv, TypeOK
    <3>2. CASE k = len
      <4>1. next'[fnode] = fnew
        BY <1>1, <1>6 DEF Inv, TypeOK
      <4> QED
        BY <1>5, <1>6, <1>7, <1>8, <3>2, <4>1
    <3>3. CASE k \in 1..(len - 1)
      <4>1. s[k] = Chain[k] /\ s[k + 1] = Chain[k + 1] /\ Chain[k] # fnode /\ Chain[k] \in Nodes
        BY <1>5, <1>6, <1>7, <3>3
      <4>2. next'[Chain[k]] = next[Chain[k]]
        BY <1>1, <4>1 DEF Inv, TypeOK
      <4> QED
        BY <1>5, <1>7, <3>3, <4>1, <4>2
    <3> QED
      BY <1>5, <1>8, <3>1, <3>2, <3>3
  <2> QED
    BY <1>7, <2>1, <2>2, <2>3 DEF IsChain
<1>10. Chain' = s
  BY <1>9, ChainIsPrimed
<1>11. ChainInv'
  <2>1. previous'[list'] \in {Nil, Wild}
    BY <1>1, <1>2, <1>5, <1>6 DEF Inv, ChainInv, TypeOK
  <2>2. Follows(Chain)'
    <3> SUFFICES ASSUME NEW k \in 2..Len(s) PROVE previous'[s[k]] = s[k - 1]
      BY <1>10 DEF Follows
    <3>1. CASE k = len + 1
      <4>1. previous'[fnew] = fnode
        BY <1>1, <1>6 DEF Inv, TypeOK
      <4> QED
        BY <1>5, <1>6, <1>7, <3>1, <4>1
    <3>2. CASE k # len + 1
      <4>1. k \in 2..len /\ s[k] = Chain[k] /\ s[k - 1] = Chain[k - 1] /\ Chain[k] \in Nodes
            /\ Chain[k] # fnew
        BY <1>5, <1>7, <3>2
      <4>2. previous'[Chain[k]] = previous[Chain[k]]
        BY <1>1, <4>1 DEF Inv, TypeOK
      <4>3. previous[Chain[k]] = Chain[k - 1]
        BY <1>2, <4>1 DEF Inv, ChainInv, Follows, len
      <4> QED
        BY <4>1, <4>2, <4>3
    <3> QED
      BY <3>1, <3>2
  <2>3. Elements(Chain)' = used' \ Pending'
    <3>1. Elements(Chain)' = {s[k] : k \in 1..Len(s)}
      BY <1>10 DEF Elements
    <3>2. Elements(Chain) = {Chain[k] : k \in 1..len}
      BY DEF Elements, len
    <3>3. {s[k] : k \in 1..Len(s)} = {Chain[k] : k \in 1..len} \cup {fnew}
      <4>1. \A k \in 1..len : k \in 1..Len(s) /\ s[k] = Chain[k]
        BY <1>5, <1>7
      <4>2. len + 1 \in 1..Len(s) /\ s[len + 1] = fnew
        BY <1>5, <1>7
      <4> QED
        BY <1>8, <4>1, <4>2
    <3>4. Elements(Chain) \cup {fnew} = used
      BY <1>4, <1>5
    <3>5. used' \ Pending' = used
      BY <1>1, <1>3
    <3> QED
      BY <3>1, <3>2, <3>3, <3>4, <3>5, Zenon
  <2>4. LastIsPlain(Chain)'
    BY <1>1, <1>4, <1>7, <1>10 DEF LastIsPlain
  <2> QED
    BY <1>9, <1>10, <2>1, <2>2, <2>3, <2>4 DEF ChainInv
<1>12. HashesInv'
  <2>1. \A m \in Nodes \ used : next'[m] = next[m]
    BY <1>1, <1>4, <1>5 DEF Inv, TypeOK
  <2> QED
    BY <1>1, <2>1 DEF Inv, HashesInv, Same
<1>13. TypeOK'
  BY <1>1, <1>2, <1>3, <1>6 DEF Inv, TypeOK
<1>14. TurnsInv' /\ SortInv'
  BY <1>1, <1>2, <1>3 DEF TurnsInv, SortInv
<1> QED
  BY <1>3, <1>11, <1>12, <1>13, <1>14 DEF Inv

LEMMA FetchDrawsNoneInv ==
  ASSUME Inv, FetchDrawsNone
  PROVE  Inv'
<1>1. /\ fpc = "draw" /\ fpc' = "sleep" /\ upc' = upc
      /\ UNCHANGED <<list, nodes, input, shared, todo>>
  BY DEF FetchDrawsNone, keyvars
<1>2. Pending' = Pending /\ FetchInv'
  BY <1>1 DEF Pending, FetchInv
<1> QED
  BY <1>1, <1>2, FetchTurn, FetchStepInv DEF Inv, TypeOK

LEMMA FetchDrawsInv ==
  ASSUME Inv, FetchDraws
  PROVE  Inv' /\ IsRead(fread)'
<1>1. /\ fpc = "draw" /\ fpc' = "store" /\ upc' = upc
      /\ UNCHANGED <<list, nodes, input, shared, todo>>
  BY DEF FetchDraws, keyvars
<1>2. Pending' = Pending /\ FetchInv'
  BY <1>1 DEF Pending, FetchInv
<1>3. upc = "keys" /\ list # Nil /\ Whole
  BY <1>1, FetchTurn
<1>4. PICK n \in Elements(Chain) : fread' = Read(n)
  BY DEF FetchDraws
<1>5. IsRead(fread)'
  BY <1>1, <1>3, <1>4, ChainFacts DEF Inv, IsRead, Read, nodes
<1> QED
  BY <1>1, <1>2, <1>3, <1>5, FetchStepInv DEF Inv, TypeOK

LEMMA FetchDrawnInv ==
  ASSUME Inv, WordsInv, ~Concurrent, FetchDrawn
  PROVE  Inv' /\ UNCHANGED flags
<1>1. /\ fpc = "store" /\ fpc' = "sleep" /\ IsRead(fread)
      /\ UNCHANGED <<list, next, previous, hash, init, used, input, shared, todo>>
  BY DEF FetchDrawn, WordsInv
<1>2. fread.node \in Nodes /\ fread.node # Nil /\ fread.flags = flags[fread.node]
  BY <1>1, ArticleListAssumption DEF IsRead
<1>3. flags' = [flags EXCEPT ![fread.node] = fread.flags] /\ upc' = upc
  BY <1>2 DEF FetchDrawn, AtRow, Write
<1>4. UNCHANGED flags
  BY <1>2, <1>3 DEF Inv, TypeOK
<1>5. upc = "keys" /\ list # Nil /\ Pending' = Pending /\ FetchInv'
  BY <1>1, FetchTurn DEF Pending, FetchInv
<1> QED
  BY <1>1, <1>3, <1>4, <1>5, FetchStepInv DEF Inv, TypeOK, nodes

-----------------------------------------------------------------------------
(* The invariant is kept: keys, search, reset and mark *)

LEMMA KeyTurn ==
  ASSUME Inv, ~Concurrent, Key \/ upc # "keys"
  PROVE  fpc = "sleep" /\ (shared \/ upc # "keys" => list # Nil)
BY DEF Inv, TurnsInv, Key

LEMMA OpenSearchInv ==
  ASSUME Inv, ~Concurrent, OpenSearch
  PROVE  Inv'
<1>1. /\ upc = "keys" /\ upc' = upc /\ fpc' = fpc /\ input' = TRUE
      /\ UNCHANGED <<list, nodes, shared, todo>>
  BY DEF OpenSearch, Key, keyvars, fetchvars
<1>2. fpc = "sleep" /\ (shared => list # Nil)
  BY KeyTurn DEF OpenSearch
<1>3. SortInv'
  BY <1>1 DEF SortInv
<1> QED
  BY <1>1, <1>2, <1>3, KeyStepInv DEF Whole

LEMMA EnterOnDummyInv ==
  ASSUME Inv, ~Concurrent, EnterOnDummy
  PROVE  Inv'
<1>1. /\ upc = "keys" /\ upc' = upc /\ fpc' = fpc /\ input' = FALSE
      /\ UNCHANGED <<list, nodes, shared, todo>>
  BY DEF EnterOnDummy, Key, keyvars, fetchvars
<1>2. fpc = "sleep" /\ (shared => list # Nil)
  BY KeyTurn DEF EnterOnDummy
<1>3. SortInv'
  BY <1>1 DEF SortInv
<1> QED
  BY <1>1, <1>2, <1>3, KeyStepInv DEF Whole

(* A search and a reset begin at the head.                                 *)
LEMMA WalkBegins ==
  ASSUME Inv, Whole, list # Nil, UNCHANGED <<list, next>>,
         upc' \in {"search", "reset"}, i' = list
  PROVE  SortInv'
<1>1. Elements(Chain)' = Elements(Chain)
  BY SameChain DEF Elements
<1>2. list \in Elements(Chain)
  BY ChainFacts DEF Inv
<1> QED
  BY <1>1, <1>2 DEF SortInv

LEMMA EnterInv ==
  ASSUME Inv, ~Concurrent, Enter
  PROVE  Inv'
<1>1. /\ upc = "keys" /\ upc' = "search" /\ fpc' = fpc /\ input' = FALSE /\ shared
      /\ i' = list
      /\ UNCHANGED <<list, nodes, shared, todo>>
  BY DEF Enter, Key, fetchvars
<1>2. fpc = "sleep" /\ list # Nil
  BY <1>1, KeyTurn DEF Enter
<1>3. SortInv'
  BY <1>1, <1>2, WalkBegins DEF Whole, nodes
<1> QED
  BY <1>1, <1>2, <1>3, KeyStepInv DEF Whole

LEMMA ResetInv ==
  ASSUME Inv, ~Concurrent, Reset
  PROVE  Inv'
<1>1. /\ upc = "keys" /\ upc' = "reset" /\ fpc' = fpc /\ shared /\ i' = list
      /\ UNCHANGED <<list, nodes, shared, todo, input>>
  BY DEF Reset, Key, fetchvars
<1>2. fpc = "sleep" /\ list # Nil /\ input' \in BOOLEAN
  BY <1>1, KeyTurn DEF Reset, Inv, TypeOK
<1>3. SortInv'
  BY <1>1, <1>2, WalkBegins DEF Whole, nodes
<1> QED
  BY <1>1, <1>2, <1>3, KeyStepInv DEF Whole

(* Steps that change flags only, and give the last article no match.       *)
LEMMA FlagsInv ==
  ASSUME Inv, fpc = "sleep", Whole, Whole', list # Nil,
         UNCHANGED <<list, next, previous, hash, init, used, shared, input, fpc, todo>>,
         flags' \in [Nodes -> SUBSET Flags],
         "match" \notin flags[Chain[Len(Chain)]] => "match" \notin flags'[Chain[Len(Chain)]],
         SortInv'
  PROVE  Inv'
<1>1. Chain' = Chain /\ Elements(Chain)' = Elements(Chain)
  BY SameChain DEF Elements
<1>2. Pending = {} /\ Pending' = {}
  BY DEF Pending
<1>3. ChainInv'
  <2>1. IsChain(next', list', Chain') /\ previous'[list'] \in {Nil, Wild}
    BY <1>1 DEF Inv, ChainInv
  <2>2. Follows(Chain)'
    BY <1>1 DEF Inv, ChainInv, Follows
  <2>3. Elements(Chain)' = used' \ Pending'
    BY <1>1, <1>2 DEF Inv, ChainInv
  <2>4. LastIsPlain(Chain)'
    BY <1>1 DEF Inv, ChainInv, LastIsPlain
  <2> QED
    BY <2>1, <2>2, <2>3, <2>4 DEF ChainInv
<1>4. HashesInv'
  BY DEF Inv, HashesInv, Same
<1>5. TypeOK'
  BY DEF Inv, TypeOK, Whole
<1>6. TurnsInv' /\ FetchInv'
  BY DEF TurnsInv, FetchInv
<1> QED
  BY <1>3, <1>4, <1>5, <1>6 DEF Inv

(* Reading the word of an article of the list, or drawing without one.     *)
LEMMA KeyReadsInv ==
  ASSUME Inv, fpc = "sleep", fpc' = "sleep", shared \/ upc # "keys", Whole,
         upc' \in {"mark", "draw", "store"}, UNCHANGED <<list, nodes, shared, input, todo>>
  PROVE  Inv'
<1>1. list # Nil /\ input' \in BOOLEAN /\ Whole'
  BY DEF Inv, TypeOK, TurnsInv, Whole
<1>2. SortInv'
  BY DEF SortInv
<1> QED
  BY <1>1, <1>2, KeyStepInv

LEMMA MarkInv ==
  ASSUME Inv, ~Concurrent, Mark
  PROVE  Inv' /\ IsRead(kread)'
<1>1. /\ upc = "keys" /\ upc' = "mark" /\ fpc' = fpc /\ shared /\ fpc = "sleep"
      /\ UNCHANGED <<list, nodes, shared, input, todo>>
  BY DEF Mark, Key, fetchvars
<1>2. list # Nil /\ Whole
  BY <1>1, KeyTurn DEF Mark, Whole
<1>3. PICK n \in Elements(Chain) : kread' = Read(n)
  BY DEF Mark
<1>4. IsRead(kread)'
  BY <1>1, <1>2, <1>3, ChainFacts DEF Inv, IsRead, Read, nodes
<1> QED
  BY <1>1, <1>2, <1>4, KeyReadsInv

LEMMA RedrawInv ==
  ASSUME Inv, ~Concurrent, Redraw
  PROVE  Inv'
<1>1. /\ upc = "keys" /\ upc' = "draw" /\ fpc' = fpc /\ shared /\ fpc = "sleep"
      /\ UNCHANGED <<list, nodes, shared, input, todo>>
  BY DEF Redraw, Key, fetchvars
<1> QED
  BY <1>1, KeyReadsInv DEF Whole

LEMMA KeyDrawsInv ==
  ASSUME Inv, KeyDraws
  PROVE  Inv' /\ IsRead(kread)'
<1>1. /\ upc = "draw" /\ upc' = "store" /\ fpc' = fpc
      /\ UNCHANGED <<list, nodes, shared, input, todo>>
  BY DEF KeyDraws, fetchvars
<1>2. fpc = "sleep" /\ Whole
  BY <1>1 DEF Inv, TurnsInv, Whole
<1>3. PICK n \in Elements(Chain) : kread' = Read(n)
  BY DEF KeyDraws
<1>4. IsRead(kread)'
  BY <1>1, <1>2, <1>3, ChainFacts DEF Inv, IsRead, Read, nodes
<1> QED
  BY <1>1, <1>2, <1>4, KeyReadsInv

LEMMA KeyDrawsNoneInv ==
  ASSUME Inv, KeyDrawsNone
  PROVE  Inv'
<1>1. /\ upc = "draw" /\ upc' = "keys" /\ fpc' = fpc
      /\ UNCHANGED <<list, nodes, shared, input, todo>>
  BY DEF KeyDrawsNone, fetchvars
<1>2. fpc = "sleep" /\ list # Nil /\ input' \in BOOLEAN /\ Whole /\ Whole'
  BY <1>1 DEF Inv, TurnsInv, TypeOK, Whole
<1>3. SortInv'
  BY <1>1 DEF SortInv
<1> QED
  BY <1>1, <1>2, <1>3, KeyStepInv

(* The word that is written back is the one the article still has.         *)
LEMMA KeyDrawnInv ==
  ASSUME Inv, WordsInv, ~Concurrent, KeyDrawn
  PROVE  Inv' /\ UNCHANGED flags
<1>1. /\ upc = "store" /\ IsRead(kread)
      /\ UNCHANGED <<list, next, previous, hash, init, used, shared, input, fpc, todo>>
  BY DEF KeyDrawn, WordsInv, fetchvars
<1>2. kread.node \in Nodes /\ kread.node # Nil /\ kread.flags = flags[kread.node]
  BY <1>1, ArticleListAssumption DEF IsRead
<1>3. flags' = [flags EXCEPT ![kread.node] = kread.flags] /\ upc' = "keys"
  BY <1>2 DEF KeyDrawn, AtRow, Write
<1>4. UNCHANGED flags
  BY <1>2, <1>3 DEF Inv, TypeOK
<1>5. fpc = "sleep" /\ list # Nil /\ input' \in BOOLEAN /\ Whole /\ Whole'
  BY <1>1, <1>3 DEF Inv, TurnsInv, TypeOK, Whole
<1>6. SortInv'
  BY <1>3 DEF SortInv
<1> QED
  BY <1>1, <1>3, <1>4, <1>5, <1>6, KeyStepInv DEF nodes

(* The mark is toggled in the word that the article still has.             *)
LEMMA MarkStoreInv ==
  ASSUME Inv, WordsInv, ~Concurrent, MarkStore
  PROVE  Inv'
<1>1. /\ upc = "mark" /\ IsRead(kread)
      /\ UNCHANGED <<list, next, previous, hash, init, used, shared, input, fpc, todo>>
  BY DEF MarkStore, WordsInv, fetchvars
<1>2. kread.node \in Nodes /\ kread.node # Nil /\ kread.flags = flags[kread.node]
  BY <1>1, ArticleListAssumption DEF IsRead
<1>3. flags' = [flags EXCEPT ![kread.node] = Toggled(kread.flags)] /\ upc' = "draw"
  BY <1>2 DEF MarkStore, AtRow, Write
<1>4. fpc = "sleep" /\ list # Nil /\ Whole /\ Whole'
  BY <1>1, <1>3 DEF Inv, TurnsInv, Whole
<1>5. Len(Chain) \in 1..Len(Chain) /\ Chain[Len(Chain)] \in Nodes
  BY <1>4, ChainFacts DEF Inv
<1>6. flags' \in [Nodes -> SUBSET Flags]
  BY <1>2, <1>3 DEF Inv, TypeOK, Flags, Toggled
<1>7. "match" \notin flags[Chain[Len(Chain)]] => "match" \notin flags'[Chain[Len(Chain)]]
  BY <1>2, <1>3, <1>5 DEF Inv, TypeOK, Toggled
<1>8. SortInv'
  BY <1>3 DEF SortInv
<1> QED
  BY <1>1, <1>4, <1>6, <1>7, <1>8, FlagsInv

(* A walk of the key loop stands on an article that is not the last.       *)
LEMMA WalkStands ==
  ASSUME Inv, upc \in {"search", "reset"}, next[i] # Nil
  PROVE  /\ i \in Nodes /\ i # Chain[Len(Chain)] /\ Chain[Len(Chain)] \in Nodes
         /\ next[i] \in Elements(Chain)
         /\ fpc = "sleep" /\ list # Nil /\ Whole
<1>1. fpc = "sleep" /\ list # Nil /\ Whole /\ i \in Elements(Chain)
  BY DEF Inv, TurnsInv, SortInv, Whole
<1>2. PICK k \in 1..Len(Chain) : i = Chain[k]
  BY <1>1, ChainFacts DEF Inv
<1>3. k # Len(Chain)
  BY <1>1, <1>2, ChainFacts DEF Inv
<1>4. k + 1 \in 1..Len(Chain) /\ Len(Chain) \in 1..Len(Chain) /\ next[i] = Chain[k + 1]
  BY <1>1, <1>2, <1>3, ChainFacts DEF Inv
<1> QED
  BY <1>1, <1>2, <1>3, <1>4, ChainFacts DEF Inv

LEMMA SearchStepInv ==
  ASSUME Inv, SearchStep
  PROVE  Inv'
<1>1. /\ upc = "search" /\ upc' = upc /\ next[i] # Nil /\ i' = next[i]
      /\ flags' = [flags EXCEPT ![i] =
                     IF hash[i] \in pattern THEN @ \cup {"match"} ELSE @ \ {"match"}]
      /\ UNCHANGED <<list, next, previous, hash, init, used, shared, input, fpc, todo>>
  BY DEF SearchStep, fetchvars
<1>2. /\ i \in Nodes /\ i # Chain[Len(Chain)] /\ Chain[Len(Chain)] \in Nodes
      /\ next[i] \in Elements(Chain)
      /\ fpc = "sleep" /\ list # Nil /\ Whole /\ Whole'
  BY <1>1, WalkStands DEF Whole
<1>3. flags' \in [Nodes -> SUBSET Flags]
  BY <1>1, <1>2 DEF Inv, TypeOK, Flags
<1>4. flags'[Chain[Len(Chain)]] = flags[Chain[Len(Chain)]]
  BY <1>1, <1>2 DEF Inv, TypeOK
<1>5. SortInv'
  <2>1. Elements(Chain)' = Elements(Chain)
    BY <1>1, SameChain DEF Elements
  <2> QED
    BY <1>1, <1>2, <2>1 DEF SortInv
<1> QED
  BY <1>1, <1>2, <1>3, <1>4, <1>5, FlagsInv

LEMMA ResetStepInv ==
  ASSUME Inv, ResetStep
  PROVE  Inv'
<1>1. /\ upc = "reset" /\ upc' = upc /\ next[i] # Nil /\ i' = next[i]
      /\ flags' = [flags EXCEPT ![i] = {}]
      /\ UNCHANGED <<list, next, previous, hash, init, used, shared, input, fpc, todo>>
  BY DEF ResetStep, fetchvars
<1>2. /\ i \in Nodes /\ i # Chain[Len(Chain)] /\ Chain[Len(Chain)] \in Nodes
      /\ next[i] \in Elements(Chain)
      /\ fpc = "sleep" /\ list # Nil /\ Whole /\ Whole'
  BY <1>1, WalkStands DEF Whole
<1>3. flags' \in [Nodes -> SUBSET Flags]
  BY <1>1, <1>2 DEF Inv, TypeOK, Flags
<1>4. flags'[Chain[Len(Chain)]] = flags[Chain[Len(Chain)]]
  BY <1>1, <1>2 DEF Inv, TypeOK
<1>5. SortInv'
  <2>1. Elements(Chain)' = Elements(Chain)
    BY <1>1, SameChain DEF Elements
  <2> QED
    BY <1>1, <1>2, <2>1 DEF SortInv
<1> QED
  BY <1>1, <1>2, <1>3, <1>4, <1>5, FlagsInv

LEMMA ResetEndInv ==
  ASSUME Inv, ResetEnd
  PROVE  Inv'
<1>1. /\ upc = "reset" /\ upc' = "draw"
      /\ UNCHANGED <<list, nodes, shared, input, fpc, todo>>
  BY DEF ResetEnd, KeysDone, fetchvars
<1>2. fpc = "sleep" /\ list # Nil /\ input' \in BOOLEAN /\ Whole /\ Whole'
  BY <1>1 DEF Inv, TurnsInv, TypeOK, Whole
<1>3. SortInv'
  BY <1>1 DEF SortInv
<1> QED
  BY <1>1, <1>2, <1>3, KeyStepInv

-----------------------------------------------------------------------------
(* The invariant is kept: SortList *)

(* The sort begins with nothing dealt out.                                 *)
LEMMA SortBegins ==
  ASSUME Inv, fpc = "sleep", Whole, list # Nil, UNCHANGED <<list, nodes>>,
         SortFrom(list), upc' = "sort"
  PROVE  SortInv'
<1>1. before' = Chain /\ i' = list /\ sorted' = Nil /\ unsorted' = Nil
  BY DEF SortFrom, Chain
<1>2. /\ Chain \in Seq(Nodes) /\ Len(Chain) \in Nat /\ Len(Chain) >= 1
      /\ \A j, k \in 1..Len(Chain) : Chain[j] = Chain[k] => j = k
      /\ \A k \in 1..Len(Chain) :
           next[Chain[k]] = IF k = Len(Chain) THEN Nil ELSE Chain[k + 1]
      /\ Elements(Chain) = used /\ Chain[1] = list
  BY ZenonT(30), ChainFacts DEF Inv, Pending
<1>3. SortedFrom'
  <2>1. LastIsPlain(before)'
    BY <1>1 DEF Inv, ChainInv, LastIsPlain, nodes
  <2>2. Elements(before)' = used'
    BY <1>1, <1>2 DEF Elements, nodes
  <2>3. Chain # << >>
    BY <1>2, EmptySeq
  <2> QED
    BY <1>1, <1>2, <2>1, <2>2, <2>3 DEF SortedFrom
<1>4. Dealing(0, << >>, << >>)'
  <2>1. Dealt(0, << >>, << >>)'
    BY EmptySeq DEF Dealt, InOrderOf, Follows, Elements
  <2>2. i' = IF 0 = Len(before') THEN Nil ELSE before'[0 + 1]
    BY <1>1, <1>2
  <2>3. \A k \in (0 + 1)..Len(before') :
          /\ next'[before'[k]] = IF k = Len(before') THEN Nil ELSE before'[k + 1]
          /\ k > 1 => previous'[before'[k]] = before'[k - 1]
          /\ k = 1 => previous'[before'[k]] \in {Nil, Wild}
    <3>1. \A k \in 2..Len(Chain) : previous[Chain[k]] = Chain[k - 1]
      BY DEF Inv, ChainInv, Follows
    <3>2. previous[Chain[1]] \in {Nil, Wild}
      BY <1>2 DEF Inv, ChainInv
    <3> QED
      BY <1>1, <1>2, <3>1, <3>2 DEF nodes
  <2> QED
    BY <1>1, <2>1, <2>2, <2>3 DEF Dealing, TailOf
<1>5. \E J \in 0..Len(before') : \E M, U \in Seq(Nodes) : Dealing(J, M, U)'
  <2>1. 0 \in 0..Len(before') /\ << >> \in Seq(Nodes)
    BY <1>1, <1>2, EmptySeq
  <2> QED
    BY <1>4, <2>1, Zenon
<1> QED
  BY <1>3, <1>5 DEF SortInv

LEMMA SearchEndInv ==
  ASSUME Inv, SearchEnd
  PROVE  Inv'
<1>1. /\ upc = "search" /\ upc' = "sort" /\ SortFrom(list)
      /\ UNCHANGED <<list, nodes, shared, input, fpc, todo>>
  BY DEF SearchEnd, fetchvars
<1>2. fpc = "sleep" /\ list # Nil /\ input' \in BOOLEAN /\ Whole /\ ~Whole'
  BY <1>1 DEF Inv, TurnsInv, TypeOK, Whole
<1>3. SortInv'
  BY <1>1, <1>2, SortBegins
<1> QED
  BY <1>1, <1>2, <1>3, KeyStepInv

LEMMA EnterBadPatternInv ==
  ASSUME Inv, ~Concurrent, EnterBadPattern
  PROVE  Inv'
<1>1. /\ upc = "keys" /\ upc' = "sort" /\ SortFrom(list) /\ shared /\ input' = FALSE
      /\ UNCHANGED <<list, nodes, shared, fpc, todo>>
  BY DEF EnterBadPattern, Key, fetchvars
<1>2. fpc = "sleep" /\ list # Nil /\ Whole /\ ~Whole'
  BY <1>1, KeyTurn DEF EnterBadPattern, Whole
<1>3. SortInv'
  BY <1>1, <1>2, SortBegins
<1> QED
  BY <1>1, <1>2, <1>3, KeyStepInv

(* Articles in the order of a list without repetitions are different.      *)
LEMMA InOrderDistinct ==
  ASSUME NEW s, Len(s) \in Nat, \A j, k \in 1..Len(s) : s[j] = s[k] => j = k,
         NEW t, Len(t) \in Nat, InOrderOf(s, t)
  PROVE  \A j, k \in 1..Len(t) : t[j] = t[k] => j = k
<1>1. \A j, k \in 1..Len(t) : j < k => t[j] # t[k]
  <2> SUFFICES ASSUME NEW j \in 1..Len(t), NEW k \in 1..Len(t), j < k
               PROVE  t[j] # t[k]
    OBVIOUS
  <2>1. PICK a, b \in 1..Len(s) : a < b /\ s[a] = t[j] /\ s[b] = t[k]
    BY DEF InOrderOf, Precedes
  <2> QED
    BY <2>1
<1> QED
  BY <1>1

LEMMA SameOrder ==
  ASSUME NEW t, InOrderOf(before, t), before' = before
  PROVE  InOrderOf(before, t)'
BY DEF InOrderOf, Precedes

(* An article behind all of t may be put at its end.                       *)
LEMMA InOrderAppend ==
  ASSUME NEW s \in Seq(Nodes), NEW t \in Seq(Nodes), InOrderOf(s, t),
         NEW K \in 1..Len(s), \A n \in Elements(t) : \E k \in 1..(K - 1) : n = s[k]
  PROVE  InOrderOf(s, Append(t, s[K]))
<1>1. Len(s) \in Nat /\ Len(t) \in Nat /\ s[K] \in Nodes
  BY LenProperties, ElementOfSeq
<1> DEFINE u == Append(t, s[K])
<1>2. /\ Len(u) = Len(t) + 1
      /\ \A k \in 1..Len(t) : u[k] = t[k]
      /\ u[Len(t) + 1] = s[K]
  BY <1>1, AppendProperties
<1> HIDE DEF u
<1>3. ASSUME NEW j \in 1..Len(u), NEW k \in 1..Len(u), j < k
      PROVE  Precedes(s, u[j], u[k])
  <2>1. j \in 1..Len(t) /\ u[j] = t[j]
    BY <1>1, <1>2, <1>3
  <2>2. CASE k \in 1..Len(t)
    BY <1>2, <1>3, <2>1, <2>2 DEF InOrderOf
  <2>3. CASE k = Len(t) + 1
    <3>1. t[j] \in Elements(t)
      BY <2>1 DEF Elements
    <3>2. PICK l \in 1..(K - 1) : t[j] = s[l]
      BY <3>1
    <3>3. l \in 1..Len(s) /\ l < K
      BY <1>1
    <3> QED
      BY <1>2, <2>1, <2>3, <3>2, <3>3 DEF Precedes
  <2> QED
    BY <1>1, <1>2, <2>2, <2>3
<1> QED
  BY <1>3 DEF InOrderOf, u

LEMMA ElementsAppend ==
  ASSUME NEW t \in Seq(Nodes), NEW n \in Nodes
  PROVE  Elements(Append(t, n)) = Elements(t) \cup {n}
<1> DEFINE u == Append(t, n)
<1>1. /\ Len(t) \in Nat /\ Len(u) = Len(t) + 1
      /\ \A k \in 1..Len(t) : u[k] = t[k]
      /\ u[Len(t) + 1] = n
  BY AppendProperties, LenProperties
<1> HIDE DEF u
<1>2. \A k \in 1..Len(t) : k \in 1..Len(u)
  BY <1>1
<1>3. Len(t) + 1 \in 1..Len(u)
  BY <1>1
<1>4. \A k \in 1..Len(u) : k \in 1..Len(t) \/ k = Len(t) + 1
  BY <1>1
<1>5. {u[k] : k \in 1..Len(u)} = {t[k] : k \in 1..Len(t)} \cup {n}
  BY <1>1, <1>2, <1>3, <1>4
<1> QED
  BY <1>5 DEF Elements, u

(* What the two halves are when there is an article left to deal out.      *)
LEMMA DealingFacts ==
  ASSUME TypeOK, SortedFrom, NEW J \in 0..Len(before),
         NEW M \in Seq(Nodes), NEW U \in Seq(Nodes), Dealing(J, M, U), i # Nil
  PROVE  /\ Len(before) \in Nat /\ J \in Nat /\ J + 1 \in 1..Len(before)
         /\ i = before[J + 1] /\ i \in Nodes /\ i \in used
         /\ \A k \in 1..Len(before) : before[k] \in Nodes /\ before[k] \in used
         /\ i \notin Elements(M) /\ i \notin Elements(U)
         /\ Len(M) \in Nat /\ \A k \in 1..Len(M) : M[k] \in Nodes /\ M[k] \in Elements(M)
         /\ Len(U) \in Nat /\ \A k \in 1..Len(U) : U[k] \in Nodes /\ U[k] \in Elements(U)
         /\ Elements(M) \subseteq used /\ Elements(U) \subseteq used
         /\ \A j, k \in 1..Len(M) : M[j] = M[k] => j = k
         /\ \A j, k \in 1..Len(U) : U[j] = U[k] => j = k
         /\ \A n \in Elements(M) : Matching(n) /\ \E k \in 1..J : n = before[k]
         /\ \A n \in Elements(U) : ~Matching(n) /\ \E k \in 1..J : n = before[k]
         /\ IF M = << >> THEN Len(M) = 0 /\ sorted = Nil
            ELSE Len(M) >= 1 /\ sorted = M[Len(M)]
         /\ IF U = << >> THEN Len(U) = 0 /\ unsorted = Nil
            ELSE Len(U) >= 1 /\ unsorted = U[Len(U)]
<1>1. /\ before \in Seq(Nodes) /\ Len(before) \in Nat /\ J \in Nat
      /\ \A j, k \in 1..Len(before) : before[j] = before[k] => j = k
      /\ Elements(before) = used
  BY LenProperties DEF SortedFrom
<1>2. \A k \in 1..Len(before) : before[k] \in Nodes /\ before[k] \in used
  BY <1>1, ElementOfSeq DEF Elements
<1>3. J # Len(before) /\ i = before[J + 1] /\ J + 1 \in 1..Len(before)
  BY <1>1 DEF Dealing
<1>4. /\ Elements(M) = {n \in {before[k] : k \in 1..J} : Matching(n)}
      /\ Elements(U) = {n \in {before[k] : k \in 1..J} : ~Matching(n)}
      /\ InOrderOf(before, M) /\ InOrderOf(before, U)
      /\ sorted = TailOf(M) /\ unsorted = TailOf(U)
  BY DEF Dealing, Dealt
<1>5. /\ \A n \in Elements(M) : Matching(n) /\ \E k \in 1..J : n = before[k]
      /\ \A n \in Elements(U) : ~Matching(n) /\ \E k \in 1..J : n = before[k]
  BY <1>4
<1>6. \A k \in 1..J : k \in 1..Len(before) /\ before[k] # i
  BY <1>1, <1>3
<1>7. i \notin Elements(M) /\ i \notin Elements(U)
  BY <1>5, <1>6
<1>8. Elements(M) \subseteq used /\ Elements(U) \subseteq used
  BY <1>2, <1>5, <1>6
<1>9. /\ Len(M) \in Nat /\ \A k \in 1..Len(M) : M[k] \in Nodes /\ M[k] \in Elements(M)
      /\ Len(U) \in Nat /\ \A k \in 1..Len(U) : U[k] \in Nodes /\ U[k] \in Elements(U)
  BY LenProperties, ElementOfSeq DEF Elements
<1>10. /\ \A j, k \in 1..Len(M) : M[j] = M[k] => j = k
       /\ \A j, k \in 1..Len(U) : U[j] = U[k] => j = k
  BY <1>1, <1>4, <1>9, InOrderDistinct
<1>11. /\ IF M = << >> THEN Len(M) = 0 /\ sorted = Nil
          ELSE Len(M) >= 1 /\ sorted = M[Len(M)]
       /\ IF U = << >> THEN Len(U) = 0 /\ unsorted = Nil
          ELSE Len(U) >= 1 /\ unsorted = U[Len(U)]
  BY <1>4, <1>9, EmptySeq DEF TailOf
<1> QED
  BY <1>1, <1>2, <1>3, <1>5, <1>7, <1>8, <1>9, <1>10, <1>11

(* A step inside the sort that relinks articles of the list only.          *)
LEMMA RelinkInv ==
  ASSUME Inv, upc \in {"sort", "join"}, upc' \in {"sort", "head"},
         UNCHANGED <<list, shared, hash, flags, init, used, input, fpc, todo, before>>,
         next' \in [Nodes -> Nodes \cup {Nil}],
         previous' \in [Nodes -> Nodes \cup {Nil, Wild}],
         \A n \in Nodes \ used : next'[n] = next[n],
         /\ upc' = "sort" =>
              \E J \in 0..Len(before') : \E M, U \in Seq(Nodes) : Dealing(J, M, U)'
         /\ upc' = "head" => SortInv'
  PROVE  Inv'
<1>1. TypeOK'
  BY DEF Inv, TypeOK
<1>2. TurnsInv' /\ FetchInv' /\ ChainInv'
  BY DEF Inv, TurnsInv, FetchInv, ChainInv, Whole
<1>3. HashesInv'
  BY DEF Inv, HashesInv, Same
<1>4. SortInv'
  <2>1. CASE upc' = "head"
    BY <2>1
  <2>2. CASE upc' = "sort"
    <3>1. SortedFrom'
      BY DEF Inv, SortInv, SortedFrom, LastIsPlain
    <3> QED
      BY <2>2, <3>1 DEF SortInv
  <2> QED
    BY <2>1, <2>2
<1> QED
  BY <1>1, <1>2, <1>3, <1>4 DEF Inv

LEMMA SortMatchInv ==
  ASSUME Inv, SortMatch
  PROVE  Inv'
<1>1. /\ upc = "sort" /\ upc' = "sort" /\ i # Nil /\ Matching(i)
      /\ Onto(sorted, Unlinked(i), i)
      /\ sorted' = i
      /\ UNCHANGED <<list, shared, hash, flags, init, used, input, fpc, todo, before, unsorted>>
  BY DEF SortMatch, fetchvars
<1>2. TypeOK /\ SortedFrom
  BY <1>1 DEF Inv, SortInv
<1>3. PICK J \in 0..Len(before) : \E M, U \in Seq(Nodes) : Dealing(J, M, U)
  BY <1>1 DEF Inv, SortInv
<1>4. PICK M \in Seq(Nodes), U \in Seq(Nodes) : Dealing(J, M, U)
  BY <1>3
<1> DEFINE len == Len(before)
<1>5. /\ len \in Nat /\ J \in Nat /\ J + 1 \in 1..len
      /\ i = before[J + 1] /\ i \in Nodes /\ i \in used
      /\ \A k \in 1..len : before[k] \in Nodes /\ before[k] \in used
      /\ i \notin Elements(M) /\ i \notin Elements(U)
      /\ Len(M) \in Nat /\ \A k \in 1..Len(M) : M[k] \in Nodes /\ M[k] \in Elements(M)
      /\ Len(U) \in Nat /\ \A k \in 1..Len(U) : U[k] \in Nodes /\ U[k] \in Elements(U)
      /\ Elements(M) \subseteq used /\ Elements(U) \subseteq used
      /\ \A j, k \in 1..Len(M) : M[j] = M[k] => j = k
      /\ \A j, k \in 1..Len(U) : U[j] = U[k] => j = k
      /\ \A n \in Elements(M) : Matching(n) /\ \E k \in 1..J : n = before[k]
      /\ \A n \in Elements(U) : ~Matching(n) /\ \E k \in 1..J : n = before[k]
      /\ IF M = << >> THEN Len(M) = 0 /\ sorted = Nil
         ELSE Len(M) >= 1 /\ sorted = M[Len(M)]
      /\ IF U = << >> THEN Len(U) = 0 /\ unsorted = Nil
         ELSE Len(U) >= 1 /\ unsorted = U[Len(U)]
  BY <1>1, <1>2, <1>4, DealingFacts
<1>6. \A j, k \in 1..len : before[j] = before[k] => j = k
  BY <1>2 DEF SortedFrom
<1>7. /\ \A k \in (J + 1)..len :
           /\ next[before[k]] = IF k = len THEN Nil ELSE before[k + 1]
           /\ k > 1 => previous[before[k]] = before[k - 1]
           /\ k = 1 => previous[before[k]] \in {Nil, Wild}
      /\ J > 0 => IF Matching(before[J]) THEN before[J] = TailOf(M)
                  ELSE before[J] = TailOf(U) /\ next[before[J]] = Nil
  BY <1>4 DEF Dealing
<1>8. /\ InOrderOf(before, M) /\ Follows(M)
      /\ InOrderOf(before, U) /\ Follows(U)
      /\ Elements(M) = {n \in {before[k] : k \in 1..J} : Matching(n)}
      /\ Elements(U) = {n \in {before[k] : k \in 1..J} : ~Matching(n)}
      /\ M # << >> => previous[M[1]] = Nil
      /\ U # << >> => previous[U[1]] = Nil
      /\ \A k \in 1..Len(M) : next[M[k]] = IF k = Len(M) THEN Nil ELSE M[k + 1]
      /\ \A k \in 1..(Len(U) - 1) : next[U[k]] = U[k + 1]
  BY <1>4 DEF Dealing, Dealt
<1> HIDE DEF len
\* Where the article i was unlinked.
<1>9. Unlinked(i) = IF J > 0 THEN [next EXCEPT ![before[J]] = next[i]] ELSE next
  <2>1. CASE J > 0
    <3>1. previous[i] = before[J] /\ before[J] \in Nodes
      BY <1>5, <1>7, <2>1
    <3> QED
      BY <2>1, <3>1 DEF Unlinked
  <2>2. CASE ~(J > 0)
    <3>1. previous[i] \in {Nil, Wild}
      BY <1>5, <1>7, <2>2
    <3> QED
      BY <2>2, <3>1, ArticleListAssumption DEF Unlinked
  <2> QED
    BY <2>1, <2>2
<1>10. sorted # Nil <=> M # << >>
  BY <1>5, ArticleListAssumption
<1>11. J > 0 => before[J] \in Nodes /\ before[J] # i /\ before[J] \in used
  BY <1>5, <1>6
<1>12. sorted # Nil => sorted \in Nodes /\ sorted # i /\ sorted \in Elements(M)
  BY <1>5, <1>10
<1>13. /\ next' = IF sorted = Nil THEN [Unlinked(i) EXCEPT ![i] = Nil]
                  ELSE [Unlinked(i) EXCEPT ![i] = Nil, ![sorted] = i]
       /\ previous' = [previous EXCEPT ![i] = sorted]
       /\ i' = next[i]
  BY <1>1 DEF Onto
\* What the step does to each article.
<1>14. /\ next' \in [Nodes -> Nodes \cup {Nil}]
       /\ next'[i] = Nil
       /\ sorted # Nil => next'[sorted] = i
       /\ \A n \in Nodes : n # i /\ n # sorted /\ (J > 0 => n # before[J]) => next'[n] = next[n]
  <2>1. Unlinked(i) \in [Nodes -> Nodes \cup {Nil}]
    BY <1>2, <1>5, <1>9, <1>11 DEF TypeOK
  <2>2. \A n \in Nodes : (J > 0 => n # before[J]) => Unlinked(i)[n] = next[n]
    BY <1>2, <1>5, <1>9, <1>11 DEF TypeOK
  <2> QED
    BY <1>5, <1>12, <1>13, <2>1, <2>2
<1>15. /\ previous' \in [Nodes -> Nodes \cup {Nil, Wild}]
       /\ previous'[i] = sorted
       /\ \A n \in Nodes : n # i => previous'[n] = previous[n]
  BY <1>2, <1>5, <1>12, <1>13 DEF TypeOK
<1>16a. PICK W : W = Append(M, i)
  OBVIOUS
<1>16. /\ W \in Seq(Nodes) /\ W # << >> /\ Len(W) = Len(M) + 1
       /\ \A k \in 1..Len(M) : W[k] = M[k]
       /\ W[Len(M) + 1] = i
       /\ Elements(W) = Elements(M) \cup {i}
  BY <1>5, <1>16a, AppendProperties, ElementsAppend
<1>17. InOrderOf(before, W)
  <2>1. J = (J + 1) - 1 /\ before \in Seq(Nodes)
    BY <1>2, <1>5 DEF SortedFrom
  <2> QED
    BY <1>5, <1>8, <1>16a, <2>1, InOrderAppend DEF len
<1>18. Dealt(J + 1, W, U)'
  <2>1. InOrderOf(before, W)' /\ InOrderOf(before, U)'
    BY <1>1, <1>8, <1>17, SameOrder
  <2>2. Follows(W)'
    <3> SUFFICES ASSUME NEW k \in 2..Len(W) PROVE previous'[W[k]] = W[k - 1]
      BY DEF Follows
    <3>1. CASE k = Len(M) + 1
      BY SMTT(30), <1>5, <1>15, <1>16, <3>1
    <3>2. CASE k # Len(M) + 1
      <4>a. k \in 2..Len(M) /\ k \in 1..Len(M) /\ k - 1 \in 1..Len(M)
        BY <1>5, <1>16, <3>2
      <4>1. k \in 2..Len(M) /\ W[k] = M[k] /\ W[k - 1] = M[k - 1] /\ M[k] # i /\ M[k] \in Nodes
        BY ZenonT(30), <1>5, <1>16, <4>a
      <4>2. previous[M[k]] = M[k - 1]
        BY <1>8, <4>1 DEF Follows
      <4> QED
        BY <1>15, <4>1, <4>2
    <3> QED
      BY <3>1, <3>2
  <2>3. Follows(U)'
    <3>1. \A k \in 2..Len(U) : U[k] # i /\ U[k] \in Nodes
      BY <1>5
    <3> QED
      BY <1>8, <1>15, <3>1 DEF Follows
  <2>4. {before[k] : k \in 1..(J + 1)} = {before[k] : k \in 1..J} \cup {i}
    BY <1>5
  <2>5. /\ Elements(W) = {n \in {before[k] : k \in 1..(J + 1)} : Matching(n)}
        /\ Elements(U) = {n \in {before[k] : k \in 1..(J + 1)} : ~Matching(n)}
    BY ZenonT(30), <1>1, <1>8, <1>16, <2>4
  <2>6. /\ Elements(W)' = {n \in {before'[k] : k \in 1..(J + 1)} : Matching(n)'}
        /\ Elements(U)' = {n \in {before'[k] : k \in 1..(J + 1)} : ~Matching(n)'}
    BY ZenonT(30), <1>1, <2>5 DEF Matching, Elements
  <2>7. previous'[W[1]] = Nil
    <3>1. CASE M = << >>
      BY <1>5, <1>15, <1>16, <3>1
    <3>2. CASE M # << >>
      <4>1. 1 \in 1..Len(M)
        BY <1>5, <3>2
      <4>2. W[1] = M[1] /\ M[1] # i /\ M[1] \in Nodes
        BY <1>5, <1>16, <4>1
      <4> QED
        BY <1>8, <1>15, <3>2, <4>2
    <3> QED
      BY <3>1, <3>2
  <2>8. U # << >> => previous'[U[1]] = Nil
    <3>1. U # << >> => U[1] # i /\ U[1] \in Nodes
      BY <1>5
    <3> QED
      BY <1>8, <1>15, <3>1
  <2>9. ASSUME NEW k \in 1..Len(W)
        PROVE  next'[W[k]] = IF k = Len(W) THEN Nil ELSE W[k + 1]
    <3>1. CASE k = Len(M) + 1
      BY <1>5, <1>14, <1>16, <3>1
    <3>2. CASE k = Len(M)
      BY <1>5, <1>10, <1>14, <1>16, <3>2
    <3>3. CASE k \in 1..(Len(M) - 1)
      <4>1. M[k] # sorted /\ M[k] # i /\ M[k] \in Nodes /\ W[k] = M[k] /\ W[k + 1] = M[k + 1]
        BY SMTT(30), <1>5, <1>16, <3>3
      <4>2. J > 0 => M[k] # before[J]
        <5>1. M[k] = before[J] => Matching(before[J])
          BY <1>5, <3>3
        <5> QED
          BY <1>5, <1>7, <3>3, <4>1, <5>1 DEF TailOf
      <4>3. next'[M[k]] = next[M[k]]
        BY <1>14, <4>1, <4>2
      <4>4. k \in 1..Len(M) /\ k # Len(M) /\ k # Len(W)
        BY <1>5, <1>16, <3>3
      <4>5. next[M[k]] = M[k + 1]
        BY <1>8, <4>4
      <4> QED
        BY <4>1, <4>3, <4>4, <4>5
    <3> QED
      BY <1>5, <1>16, <3>1, <3>2, <3>3
  <2>10. ASSUME NEW k \in 1..(Len(U) - 1)
         PROVE  next'[U[k]] = U[k + 1]
    <3>a. k \in 1..Len(U)
      BY <1>5
    <3>b. U[k] # i /\ U[k] \in Nodes /\ ~Matching(U[k])
      BY <1>5, <3>a
    <3>1. U[k] # i /\ U[k] # sorted /\ U[k] \in Nodes /\ ~Matching(U[k])
      BY <1>5, <1>12, <3>b, ArticleListAssumption
    <3>2. J > 0 => U[k] # before[J]
      <4>1. U[k] = before[J] => ~Matching(before[J])
        BY <3>1
      <4> QED
        BY <1>5, <1>7, <4>1 DEF TailOf
    <3> QED
      BY <1>8, <1>14, <3>1, <3>2
  <2> QED
    BY <1>4, <1>16, <2>1, <2>2, <2>3, <2>6, <2>7, <2>8, <2>9, <2>10 DEF Dealt
<1>19. Dealing(J + 1, W, U)'
  <2>1. i' = IF J + 1 = len THEN Nil ELSE before[(J + 1) + 1]
    BY SMTT(30), <1>5, <1>7, <1>13
  <2>2. sorted' = TailOf(W) /\ unsorted' = TailOf(U)
    BY <1>1, <1>5, <1>16 DEF TailOf
  <2>3. ASSUME NEW k \in ((J + 1) + 1)..len
        PROVE  /\ next'[before[k]] = IF k = len THEN Nil ELSE before[k + 1]
               /\ previous'[before[k]] = before[k - 1]
               /\ k > 1
    <3>1. k \in (J + 1)..len /\ k > 1 /\ k \in 1..len /\ k # J + 1
      BY <1>5
    <3>2. before[k] # i /\ before[k] \in Nodes /\ (J > 0 => before[k] # before[J])
      BY <1>5, <1>6, <3>1
    <3>3. before[k] # sorted
      <4>1. \A l \in 1..J : before[k] # before[l]
        BY <1>5, <1>6, <3>1
      <4> QED
        BY <1>5, <1>12, <3>2, <4>1, ArticleListAssumption
    <3> QED
      BY <1>7, <1>14, <1>15, <3>1, <3>2, <3>3
  <2>4. before[J + 1] = TailOf(W) /\ Matching(before[J + 1])'
    BY <1>1, <1>5, <1>16 DEF TailOf, Matching
  <2> QED
    BY <1>1, <1>5, <1>18, <2>1, <2>2, <2>3, <2>4 DEF Dealing, len
<1>20. \E K \in 0..Len(before') : \E P, Q \in Seq(Nodes) : Dealing(K, P, Q)'
  <2>1. J + 1 \in 0..Len(before')
    BY <1>1, <1>5 DEF len
  <2> QED
    BY <1>4, <1>16, <1>19, <2>1, Zenon
<1>21. \A n \in Nodes \ used : next'[n] = next[n]
  <2> SUFFICES ASSUME NEW n \in Nodes \ used PROVE next'[n] = next[n]
    OBVIOUS
  <2>1. n # i /\ (J > 0 => n # before[J])
    BY <1>5, <1>11
  <2>2. n # sorted
    BY <1>5, <1>12, ArticleListAssumption
  <2> QED
    BY <1>14, <2>1, <2>2
<1> QED
  BY <1>1, <1>14, <1>15, <1>20, <1>21, RelinkInv

LEMMA SortOtherInv ==
  ASSUME Inv, SortOther
  PROVE  Inv'
<1>1. /\ upc = "sort" /\ upc' = "sort" /\ i # Nil /\ ~Matching(i)
      /\ Onto(unsorted, next, i)
      /\ unsorted' = i
      /\ UNCHANGED <<list, shared, hash, flags, init, used, input, fpc, todo, before, sorted>>
  BY DEF SortOther, fetchvars
<1>2. TypeOK /\ SortedFrom
  BY <1>1 DEF Inv, SortInv
<1>3. PICK J \in 0..Len(before) : \E M, U \in Seq(Nodes) : Dealing(J, M, U)
  BY <1>1 DEF Inv, SortInv
<1>4. PICK M \in Seq(Nodes), U \in Seq(Nodes) : Dealing(J, M, U)
  BY <1>3
<1> DEFINE len == Len(before)
<1>5. /\ len \in Nat /\ J \in Nat /\ J + 1 \in 1..len
      /\ i = before[J + 1] /\ i \in Nodes /\ i \in used
      /\ \A k \in 1..len : before[k] \in Nodes /\ before[k] \in used
      /\ i \notin Elements(M) /\ i \notin Elements(U)
      /\ Len(M) \in Nat /\ \A k \in 1..Len(M) : M[k] \in Nodes /\ M[k] \in Elements(M)
      /\ Len(U) \in Nat /\ \A k \in 1..Len(U) : U[k] \in Nodes /\ U[k] \in Elements(U)
      /\ Elements(M) \subseteq used /\ Elements(U) \subseteq used
      /\ \A j, k \in 1..Len(M) : M[j] = M[k] => j = k
      /\ \A j, k \in 1..Len(U) : U[j] = U[k] => j = k
      /\ \A n \in Elements(M) : Matching(n) /\ \E k \in 1..J : n = before[k]
      /\ \A n \in Elements(U) : ~Matching(n) /\ \E k \in 1..J : n = before[k]
      /\ IF M = << >> THEN Len(M) = 0 /\ sorted = Nil
         ELSE Len(M) >= 1 /\ sorted = M[Len(M)]
      /\ IF U = << >> THEN Len(U) = 0 /\ unsorted = Nil
         ELSE Len(U) >= 1 /\ unsorted = U[Len(U)]
  BY <1>1, <1>2, <1>4, DealingFacts
<1>6. \A j, k \in 1..len : before[j] = before[k] => j = k
  BY <1>2 DEF SortedFrom
<1>7. /\ \A k \in (J + 1)..len :
           /\ next[before[k]] = IF k = len THEN Nil ELSE before[k + 1]
           /\ k > 1 => previous[before[k]] = before[k - 1]
           /\ k = 1 => previous[before[k]] \in {Nil, Wild}
      /\ J > 0 => IF Matching(before[J]) THEN before[J] = TailOf(M)
                  ELSE before[J] = TailOf(U) /\ next[before[J]] = Nil
  BY <1>4 DEF Dealing
<1>8. /\ InOrderOf(before, M) /\ Follows(M)
      /\ InOrderOf(before, U) /\ Follows(U)
      /\ Elements(M) = {n \in {before[k] : k \in 1..J} : Matching(n)}
      /\ Elements(U) = {n \in {before[k] : k \in 1..J} : ~Matching(n)}
      /\ M # << >> => previous[M[1]] = Nil
      /\ U # << >> => previous[U[1]] = Nil
      /\ \A k \in 1..Len(M) : next[M[k]] = IF k = Len(M) THEN Nil ELSE M[k + 1]
      /\ \A k \in 1..(Len(U) - 1) : next[U[k]] = U[k + 1]
  BY <1>4 DEF Dealing, Dealt
<1> HIDE DEF len
<1>10. unsorted # Nil <=> U # << >>
  BY <1>5, ArticleListAssumption
<1>12. unsorted # Nil => unsorted \in Nodes /\ unsorted # i /\ unsorted \in Elements(U)
  BY <1>5, <1>10
<1>13. /\ next' = IF unsorted = Nil THEN [next EXCEPT ![i] = Nil]
                  ELSE [next EXCEPT ![i] = Nil, ![unsorted] = i]
       /\ previous' = [previous EXCEPT ![i] = unsorted]
       /\ i' = next[i]
  BY <1>1 DEF Onto
\* What the step does to each article.
<1>14. /\ next' \in [Nodes -> Nodes \cup {Nil}]
       /\ next'[i] = Nil
       /\ unsorted # Nil => next'[unsorted] = i
       /\ \A n \in Nodes : n # i /\ n # unsorted => next'[n] = next[n]
  BY <1>2, <1>5, <1>12, <1>13 DEF TypeOK
<1>15. /\ previous' \in [Nodes -> Nodes \cup {Nil, Wild}]
       /\ previous'[i] = unsorted
       /\ \A n \in Nodes : n # i => previous'[n] = previous[n]
  BY <1>2, <1>5, <1>12, <1>13 DEF TypeOK
<1>16a. PICK W : W = Append(U, i)
  OBVIOUS
<1>16. /\ W \in Seq(Nodes) /\ W # << >> /\ Len(W) = Len(U) + 1
       /\ \A k \in 1..Len(U) : W[k] = U[k]
       /\ W[Len(U) + 1] = i
       /\ Elements(W) = Elements(U) \cup {i}
  BY <1>5, <1>16a, AppendProperties, ElementsAppend
<1>17. InOrderOf(before, W)
  <2>1. J = (J + 1) - 1 /\ before \in Seq(Nodes)
    BY <1>2, <1>5 DEF SortedFrom
  <2> QED
    BY <1>5, <1>8, <1>16a, <2>1, InOrderAppend DEF len
<1>18. Dealt(J + 1, M, W)'
  <2>1. InOrderOf(before, W)' /\ InOrderOf(before, M)'
    BY <1>1, <1>8, <1>17, SameOrder
  <2>2. Follows(W)'
    <3> SUFFICES ASSUME NEW k \in 2..Len(W) PROVE previous'[W[k]] = W[k - 1]
      BY DEF Follows
    <3>1. CASE k = Len(U) + 1
      BY SMTT(30), <1>5, <1>15, <1>16, <3>1
    <3>2. CASE k # Len(U) + 1
      <4>1. k \in 2..Len(U) /\ k \in 1..Len(U) /\ k - 1 \in 1..Len(U)
        BY <1>5, <1>16, <3>2
      <4>2. W[k] = U[k] /\ W[k - 1] = U[k - 1] /\ U[k] # i /\ U[k] \in Nodes
        BY SMTT(30), <1>5, <1>16, <4>1
      <4>3. previous[U[k]] = U[k - 1]
        BY <1>8, <4>1 DEF Follows
      <4> QED
        BY <1>15, <4>2, <4>3
    <3> QED
      BY <3>1, <3>2
  <2>3. Follows(M)'
    <3>1. \A k \in 2..Len(M) : M[k] # i /\ M[k] \in Nodes
      BY <1>5
    <3> QED
      BY <1>8, <1>15, <3>1 DEF Follows
  <2>4. {before[k] : k \in 1..(J + 1)} = {before[k] : k \in 1..J} \cup {i}
    BY <1>5
  <2>5. /\ Elements(M) = {n \in {before[k] : k \in 1..(J + 1)} : Matching(n)}
        /\ Elements(W) = {n \in {before[k] : k \in 1..(J + 1)} : ~Matching(n)}
    BY <1>1, <1>8, <1>16, <2>4
  <2>6. /\ Elements(M)' = {n \in {before'[k] : k \in 1..(J + 1)} : Matching(n)'}
        /\ Elements(W)' = {n \in {before'[k] : k \in 1..(J + 1)} : ~Matching(n)'}
    BY ZenonT(30), <1>1, <2>5 DEF Matching, Elements
  <2>7. previous'[W[1]] = Nil
    <3>1. CASE U = << >>
      BY <1>5, <1>15, <1>16, <3>1
    <3>2. CASE U # << >>
      <4>1. 1 \in 1..Len(U)
        BY <1>5, <3>2
      <4>2. W[1] = U[1] /\ U[1] # i /\ U[1] \in Nodes
        BY <1>5, <1>16, <4>1
      <4> QED
        BY <1>8, <1>15, <3>2, <4>2
    <3> QED
      BY <3>1, <3>2
  <2>8. M # << >> => previous'[M[1]] = Nil
    <3>1. M # << >> => M[1] # i /\ M[1] \in Nodes
      BY <1>5
    <3> QED
      BY <1>8, <1>15, <3>1
  <2>9. ASSUME NEW k \in 1..(Len(W) - 1)
        PROVE  next'[W[k]] = W[k + 1]
    <3>1. k \in 1..Len(U) /\ W[k] = U[k]
      BY <1>5, <1>16
    <3>2. CASE k = Len(U)
      BY <1>5, <1>10, <1>14, <1>16, <3>1, <3>2
    <3>3. CASE k # Len(U)
      <4>1. k \in 1..(Len(U) - 1) /\ k + 1 \in 1..Len(U) /\ Len(U) \in 1..Len(U)
        BY <1>5, <3>1, <3>3
      <4>2. U[k] # unsorted /\ U[k] # i /\ U[k] \in Nodes
        BY <1>5, <3>1, <3>3, <4>1
      <4>3. next'[U[k]] = next[U[k]]
        BY <1>14, <4>2
      <4>4. next[U[k]] = U[k + 1]
        BY <1>8, <4>1
      <4> QED
        BY <1>16, <3>1, <4>1, <4>3, <4>4
    <3> QED
      BY <3>2, <3>3
  <2>10. ASSUME NEW k \in 1..Len(M)
         PROVE  next'[M[k]] = IF k = Len(M) THEN Nil ELSE M[k + 1]
    <3>1. M[k] # i /\ M[k] \in Nodes /\ Matching(M[k])
      BY <1>5
    <3>2. M[k] # unsorted
      BY <1>5, <1>12, <3>1, ArticleListAssumption
    <3>3. next'[M[k]] = next[M[k]]
      BY <1>14, <3>1, <3>2
    <3> QED
      BY <1>8, <3>3
  <2> QED
    BY <1>4, <1>16, <2>1, <2>2, <2>3, <2>6, <2>7, <2>8, <2>9, <2>10 DEF Dealt
<1>19. Dealing(J + 1, M, W)'
  <2>1. i' = IF J + 1 = len THEN Nil ELSE before[(J + 1) + 1]
    BY <1>5, <1>7, <1>13
  <2>2. sorted' = TailOf(M) /\ unsorted' = TailOf(W)
    BY <1>1, <1>5, <1>16 DEF TailOf
  <2>3. ASSUME NEW k \in ((J + 1) + 1)..len
        PROVE  /\ next'[before[k]] = IF k = len THEN Nil ELSE before[k + 1]
               /\ previous'[before[k]] = before[k - 1]
               /\ k > 1
    <3>1. k \in (J + 1)..len /\ k > 1 /\ k \in 1..len /\ k # J + 1
      BY <1>5
    <3>2. before[k] # i /\ before[k] \in Nodes
      BY <1>5, <1>6, <3>1
    <3>3. before[k] # unsorted
      <4>1. \A l \in 1..J : before[k] # before[l]
        BY <1>5, <1>6, <3>1
      <4> QED
        BY <1>5, <1>12, <3>2, <4>1, ArticleListAssumption
    <3> QED
      BY <1>7, <1>14, <1>15, <3>1, <3>2, <3>3
  <2>4. before[J + 1] = TailOf(W) /\ ~Matching(before[J + 1])' /\ next'[before[J + 1]] = Nil
    BY <1>1, <1>5, <1>14, <1>16 DEF TailOf, Matching
  <2> QED
    BY <1>1, <1>5, <1>18, <2>1, <2>2, <2>3, <2>4 DEF Dealing, len
<1>20. \E K \in 0..Len(before') : \E P, Q \in Seq(Nodes) : Dealing(K, P, Q)'
  <2>1. J + 1 \in 0..Len(before')
    BY <1>1, <1>5 DEF len
  <2> QED
    BY <1>4, <1>16, <1>19, <2>1, Zenon
<1>21. \A n \in Nodes \ used : next'[n] = next[n]
  <2> SUFFICES ASSUME NEW n \in Nodes \ used PROVE next'[n] = next[n]
    OBVIOUS
  <2>1. n # i /\ n # unsorted
    BY <1>5, <1>12, ArticleListAssumption
  <2> QED
    BY <1>14, <2>1
<1> QED
  BY <1>1, <1>14, <1>15, <1>20, <1>21, RelinkInv

(* The program dies over the head's previous, which nobody set.            *)
LEMMA SortCrashInv ==
  ASSUME Inv, SortCrash
  PROVE  Inv'
<1>1. /\ upc = "sort" /\ upc' = "crashed" /\ i # Nil /\ previous[i] = Wild
      /\ UNCHANGED <<list, nodes, shared, input, fpc, todo>>
  BY DEF SortCrash, fetchvars
<1>2. TypeOK /\ SortedFrom
  BY <1>1 DEF Inv, SortInv
<1>3. PICK J \in 0..Len(before) : \E M, U \in Seq(Nodes) : Dealing(J, M, U)
  BY <1>1 DEF Inv, SortInv
<1>4. PICK M \in Seq(Nodes), U \in Seq(Nodes) : Dealing(J, M, U)
  BY <1>3
<1>5. /\ Len(before) \in Nat /\ J \in Nat /\ J + 1 \in 1..Len(before)
      /\ i = before[J + 1]
      /\ \A k \in 1..Len(before) : before[k] \in Nodes
  BY <1>1, <1>2, <1>4, DealingFacts
<1>6. J + 1 > 1 => previous[i] = before[J]
  BY <1>4, <1>5 DEF Dealing
<1>7. J + 1 > 1 => before[J] \in Nodes
  BY <1>5
<1>8. i = list
  BY <1>1, <1>2, <1>5, <1>6, <1>7, ArticleListAssumption DEF SortedFrom
<1>9. SortInv'
  BY <1>1, <1>8 DEF SortInv, nodes
<1>10. fpc = "sleep" /\ list # Nil /\ input' \in BOOLEAN /\ ~Whole'
  BY <1>1 DEF Inv, TurnsInv, TypeOK, Whole
<1> QED
  BY <1>1, <1>9, <1>10, KeyStepInv

(* Steps that only walk leave both halves as they are.                     *)
LEMMA SameHalves ==
  ASSUME NEW J, NEW M, NEW U, Dealt(J, M, U), UNCHANGED <<nodes, before>>
  PROVE  Dealt(J, M, U)'
<1>1. InOrderOf(before, M)' /\ InOrderOf(before, U)'
  BY SameOrder DEF Dealt
<1>2. Follows(M)' /\ Follows(U)'
  BY DEF Dealt, Follows, nodes
<1>3. /\ Elements(M)' = {n \in {before'[k] : k \in 1..J} : Matching(n)'}
      /\ Elements(U)' = {n \in {before'[k] : k \in 1..J} : ~Matching(n)'}
  <2>1. /\ Elements(M) = {n \in {before[k] : k \in 1..J} : Matching(n)}
        /\ Elements(U) = {n \in {before[k] : k \in 1..J} : ~Matching(n)}
    BY DEF Dealt
  <2>2. before' = before /\ flags' = flags
    BY DEF nodes
  <2>3. /\ \A n : Matching(n)' <=> Matching(n)
        /\ Elements(M)' = Elements(M) /\ Elements(U)' = Elements(U)
    BY <2>2 DEF Matching, Elements
  <2>4. {before'[k] : k \in 1..J} = {before[k] : k \in 1..J}
    BY <2>2
  <2> QED
    BY <2>1, <2>3, <2>4, Zenon
<1> QED
  BY <1>1, <1>2, <1>3 DEF Dealt, nodes

(* All articles are dealt out.  Some did not match, the last one among     *)
(* them, or no fetch has succeeded yet.                                    *)
LEMMA SortLoopEndInv ==
  ASSUME Inv, SortLoopEnd
  PROVE  Inv'
<1>1. /\ upc = "sort" /\ i = Nil
      /\ upc' = IF unsorted = Nil THEN "crashed" ELSE "join"
      /\ UNCHANGED <<list, nodes, shared, input, fpc, todo, sorted, unsorted, before>>
  BY DEF SortLoopEnd, fetchvars
<1>2. TypeOK /\ SortedFrom
  BY <1>1 DEF Inv, SortInv
<1>3. PICK J \in 0..Len(before) : \E M, U \in Seq(Nodes) : Dealing(J, M, U)
  BY <1>1 DEF Inv, SortInv
<1>4. PICK M \in Seq(Nodes), U \in Seq(Nodes) : Dealing(J, M, U)
  BY <1>3
<1>5. /\ before \in Seq(Nodes) /\ Len(before) \in Nat /\ Len(before) >= 1
      /\ list = before[1] /\ LastIsPlain(before)
      /\ \A k \in 1..Len(before) : before[k] \in Nodes /\ before[k] \in used
      /\ Elements(before) = used
      /\ \A j, k \in 1..Len(before) : before[j] = before[k] => j = k
  <2>1. /\ before \in Seq(Nodes) /\ before # << >>
        /\ list = before[1] /\ LastIsPlain(before) /\ Elements(before) = used
        /\ \A j, k \in 1..Len(before) : before[j] = before[k] => j = k
    BY <1>2 DEF SortedFrom
  <2>2. Len(before) \in Nat /\ Len(before) >= 1
    BY <2>1, EmptySeq
  <2>3. \A k \in 1..Len(before) : before[k] \in Nodes /\ before[k] \in used
    BY <2>1, ElementOfSeq DEF Elements
  <2> QED
    BY <2>1, <2>2, <2>3
<1>6. J = Len(before)
  <2>1. J # Len(before) => J + 1 \in 1..Len(before) /\ i = before[J + 1]
    BY <1>4, <1>5 DEF Dealing
  <2> QED
    BY <1>1, <1>5, <2>1, ArticleListAssumption
<1>7. Elements(U) = {n \in {before[k] : k \in 1..Len(before)} : ~Matching(n)}
  BY <1>4, <1>6 DEF Dealing, Dealt
<1>8. IF Matching(before[Len(before)]) THEN before[Len(before)] = TailOf(M)
      ELSE before[Len(before)] = TailOf(U) /\ next[before[Len(before)]] = Nil
  BY <1>4, <1>5, <1>6 DEF Dealing
<1>9. /\ Len(U) \in Nat
      /\ \A k \in 1..Len(U) : U[k] \in Nodes /\ U[k] \in Elements(U)
      /\ U = << >> <=> Len(U) = 0
  BY <1>4, LenProperties, ElementOfSeq, EmptySeq DEF Elements
<1>10. unsorted = Nil <=> U = << >>
  BY <1>4, <1>9, ArticleListAssumption DEF Dealing, TailOf
<1>11. Matching(before[Len(before)]) => init[list] = 0
  BY <1>2, <1>5 DEF LastIsPlain, Matching, TypeOK
<1>12. Matching(before[Len(before)]) => U = << >>
  <2> SUFFICES ASSUME Matching(before[Len(before)]), U # << >> PROVE FALSE
    OBVIOUS
  <2>1. list \in used /\ used = {list}
    <3>1. list \in used
      BY <1>5
    <3> QED
      BY <1>11, <3>1 DEF Inv, HashesInv
  <2>2. U[1] \in Elements(U)
    BY <1>9
  <2>3. PICK k \in 1..Len(before) : U[1] = before[k] /\ ~Matching(U[1])
    BY <1>7, <2>2
  <2>4. before[k] = list /\ before[Len(before)] = list
    BY <1>5, <2>1
  <2> QED
    BY <2>3, <2>4
<1>13. SortInv'
  <2>1. CASE unsorted = Nil
    <3>1. ~Matching(before[Len(before)]) => FALSE
      <4>1. before[Len(before)] \in {before[k] : k \in 1..Len(before)}
        BY <1>5
      <4>2. Elements(U) = {}
        BY <1>9, <1>10, <2>1 DEF Elements
      <4> QED
        BY <1>7, <4>1, <4>2
    <3> QED
      BY <1>1, <1>11, <2>1, <3>1 DEF SortInv, nodes
  <2>2. CASE unsorted # Nil
    <3>1. upc' = "join" /\ U # << >> /\ ~Matching(before[Len(before)])
      BY <1>1, <1>10, <1>12, <2>2
    <3>2. next[TailOf(U)] = Nil
      BY <1>8, <3>1
    <3>3. unsorted \in Elements(U)
      BY <1>4, <1>9, <3>1 DEF Dealing, TailOf
    <3>4. sorted = TailOf(M) /\ Dealt(Len(before), M, U)
      BY <1>4, <1>6 DEF Dealing
    <3>5. Dealt(Len(before), M, U)'
      <4>1. \A K : K = Len(before) => Dealt(K, M, U)'
        BY <1>1, <3>4, SameHalves
      <4>2. Len(before') = Len(before)
        BY <1>1
      <4> QED
        BY <4>1, <4>2
    <3>6. \E P, Q \in Seq(Nodes) :
            /\ Dealt(Len(before), P, Q)'
            /\ Q # << >> /\ next'[TailOf(Q)] = Nil
            /\ sorted' = TailOf(P) /\ unsorted' \in Elements(Q)
      BY <1>1, <1>4, <3>1, <3>2, <3>3, <3>4, <3>5 DEF nodes
    <3>7. SortedFrom'
      BY <1>1, <1>2 DEF SortedFrom, LastIsPlain, Elements, nodes
    <3> QED
      BY <3>1, <3>6, <3>7 DEF SortInv, Elements, TailOf
  <2> QED
    BY <2>1, <2>2
<1>14. fpc = "sleep" /\ list # Nil /\ input' \in BOOLEAN /\ ~Whole'
  BY <1>1 DEF Inv, TurnsInv, TypeOK, Whole
<1> QED
  BY <1>1, <1>13, <1>14, KeyStepInv

(* What the two halves are at the end of the loop.                         *)
LEMMA JoinFacts ==
  ASSUME Inv, upc = "join",
         NEW M \in Seq(Nodes), NEW U \in Seq(Nodes), Dealt(Len(before), M, U),
         U # << >>, next[TailOf(U)] = Nil, sorted = TailOf(M), unsorted \in Elements(U)
  PROVE  /\ Len(M) \in Nat /\ Len(U) \in Nat /\ Len(U) >= 1
         /\ \A k \in 1..Len(M) : M[k] \in Nodes /\ M[k] \in Elements(M) /\ Matching(M[k])
         /\ \A k \in 1..Len(U) : U[k] \in Nodes /\ U[k] \in Elements(U) /\ ~Matching(U[k])
         /\ \A j, k \in 1..Len(M) : M[j] = M[k] => j = k
         /\ \A j, k \in 1..Len(U) : U[j] = U[k] => j = k
         /\ \A k \in 1..Len(M) : next[M[k]] = IF k = Len(M) THEN Nil ELSE M[k + 1]
         /\ \A k \in 1..Len(U) : next[U[k]] = IF k = Len(U) THEN Nil ELSE U[k + 1]
         /\ Elements(M) = {n \in used : Matching(n)}
         /\ Elements(U) = {n \in used : ~Matching(n)}
         /\ M = << >> => sorted = Nil /\ Elements(M) = {}
         /\ M # << >> => Len(M) >= 1 /\ sorted = M[Len(M)] /\ sorted \in Nodes
         /\ \E k \in 1..Len(U) : unsorted = U[k]
         /\ previous[unsorted] = Nil <=> unsorted = U[1]
         /\ previous[unsorted] # Nil => previous[unsorted] \in Elements(U)
<1>1. /\ before \in Seq(Nodes) /\ Len(before) \in Nat
      /\ \A j, k \in 1..Len(before) : before[j] = before[k] => j = k
      /\ Elements(before) = used
  BY LenProperties DEF Inv, SortInv, SortedFrom
<1>2. /\ Len(M) \in Nat /\ Len(U) \in Nat
      /\ \A k \in 1..Len(M) : M[k] \in Nodes /\ M[k] \in Elements(M)
      /\ \A k \in 1..Len(U) : U[k] \in Nodes /\ U[k] \in Elements(U)
      /\ M = << >> <=> Len(M) = 0
      /\ U = << >> <=> Len(U) = 0
  BY LenProperties, ElementOfSeq, EmptySeq DEF Elements
<1>3. {before[k] : k \in 1..Len(before)} = used
  BY <1>1 DEF Elements
<1>4. /\ Elements(M) = {n \in used : Matching(n)}
      /\ Elements(U) = {n \in used : ~Matching(n)}
  BY <1>3 DEF Dealt
<1>5. /\ \A j, k \in 1..Len(M) : M[j] = M[k] => j = k
      /\ \A j, k \in 1..Len(U) : U[j] = U[k] => j = k
  <2>1. InOrderOf(before, M) /\ InOrderOf(before, U)
    BY DEF Dealt
  <2>2. \A j, k \in 1..Len(M) : M[j] = M[k] => j = k
    BY <1>1, <1>2, <2>1, InOrderDistinct
  <2>3. \A j, k \in 1..Len(U) : U[j] = U[k] => j = k
    BY <1>1, <1>2, <2>1, InOrderDistinct
  <2> QED
    BY <2>2, <2>3
<1>6. /\ \A k \in 1..Len(M) : Matching(M[k])
      /\ \A k \in 1..Len(U) : ~Matching(U[k])
  BY <1>2, <1>4
<1>7. \A k \in 1..Len(U) : next[U[k]] = IF k = Len(U) THEN Nil ELSE U[k + 1]
  <2>1. next[U[Len(U)]] = Nil
    BY DEF TailOf
  <2>2. \A k \in 1..(Len(U) - 1) : next[U[k]] = U[k + 1]
    BY DEF Dealt
  <2>3. \A k \in 1..Len(U) : k # Len(U) => k \in 1..(Len(U) - 1)
    BY <1>2
  <2> QED
    BY <2>1, <2>2, <2>3
<1>8. /\ M = << >> => sorted = Nil /\ Elements(M) = {}
      /\ M # << >> => Len(M) >= 1 /\ sorted = M[Len(M)] /\ sorted \in Nodes
  BY <1>2 DEF TailOf, Elements
<1>9. PICK k \in 1..Len(U) : unsorted = U[k]
  BY DEF Elements
<1>10. previous[U[1]] = Nil /\ \A l \in 2..Len(U) : previous[U[l]] = U[l - 1]
  BY DEF Dealt, Follows
<1>11. /\ previous[unsorted] = Nil <=> unsorted = U[1]
       /\ previous[unsorted] # Nil => previous[unsorted] \in Elements(U)
  <2>1. CASE k = 1
    BY <1>9, <1>10, <2>1
  <2>2. CASE k # 1
    <3>1. k \in 2..Len(U) /\ k - 1 \in 1..Len(U) /\ 1 \in 1..Len(U)
      BY <1>2, <2>2
    <3>2. previous[unsorted] = U[k - 1] /\ previous[unsorted] # Nil
      BY <1>2, <1>9, <1>10, <3>1, ArticleListAssumption
    <3>3. unsorted # U[1]
      BY <1>5, <1>9, <2>2, <3>1
    <3>4. previous[unsorted] \in Elements(U)
      BY <1>2, <3>1, <3>2
    <3> QED
      BY <3>2, <3>3, <3>4
  <2> QED
    BY <2>1, <2>2
<1>12. \A l \in 1..Len(M) : next[M[l]] = IF l = Len(M) THEN Nil ELSE M[l + 1]
  BY DEF Dealt
<1>13. Len(U) >= 1 /\ \E l \in 1..Len(U) : unsorted = U[l]
  BY <1>2, <1>9
<1> QED
  BY <1>2, <1>4, <1>5, <1>6, <1>7, <1>8, <1>11, <1>12, <1>13

LEMMA SortBackInv ==
  ASSUME Inv, SortBack
  PROVE  Inv'
<1>1. /\ upc = "join" /\ upc' = "join" /\ previous[unsorted] # Nil
      /\ unsorted' = previous[unsorted] /\ sorted' = sorted /\ before' = before
      /\ UNCHANGED <<list, nodes, shared, input, fpc, todo>>
  BY DEF SortBack, fetchvars
<1>2. PICK M, U \in Seq(Nodes) :
         /\ Dealt(Len(before), M, U)
         /\ U # << >> /\ next[TailOf(U)] = Nil
         /\ sorted = TailOf(M) /\ unsorted \in Elements(U)
  BY <1>1 DEF Inv, SortInv
<1>3. unsorted' \in Elements(U)
  BY <1>1, <1>2, JoinFacts
<1>4. Dealt(Len(before), M, U)'
  <2>1. \A K : K = Len(before) => Dealt(K, M, U)'
    BY <1>1, <1>2, SameHalves
  <2>2. Len(before') = Len(before)
    BY <1>1
  <2> QED
    BY <2>1, <2>2
<1>5. SortedFrom'
  BY <1>1 DEF Inv, SortInv, SortedFrom, LastIsPlain, Elements, nodes
<1>6. SortInv'
  <2>1. \E P, Q \in Seq(Nodes) :
          /\ Dealt(Len(before), P, Q)'
          /\ Q # << >> /\ next'[TailOf(Q)] = Nil
          /\ sorted' = TailOf(P) /\ unsorted' \in Elements(Q)
    BY <1>1, <1>2, <1>3, <1>4 DEF nodes
  <2> QED
    BY <1>1, <1>5, <2>1 DEF SortInv, Elements, TailOf
<1>7. fpc = "sleep" /\ list # Nil /\ input' \in BOOLEAN /\ ~Whole'
  BY <1>1 DEF Inv, TurnsInv, TypeOK, Whole
<1> QED
  BY <1>1, <1>6, <1>7, KeyStepInv

(* The matches in their order and then the others in theirs: a stable      *)
(* partition of the list that was sorted.                                  *)
LEMMA Partitioned ==
  ASSUME SortedFrom, NEW M \in Seq(Nodes), NEW U \in Seq(Nodes),
         InOrderOf(before, M), InOrderOf(before, U),
         Elements(M) = {n \in used : Matching(n)},
         Elements(U) = {n \in used : ~Matching(n)}
  PROVE  /\ StablyPartitioned(before, M \o U)
         /\ Elements(M \o U) = used
         /\ \A j, k \in 1..Len(M \o U) : (M \o U)[j] = (M \o U)[k] => j = k
<1>1. PICK W : W = M \o U
  OBVIOUS
<1>2. /\ Len(M) \in Nat /\ Len(U) \in Nat /\ W \in Seq(Nodes) /\ Len(W) = Len(M) + Len(U)
      /\ \A k \in 1..Len(M) : W[k] = M[k]
      /\ \A k \in (Len(M) + 1)..Len(W) : W[k] = U[k - Len(M)]
  <2>1. /\ Len(M) \in Nat /\ Len(U) \in Nat /\ W \in Seq(Nodes) /\ Len(W) = Len(M) + Len(U)
        /\ \A k \in 1..(Len(M) + Len(U)) : W[k] = IF k <= Len(M) THEN M[k] ELSE U[k - Len(M)]
    BY <1>1, LenProperties, ConcatProperties
  <2> QED
    BY <2>1
<1>3. /\ before \in Seq(Nodes) /\ Len(before) \in Nat
      /\ \A j, k \in 1..Len(before) : before[j] = before[k] => j = k
      /\ Elements(before) = used
  BY LenProperties DEF SortedFrom
<1>4. /\ \A j, k \in 1..Len(M) : M[j] = M[k] => j = k
      /\ \A j, k \in 1..Len(U) : U[j] = U[k] => j = k
  BY <1>2, <1>3, InOrderDistinct
<1>5. /\ \A k \in 1..Len(M) : M[k] \in Elements(M) /\ Matching(M[k])
      /\ \A k \in 1..Len(U) : U[k] \in Elements(U) /\ ~Matching(U[k])
  <2>1. /\ \A k \in 1..Len(M) : M[k] \in Elements(M)
        /\ \A k \in 1..Len(U) : U[k] \in Elements(U)
    BY DEF Elements
  <2> QED
    BY <2>1
<1>6. \A k \in 1..Len(W) :
        \/ k \in 1..Len(M) /\ W[k] = M[k] /\ Matching(W[k])
        \/ /\ k \notin 1..Len(M) /\ k - Len(M) \in 1..Len(U)
           /\ W[k] = U[k - Len(M)] /\ ~Matching(W[k])
  BY <1>2, <1>5
<1>7. \A j, k \in 1..Len(W) : W[j] = W[k] => j = k
  <2> SUFFICES ASSUME NEW j \in 1..Len(W), NEW k \in 1..Len(W), W[j] = W[k]
               PROVE  j = k
    OBVIOUS
  <2>1. CASE Matching(W[j])
    <3>1. j \in 1..Len(M) /\ W[j] = M[j] /\ k \in 1..Len(M) /\ W[k] = M[k]
      BY <1>6, <2>1
    <3> QED
      BY <1>4, <3>1
  <2>2. CASE ~Matching(W[j])
    <3>1. /\ j - Len(M) \in 1..Len(U) /\ W[j] = U[j - Len(M)]
          /\ k - Len(M) \in 1..Len(U) /\ W[k] = U[k - Len(M)]
      BY <1>6, <2>2
    <3>2. j - Len(M) = k - Len(M)
      BY <1>4, <3>1
    <3> QED
      BY <1>2, <3>2
  <2> QED
    BY <2>1, <2>2
<1>8. Elements(W) = used
  <2>1. \A n \in Elements(W) : n \in used
    <3> SUFFICES ASSUME NEW n \in Elements(W) PROVE n \in used
      OBVIOUS
    <3>1. PICK k \in 1..Len(W) : n = W[k]
      BY DEF Elements
    <3> QED
      BY <1>5, <1>6, <3>1
  <2>2. \A n \in used : n \in Elements(W)
    <3> SUFFICES ASSUME NEW n \in used PROVE \E k \in 1..Len(W) : n = W[k]
      BY DEF Elements
    <3>1. CASE Matching(n)
      <4>1. PICK k \in 1..Len(M) : n = M[k]
        BY <3>1 DEF Elements
      <4> QED
        BY <1>2, <4>1
    <3>2. CASE ~Matching(n)
      <4>1. PICK k \in 1..Len(U) : n = U[k]
        BY <3>2 DEF Elements
      <4>2. Len(M) + k \in (Len(M) + 1)..Len(W) /\ (Len(M) + k) - Len(M) = k
            /\ Len(M) + k \in 1..Len(W)
        BY <1>2
      <4> QED
        BY <1>2, <4>1, <4>2
    <3> QED
      BY <3>1, <3>2
  <2> QED
    BY <2>1, <2>2
<1>9. Len(W) = Len(before)
  <2>1. Cardinality(Elements(W)) = Len(W)
    BY <1>2, <1>7, DistinctLength
  <2>2. Cardinality(Elements(before)) = Len(before)
    BY <1>3, DistinctLength
  <2> QED
    BY <1>3, <1>8, <2>1, <2>2
<1>10. ASSUME NEW j \in 1..Len(W), NEW k \in 1..Len(W), j < k
       PROVE  \/ Matching(W[j]) /\ ~Matching(W[k])
              \/ (Matching(W[j]) <=> Matching(W[k])) /\ Precedes(before, W[j], W[k])
  <2>1. CASE k \in 1..Len(M)
    <3>1. j \in 1..Len(M)
      BY <1>2, <1>10, <2>1
    <3>2. Precedes(before, M[j], M[k])
      BY <1>10, <2>1, <3>1 DEF InOrderOf
    <3> QED
      BY <1>6, <2>1, <3>1, <3>2
  <2>2. CASE j \in 1..Len(M) /\ k \notin 1..Len(M)
    BY <1>6, <2>2
  <2>3. CASE j \notin 1..Len(M) /\ k \notin 1..Len(M)
    <3>1. /\ j - Len(M) \in 1..Len(U) /\ W[j] = U[j - Len(M)] /\ ~Matching(W[j])
          /\ k - Len(M) \in 1..Len(U) /\ W[k] = U[k - Len(M)] /\ ~Matching(W[k])
      BY <1>6, <2>3
    <3>2. j - Len(M) < k - Len(M)
      BY <1>2, <1>10
    <3>3. Precedes(before, U[j - Len(M)], U[k - Len(M)])
      BY <3>1, <3>2 DEF InOrderOf
    <3> QED
      BY <3>1, <3>3
  <2> QED
    BY <2>1, <2>2, <2>3
<1>11. StablyPartitioned(before, W)
  BY <1>3, <1>8, <1>9, <1>10 DEF StablyPartitioned
<1> QED
  BY <1>1, <1>7, <1>8, <1>11

(* The sort ends with a whole list again.                                  *)
LEMMA SortEnds ==
  ASSUME Inv, upc \in {"join", "head"}, upc' = "draw",
         UNCHANGED <<nodes, shared, input, fpc, todo>>,
         NEW W \in Seq(Nodes), W # << >>, IsChain(next, list', W), Follows(W),
         Elements(W) = used, previous[W[1]] = Nil, ~Matching(W[Len(W)])
  PROVE  Inv' /\ Chain' = W
<1>1. fpc = "sleep" /\ fpc' = "sleep" /\ Pending' = {}
  BY DEF Inv, TurnsInv, Pending
<1>2. list' = W[1] /\ W[1] \in Nodes /\ W[1] \in used /\ Len(W) \in Nat
  <2>1. Len(W) \in Nat /\ Len(W) >= 1
    BY EmptySeq
  <2> QED
    BY <2>1, ElementOfSeq DEF IsChain, Elements
<1>3. Chain' = W
  <2>1. IsChain(next', list', W)
    BY DEF nodes
  <2> QED
    BY <2>1, ChainIsPrimed
<1>4. TypeOK'
  BY <1>1, <1>2 DEF Inv, TypeOK, nodes
<1>5. TurnsInv' /\ FetchInv' /\ SortInv'
  BY <1>1, <1>2, ArticleListAssumption DEF TurnsInv, FetchInv, SortInv
<1>6. HashesInv'
  BY <1>2 DEF Inv, HashesInv, Same, nodes
<1>7. ChainInv'
  <2>1. IsChain(next', list', Chain') /\ previous'[list'] \in {Nil, Wild}
    BY <1>2, <1>3 DEF nodes
  <2>2. Follows(Chain)'
    BY <1>3 DEF Follows, nodes
  <2>3. Elements(Chain)' = used' \ Pending'
    <3>1. Elements(Chain)' = Elements(W)
      BY <1>3 DEF Elements
    <3> QED
      BY <1>1, <3>1 DEF nodes
  <2>4. LastIsPlain(Chain)'
    BY <1>3 DEF LastIsPlain, Matching, nodes
  <2> QED
    BY <2>1, <2>2, <2>3, <2>4 DEF ChainInv
<1> QED
  BY <1>3, <1>4, <1>5, <1>6, <1>7 DEF Inv

LEMMA SortNoMatchInv ==
  ASSUME Inv, SortNoMatch
  PROVE  Inv' /\ StablyPartitioned(before, Chain')
<1>1. /\ upc = "join" /\ upc' = "draw" /\ previous[unsorted] = Nil
      /\ sorted = Nil /\ list' = unsorted
      /\ UNCHANGED <<nodes, shared, input, fpc, todo>>
  BY DEF SortNoMatch, KeysDone, fetchvars
<1>2. PICK M, U \in Seq(Nodes) :
         /\ Dealt(Len(before), M, U)
         /\ U # << >> /\ next[TailOf(U)] = Nil
         /\ sorted = TailOf(M) /\ unsorted \in Elements(U)
  BY <1>1 DEF Inv, SortInv
<1>3. /\ Len(M) \in Nat /\ Len(U) \in Nat /\ Len(U) >= 1
      /\ \A k \in 1..Len(M) : M[k] \in Nodes
      /\ \A k \in 1..Len(U) : U[k] \in Nodes /\ ~Matching(U[k])
      /\ \A j, k \in 1..Len(U) : U[j] = U[k] => j = k
      /\ \A k \in 1..Len(U) : next[U[k]] = IF k = Len(U) THEN Nil ELSE U[k + 1]
      /\ Elements(M) = {n \in used : Matching(n)}
      /\ Elements(U) = {n \in used : ~Matching(n)}
      /\ M # << >> => sorted \in Nodes
      /\ unsorted = U[1]
  BY <1>1, <1>2, JoinFacts
<1>4. M = << >>
  BY <1>1, <1>3, ArticleListAssumption
<1>5. SortedFrom /\ InOrderOf(before, M) /\ InOrderOf(before, U)
  BY <1>1, <1>2 DEF Inv, SortInv, Dealt
<1>6. StablyPartitioned(before, U) /\ Elements(U) = used
  <2>1. M \o U = U
    BY <1>2, <1>4, ConcatEmptySeq
  <2>2. StablyPartitioned(before, M \o U) /\ Elements(M \o U) = used
    BY <1>2, <1>3, <1>5, Partitioned
  <2> QED
    BY <2>1, <2>2
<1>7. IsChain(next, list', U) /\ Follows(U) /\ previous[U[1]] = Nil
  BY <1>1, <1>2, <1>3 DEF IsChain, Dealt
<1>8. ~Matching(U[Len(U)])
  BY <1>3
<1>9. Inv' /\ Chain' = U
  BY <1>1, <1>2, <1>6, <1>7, <1>8, SortEnds
<1> QED
  BY <1>6, <1>9

LEMMA SortJoinInv ==
  ASSUME Inv, SortJoin
  PROVE  Inv'
<1>1. /\ upc = "join" /\ upc' = "head" /\ previous[unsorted] = Nil
      /\ sorted # Nil
      /\ next' = [next EXCEPT ![sorted] = unsorted]
      /\ previous' = [previous EXCEPT ![unsorted] = sorted]
      /\ UNCHANGED <<list, shared, hash, flags, init, used, input, fpc, todo, before, sorted>>
  BY DEF SortJoin, fetchvars
<1>2. PICK M, U \in Seq(Nodes) :
         /\ Dealt(Len(before), M, U)
         /\ U # << >> /\ next[TailOf(U)] = Nil
         /\ sorted = TailOf(M) /\ unsorted \in Elements(U)
  BY <1>1 DEF Inv, SortInv
<1>3. /\ Len(M) \in Nat /\ Len(U) \in Nat /\ Len(U) >= 1
      /\ \A k \in 1..Len(M) : M[k] \in Nodes /\ M[k] \in Elements(M) /\ Matching(M[k])
      /\ \A k \in 1..Len(U) : U[k] \in Nodes /\ U[k] \in Elements(U) /\ ~Matching(U[k])
      /\ \A j, k \in 1..Len(M) : M[j] = M[k] => j = k
      /\ \A j, k \in 1..Len(U) : U[j] = U[k] => j = k
      /\ \A k \in 1..Len(M) : next[M[k]] = IF k = Len(M) THEN Nil ELSE M[k + 1]
      /\ \A k \in 1..Len(U) : next[U[k]] = IF k = Len(U) THEN Nil ELSE U[k + 1]
      /\ Elements(M) = {n \in used : Matching(n)}
      /\ Elements(U) = {n \in used : ~Matching(n)}
      /\ M = << >> => sorted = Nil
      /\ M # << >> => Len(M) >= 1 /\ sorted = M[Len(M)] /\ sorted \in Nodes
      /\ unsorted = U[1]
  BY <1>1, <1>2, JoinFacts
<1>4. M # << >> /\ Len(M) >= 1 /\ sorted = M[Len(M)] /\ sorted \in Nodes /\ unsorted \in Nodes
  BY <1>1, <1>3
<1>5. /\ SortedFrom /\ InOrderOf(before, M) /\ InOrderOf(before, U)
      /\ Follows(M) /\ Follows(U) /\ previous[M[1]] = Nil
  BY <1>1, <1>2, <1>4 DEF Inv, SortInv, Dealt
<1>6. /\ next' \in [Nodes -> Nodes \cup {Nil}]
      /\ next'[sorted] = unsorted
      /\ \A n \in Nodes : n # sorted => next'[n] = next[n]
  BY <1>1, <1>4 DEF Inv, TypeOK
<1>7. /\ previous' \in [Nodes -> Nodes \cup {Nil, Wild}]
      /\ previous'[unsorted] = sorted
      /\ \A n \in Nodes : n # unsorted => previous'[n] = previous[n]
  BY <1>1, <1>4 DEF Inv, TypeOK
<1>8. PICK W : W = M \o U
  OBVIOUS
<1>9. /\ W \in Seq(Nodes) /\ Len(W) = Len(M) + Len(U)
      /\ \A k \in 1..Len(M) : W[k] = M[k]
      /\ \A k \in (Len(M) + 1)..Len(W) : W[k] = U[k - Len(M)]
  <2>1. /\ W \in Seq(Nodes) /\ Len(W) = Len(M) + Len(U)
        /\ \A k \in 1..(Len(M) + Len(U)) : W[k] = IF k <= Len(M) THEN M[k] ELSE U[k - Len(M)]
    BY <1>2, <1>8, ConcatProperties
  <2> QED
    BY <1>3, <2>1
<1>10. \A j, k \in 1..Len(W) : W[j] = W[k] => j = k
  BY <1>2, <1>3, <1>5, <1>8, Partitioned
<1>10a. Len(M) \in Nat /\ Len(U) \in Nat /\ Len(W) = Len(M) + Len(U)
  BY <1>3, <1>9
<1>11. \A k \in (Len(M) + 1)..Len(W) : k - Len(M) \in 1..Len(U)
  BY <1>10a
<1>12. IsChain(next', M[1], W)
  <2>1. W # << >> /\ W[1] = M[1]
    <3>1. Len(W) # 0 /\ 1 \in 1..Len(M)
      BY <1>3, <1>4, <1>9
    <3> QED
      BY <1>9, <3>1
  <2>2. ASSUME NEW k \in 1..Len(W)
        PROVE  next'[W[k]] = IF k = Len(W) THEN Nil ELSE W[k + 1]
    <3>1. CASE k \in 1..Len(M) /\ k # Len(M)
      <4>1. W[k] = M[k] /\ W[k + 1] = M[k + 1] /\ k # Len(W)
        BY SMTT(30), <1>3, <1>9, <3>1
      <4>2. M[k] \in Nodes /\ M[k] # sorted /\ next[M[k]] = M[k + 1]
        BY <1>3, <1>4, <3>1
      <4> QED
        BY <1>6, <4>1, <4>2
    <3>2. CASE k = Len(M)
      <4>1. W[k] = sorted /\ k # Len(W)
        BY <1>3, <1>4, <1>9, <3>2
      <4>2. W[k + 1] = U[1]
        <5>1. k + 1 \in (Len(M) + 1)..Len(W) /\ (k + 1) - Len(M) = 1
          BY <1>3, <1>9, <3>2
        <5> QED
          BY <1>9, <5>1
      <4> QED
        BY <1>3, <1>6, <4>1, <4>2
    <3>3. CASE k \notin 1..Len(M)
      <4> DEFINE u == k - Len(M)
      <4>1. k \in (Len(M) + 1)..Len(W) /\ u \in 1..Len(U) /\ W[k] = U[u]
        BY <1>3, <1>9, <1>11, <3>3
      <4>2. U[u] \in Nodes /\ U[u] # sorted
        <5>1. ~Matching(U[u]) /\ Matching(sorted)
          BY <1>3, <1>4, <4>1
        <5> QED
          BY <1>3, <4>1, <5>1
      <4>3. next'[U[u]] = next[U[u]]
        BY <1>6, <4>2
      <4>4. next[U[u]] = IF u = Len(U) THEN Nil ELSE U[u + 1]
        BY <1>3, <4>1
      <4>5. u = Len(U) <=> k = Len(W)
        BY <1>3, <1>9
      <4>6. k # Len(W) => W[k + 1] = U[u + 1]
        <5>0. k \in (Len(M) + 1)..Len(W)
          BY <4>1
        <5>1. k # Len(W) => k + 1 \in (Len(M) + 1)..Len(W) /\ (k + 1) - Len(M) = u + 1
          BY <1>10a, <5>0
        <5> QED
          BY <1>9, <5>1
      <4> QED
        BY <4>1, <4>3, <4>4, <4>5, <4>6
    <3> QED
      BY <3>1, <3>2, <3>3
  <2> QED
    BY <1>9, <1>10, <2>1, <2>2 DEF IsChain
<1>13. Follows(W)'
  <2> SUFFICES ASSUME NEW k \in 2..Len(W) PROVE previous'[W[k]] = W[k - 1]
    BY DEF Follows
  <2>1. CASE k \in 2..Len(M)
    <3>0. k \in 1..Len(M) /\ k - 1 \in 1..Len(M)
      BY <1>10a, <2>1
    <3>1. W[k] = M[k] /\ W[k - 1] = M[k - 1] /\ k \in 1..Len(M)
      BY <1>9, <3>0
    <3>2. M[k] \in Nodes /\ M[k] # unsorted
      <4>1. Matching(M[k]) /\ ~Matching(unsorted)
        BY <1>3, <3>1
      <4> QED
        BY <1>3, <3>1, <4>1
    <3>3. previous[M[k]] = M[k - 1]
      BY <1>5, <2>1 DEF Follows
    <3> QED
      BY <1>7, <3>1, <3>2, <3>3
  <2>2. CASE k = Len(M) + 1
    <3>1. k \in (Len(M) + 1)..Len(W) /\ k - Len(M) = 1 /\ k - 1 = Len(M)
      BY <1>3, <1>9, <2>2
    <3>2. W[k] = unsorted /\ W[k - 1] = sorted
      BY <1>3, <1>4, <1>9, <3>1
    <3> QED
      BY <1>7, <3>2
  <2>3. CASE k \notin 2..Len(M) /\ k # Len(M) + 1
    <3>1. k \in (Len(M) + 1)..Len(W) /\ k - 1 \in (Len(M) + 1)..Len(W)
      BY <1>3, <1>4, <1>9, <2>3
    <3> DEFINE u == k - Len(M)
    <3>2. u \in 2..Len(U) /\ u \in 1..Len(U) /\ (k - 1) - Len(M) = u - 1 /\ u # 1
      BY <1>3, <1>9, <2>3, <3>1
    <3>3. W[k] = U[u] /\ W[k - 1] = U[u - 1]
      BY <1>9, <3>1, <3>2
    <3> HIDE DEF u
    <3>4. U[u] \in Nodes /\ U[u] # unsorted
      <4>1. 1 \in 1..Len(U)
        BY <1>3
      <4> QED
        BY <1>3, <3>2, <4>1
    <3>5. previous[U[u]] = U[u - 1]
      BY <1>5, <3>2 DEF Follows
    <3> QED
      BY <1>7, <3>3, <3>4, <3>5
  <2> QED
    BY <2>1, <2>2, <2>3
<1>14. previous'[M[1]] = Nil
  <2>1. 1 \in 1..Len(M)
    BY <1>3, <1>4
  <2>2. M[1] \in Nodes /\ M[1] # unsorted
    <3>1. Matching(M[1]) /\ ~Matching(unsorted)
      BY <1>3, <2>1
    <3> QED
      BY <1>3, <2>1, <3>1
  <2> QED
    BY <1>5, <1>7, <2>2
<1>15. SortInv'
  <2>1. SortedFrom'
    BY <1>1, <1>5 DEF SortedFrom, LastIsPlain, Elements
  <2>2. InOrderOf(before, M)' /\ InOrderOf(before, U)'
    BY <1>1, <1>5, SameOrder
  <2>3. /\ Elements(M)' = {n \in used' : Matching(n)'}
        /\ Elements(U)' = {n \in used' : ~Matching(n)'}
    BY <1>1, <1>3 DEF Elements, Matching
  <2>4. sorted' \in Elements(M)'
    <3>1. sorted \in Elements(M)
      BY <1>3, <1>4
    <3> QED
      BY <1>1, <3>1 DEF Elements
  <2>5. \E P, Q \in Seq(Nodes) :
         /\ P # << >> /\ Q # << >>
         /\ InOrderOf(before, P)' /\ InOrderOf(before, Q)'
         /\ Elements(P)' = {n \in used' : Matching(n)'}
         /\ Elements(Q)' = {n \in used' : ~Matching(n)'}
         /\ IsChain(next', P[1], P \o Q) /\ Follows(P \o Q)'
         /\ previous'[P[1]] = Nil
         /\ sorted' \in Elements(P)'
    <3>1. M \in Seq(Nodes) /\ U \in Seq(Nodes) /\ U # << >>
      BY <1>2
    <3> QED
      BY <1>4, <1>8, <1>12, <1>13, <1>14, <2>2, <2>3, <2>4, <3>1, Zenon
  <2> QED
    BY <1>1, <2>1, <2>5 DEF SortInv
<1>16. \A n \in Nodes \ used : next'[n] = next[n]
  <2>1. sorted \in used
    BY <1>3, <1>4
  <2> QED
    BY <1>6, <2>1
<1> QED
  BY <1>1, <1>6, <1>7, <1>15, <1>16, RelinkInv

(* What the joined halves are while the walk goes back to the head.        *)
LEMMA HeadFacts ==
  ASSUME Inv, upc = "head",
         NEW M \in Seq(Nodes), NEW U \in Seq(Nodes),
         IsChain(next, M[1], M \o U), Follows(M \o U), previous[M[1]] = Nil,
         sorted \in Elements(M)
  PROVE  /\ previous[sorted] = Nil <=> sorted = M[1]
         /\ previous[sorted] # Nil => previous[sorted] \in Elements(M)
<1>1. PICK k \in 1..Len(M) : sorted = M[k]
  BY DEF Elements
<1>2. PICK W : W = M \o U
  OBVIOUS
<1>3. /\ Len(M) \in Nat /\ Len(U) \in Nat /\ Len(W) = Len(M) + Len(U)
      /\ \A l \in 1..Len(M) : W[l] = M[l] /\ M[l] \in Nodes /\ M[l] \in Elements(M)
  <2>1. /\ Len(M) \in Nat /\ Len(U) \in Nat /\ Len(W) = Len(M) + Len(U)
        /\ \A l \in 1..(Len(M) + Len(U)) : W[l] = IF l <= Len(M) THEN M[l] ELSE U[l - Len(M)]
    BY <1>2, LenProperties, ConcatProperties
  <2>2. \A l \in 1..Len(M) : M[l] \in Nodes /\ M[l] \in Elements(M)
    BY ElementOfSeq DEF Elements
  <2> QED
    BY <2>1, <2>2
<1>4. /\ \A j, l \in 1..Len(W) : W[j] = W[l] => j = l
      /\ \A l \in 2..Len(W) : previous[W[l]] = W[l - 1]
  BY <1>2 DEF IsChain, Follows
<1>5. CASE k = 1
  BY <1>1, <1>5
<1>6. CASE k # 1
  <2>1. k \in 2..Len(W) /\ k - 1 \in 1..Len(M) /\ 1 \in 1..Len(M) /\ 1 \in 1..Len(W)
        /\ k \in 1..Len(W)
    BY <1>3, <1>6
  <2>2. previous[sorted] = M[k - 1]
    BY <1>1, <1>3, <1>4, <2>1
  <2>3. sorted # M[1]
    BY <1>1, <1>3, <1>4, <1>6, <2>1
  <2> QED
    BY <1>3, <2>1, <2>2, <2>3, ArticleListAssumption
<1> QED
  BY <1>5, <1>6

LEMMA SortBackToHeadInv ==
  ASSUME Inv, SortBackToHead
  PROVE  Inv'
<1>1. /\ upc = "head" /\ upc' = "head" /\ previous[sorted] # Nil
      /\ sorted' = previous[sorted] /\ before' = before
      /\ UNCHANGED <<list, nodes, shared, input, fpc, todo>>
  BY DEF SortBackToHead, fetchvars
<1>2. PICK M, U \in Seq(Nodes) :
         /\ M # << >> /\ U # << >>
         /\ InOrderOf(before, M) /\ InOrderOf(before, U)
         /\ Elements(M) = {n \in used : Matching(n)}
         /\ Elements(U) = {n \in used : ~Matching(n)}
         /\ IsChain(next, M[1], M \o U) /\ Follows(M \o U)
         /\ previous[M[1]] = Nil
         /\ sorted \in Elements(M)
  BY <1>1 DEF Inv, SortInv
<1>3. sorted' \in Elements(M)
  BY <1>1, <1>2, HeadFacts
<1>4. SortInv'
  <2>1. SortedFrom'
    BY <1>1 DEF Inv, SortInv, SortedFrom, LastIsPlain, Elements, nodes
  <2>2. InOrderOf(before, M)' /\ InOrderOf(before, U)'
    BY <1>1, <1>2, SameOrder
  <2>3. /\ Elements(M)' = {n \in used' : Matching(n)'}
        /\ Elements(U)' = {n \in used' : ~Matching(n)'}
        /\ sorted' \in Elements(M)'
    BY <1>1, <1>2, <1>3 DEF Elements, Matching, nodes
  <2>4. PICK W : W = M \o U
    OBVIOUS
  <2>5. IsChain(next', M[1], W) /\ Follows(W)' /\ previous'[M[1]] = Nil
    BY <1>1, <1>2, <2>4 DEF Follows, nodes
  <2>6. \E P, Q \in Seq(Nodes) :
         /\ P # << >> /\ Q # << >>
         /\ InOrderOf(before, P)' /\ InOrderOf(before, Q)'
         /\ Elements(P)' = {n \in used' : Matching(n)'}
         /\ Elements(Q)' = {n \in used' : ~Matching(n)'}
         /\ IsChain(next', P[1], P \o Q) /\ Follows(P \o Q)'
         /\ previous'[P[1]] = Nil
         /\ sorted' \in Elements(P)'
    BY <1>2, <2>2, <2>3, <2>4, <2>5, Zenon
  <2> QED
    BY <1>1, <2>1, <2>6 DEF SortInv
<1>5. fpc = "sleep" /\ list # Nil /\ input' \in BOOLEAN /\ ~Whole'
  BY <1>1 DEF Inv, TurnsInv, TypeOK, Whole
<1> QED
  BY <1>1, <1>4, <1>5, KeyStepInv

LEMMA SortHeadInv ==
  ASSUME Inv, SortHead
  PROVE  Inv' /\ StablyPartitioned(before, Chain')
<1>1. /\ upc = "head" /\ upc' = "draw" /\ previous[sorted] = Nil /\ list' = sorted
      /\ UNCHANGED <<nodes, shared, input, fpc, todo>>
  BY DEF SortHead, KeysDone, fetchvars
<1>2. PICK M, U \in Seq(Nodes) :
         /\ M # << >> /\ U # << >>
         /\ InOrderOf(before, M) /\ InOrderOf(before, U)
         /\ Elements(M) = {n \in used : Matching(n)}
         /\ Elements(U) = {n \in used : ~Matching(n)}
         /\ IsChain(next, M[1], M \o U) /\ Follows(M \o U)
         /\ previous[M[1]] = Nil
         /\ sorted \in Elements(M)
  BY <1>1 DEF Inv, SortInv
<1>3. list' = M[1]
  BY <1>1, <1>2, HeadFacts
<1>4. PICK W : W = M \o U
  OBVIOUS
<1>5. StablyPartitioned(before, W) /\ Elements(W) = used
  BY <1>1, <1>2, <1>4, Partitioned DEF Inv, SortInv
<1>6. /\ W \in Seq(Nodes) /\ W # << >> /\ W[1] = M[1] /\ ~Matching(W[Len(W)])
  <2>1. /\ Len(M) \in Nat /\ Len(U) \in Nat /\ Len(W) = Len(M) + Len(U) /\ W \in Seq(Nodes)
        /\ \A l \in 1..(Len(M) + Len(U)) : W[l] = IF l <= Len(M) THEN M[l] ELSE U[l - Len(M)]
    BY <1>2, <1>4, LenProperties, ConcatProperties
  <2>2. Len(M) >= 1 /\ Len(U) >= 1
    BY <1>2, EmptySeq
  <2>3. W[1] = M[1] /\ Len(W) # 0
    BY <2>1, <2>2
  <2>4. W[Len(W)] = U[Len(U)]
    <3>1. Len(W) \in 1..(Len(M) + Len(U)) /\ ~(Len(W) <= Len(M)) /\ Len(W) - Len(M) = Len(U)
      BY <2>1, <2>2
    <3> QED
      BY <2>1, <3>1
  <2>5. U[Len(U)] \in Elements(U)
    BY <2>1, <2>2 DEF Elements
  <2>6. W # << >>
    BY <2>3
  <2> QED
    BY <1>2, <2>1, <2>3, <2>4, <2>5, <2>6
<1>7. IsChain(next, list', W) /\ Follows(W) /\ previous[W[1]] = Nil
  BY <1>2, <1>3, <1>4, <1>6
<1>8. Inv' /\ Chain' = W
  BY <1>1, <1>5, <1>6, <1>7, SortEnds
<1> QED
  BY <1>5, <1>8

-----------------------------------------------------------------------------
(* The theorems, when keys are not handled during a fetch *)

LEMMA InitInv ==
  ASSUME Init
  PROVE  Inv /\ WordsInv
<1>1. /\ list = Nil /\ used = {} /\ fpc = "sleep" /\ upc = "keys"
      /\ shared = FALSE /\ input = FALSE /\ todo = << >>
      /\ next = [n \in Nodes |-> Nil] /\ previous = [n \in Nodes |-> Nil]
      /\ init = [n \in Nodes |-> 0] /\ flags = [n \in Nodes |-> {}]
      /\ \E h \in Hashes : hash = [n \in Nodes |-> h]
  BY DEF Init
<1>2. TypeOK
  <2>1. << >> \in Seq(Article)
    BY EmptySeq
  <2>2. hash \in [Nodes -> Hashes \cup {NoHash}]
    BY <1>1
  <2>3. flags \in [Nodes -> SUBSET Flags] /\ init \in [Nodes -> {0, 1}]
    BY <1>1
  <2> QED
    BY <1>1, <2>1, <2>2, <2>3 DEF TypeOK
<1>3. Chain = << >>
  <2>1. IsChain(next, list, << >>)
    BY <1>1, EmptySeq DEF IsChain
  <2> QED
    BY <2>1, ChainIs DEF Chain
<1>4. ChainInv
  BY <1>1, <1>3, EmptySeq DEF ChainInv, IsChain, Follows, Elements, Pending
<1> QED
  BY <1>1, <1>2, <1>4 DEF Inv, WordsInv, TurnsInv, HashesInv, FetchInv, SortInv

LEMMA StutterInv ==
  ASSUME Inv, UNCHANGED vars
  PROVE  Inv'
<1>1. /\ UNCHANGED <<list, nodes, shared, input, fpc, todo>> /\ UNCHANGED keyvars
      /\ UNCHANGED <<fnode, fnew>>
  BY DEF vars, nodes, keyvars
<1>2. Chain' = Chain /\ Elements(Chain)' = Elements(Chain)
  BY <1>1, SameChain DEF nodes, Elements
<1>3. TypeOK' /\ TurnsInv'
  BY <1>1 DEF Inv, TypeOK, TurnsInv, nodes, keyvars
<1>4. ChainInv' /\ HashesInv'
  BY <1>1, SameArticles DEF Inv, Whole, Pending, keyvars
<1>5. FetchInv'
  BY <1>1, <1>2 DEF Inv, FetchInv, nodes
<1>6. SortInv'
  <2>1. SortedFrom => SortedFrom'
    BY <1>1 DEF SortedFrom, LastIsPlain, Elements, nodes, keyvars
  <2>2. CASE upc = "sort"
    <3>1. PICK J \in 0..Len(before) : \E M, U \in Seq(Nodes) : Dealing(J, M, U)
      BY <2>2 DEF Inv, SortInv
    <3>2. PICK M, U \in Seq(Nodes) : Dealing(J, M, U)
      BY <3>1
    <3>3. Dealt(J, M, U)'
      BY <1>1, <3>2, SameHalves DEF Dealing, keyvars
    <3>4. Dealing(J, M, U)'
      BY <1>1, <3>2, <3>3 DEF Dealing, TailOf, Matching, nodes, keyvars
    <3>5. \E K \in 0..Len(before') : \E P, Q \in Seq(Nodes) : Dealing(K, P, Q)'
      BY <1>1, <3>2, <3>4 DEF keyvars
    <3> QED
      BY <1>1, <2>1, <2>2, <3>5 DEF Inv, SortInv, keyvars
  <2>3. CASE upc = "join"
    <3>1. PICK M, U \in Seq(Nodes) :
             /\ Dealt(Len(before), M, U)
             /\ U # << >> /\ next[TailOf(U)] = Nil
             /\ sorted = TailOf(M) /\ unsorted \in Elements(U)
      BY <2>3 DEF Inv, SortInv
    <3>2. Dealt(Len(before), M, U)'
      <4>1. \A K : K = Len(before) => Dealt(K, M, U)'
        BY <1>1, <3>1, SameHalves DEF keyvars
      <4>2. Len(before') = Len(before)
        BY <1>1 DEF keyvars
      <4> QED
        BY <4>1, <4>2
    <3>3. \E P, Q \in Seq(Nodes) :
            /\ Dealt(Len(before), P, Q)'
            /\ Q # << >> /\ next'[TailOf(Q)] = Nil
            /\ sorted' = TailOf(P) /\ unsorted' \in Elements(Q)
      BY <1>1, <3>1, <3>2 DEF nodes, keyvars
    <3> QED
      BY <1>1, <2>1, <2>3, <3>3 DEF Inv, SortInv, Elements, TailOf, keyvars
  <2>4. CASE upc = "head"
    <3>1. PICK M, U \in Seq(Nodes) :
             /\ M # << >> /\ U # << >>
             /\ InOrderOf(before, M) /\ InOrderOf(before, U)
             /\ Elements(M) = {n \in used : Matching(n)}
             /\ Elements(U) = {n \in used : ~Matching(n)}
             /\ IsChain(next, M[1], M \o U) /\ Follows(M \o U)
             /\ previous[M[1]] = Nil
             /\ sorted \in Elements(M)
      BY <2>4 DEF Inv, SortInv
    <3>2. InOrderOf(before, M)' /\ InOrderOf(before, U)'
      BY <1>1, <3>1, SameOrder DEF keyvars
    <3>3. /\ Elements(M)' = {n \in used' : Matching(n)'}
          /\ Elements(U)' = {n \in used' : ~Matching(n)'}
          /\ sorted' \in Elements(M)'
      BY <1>1, <3>1 DEF Elements, Matching, nodes, keyvars
    <3>4. PICK W : W = M \o U
      OBVIOUS
    <3>5. IsChain(next', M[1], W) /\ Follows(W)' /\ previous'[M[1]] = Nil
      BY <1>1, <3>1, <3>4 DEF Follows, nodes
    <3>6. \E P, Q \in Seq(Nodes) :
           /\ P # << >> /\ Q # << >>
           /\ InOrderOf(before, P)' /\ InOrderOf(before, Q)'
           /\ Elements(P)' = {n \in used' : Matching(n)'}
           /\ Elements(Q)' = {n \in used' : ~Matching(n)'}
           /\ IsChain(next', P[1], P \o Q) /\ Follows(P \o Q)'
           /\ previous'[P[1]] = Nil
           /\ sorted' \in Elements(P)'
      BY <3>1, <3>2, <3>3, <3>4, <3>5, Zenon
    <3> QED
      BY <1>1, <2>1, <2>4, <3>6 DEF Inv, SortInv, keyvars
  <2>5. CASE upc \notin {"sort", "join", "head"}
    BY <1>1, <1>2, <2>5 DEF Inv, SortInv, nodes, keyvars
  <2> QED
    BY <2>2, <2>3, <2>4, <2>5
<1> QED
  BY <1>3, <1>4, <1>5, <1>6 DEF Inv

LEMMA NextInv ==
  ASSUME ~Concurrent, Inv, WordsInv, [Next]_vars
  PROVE  Inv'
<1>1. CASE FetchStart
  BY <1>1, FetchStartInv
<1>2. CASE FetchStep
  BY <1>2, FetchFailsInv, FetchReplyInv, FetchDoneInv, FindBeginInv, FindHitInv,
     FindStepInv, FillHeadInv, NewArticleInv, NoMemoryInv, WalkInv, WalkEndInv, LinkInv,
     FetchDrawsNoneInv, FetchDrawsInv, FetchDrawnInv
     DEF FetchStep
<1>3. CASE KeyStep
  BY <1>3, SearchStepInv, SearchEndInv, SortMatchInv, SortCrashInv, SortOtherInv,
     SortLoopEndInv, SortBackInv, SortNoMatchInv, SortJoinInv, SortBackToHeadInv,
     SortHeadInv, ResetStepInv, ResetEndInv,
     MarkStoreInv, KeyDrawsNoneInv, KeyDrawsInv, KeyDrawnInv
     DEF KeyStep
<1>4. CASE KeyPress
  BY <1>4, OpenSearchInv, EnterInv, EnterBadPatternInv, EnterOnDummyInv, ResetInv,
     MarkInv, RedrawInv
     DEF KeyPress
<1>5. CASE UNCHANGED vars
  BY <1>5, StutterInv
<1> QED
  BY <1>1, <1>2, <1>3, <1>4, <1>5 DEF Next, Crashed

(* Between the reading of a flags word and the writing nobody else writes: *)
(* the other thread is not at work.                                        *)
LEMMA NextWordsInv ==
  ASSUME ~Concurrent, Inv, WordsInv, [Next]_vars
  PROVE  WordsInv'
<1>1. CASE FetchDraws
  <2>1. upc' = "keys"
    BY <1>1, FetchTurn DEF FetchDraws, keyvars
  <2> QED
    BY <1>1, <2>1, FetchDrawsInv DEF WordsInv
<1>2. CASE Mark \/ KeyDraws
  <2>1. fpc' = "sleep"
    BY <1>2 DEF Mark, KeyDraws, Key, fetchvars, Inv, TurnsInv
  <2> QED
    BY <1>2, <2>1, MarkInv, KeyDrawsInv DEF WordsInv
<1>3. CASE UNCHANGED vars
  <2>1. UNCHANGED <<fpc, upc, fread, kread, flags>>
    BY <1>3 DEF vars
  <2> QED
    BY <2>1 DEF WordsInv, IsRead
<1>4. CASE FetchStart \/ (FetchStep /\ ~FetchDraws)
  <2>1. fpc' # "store" /\ upc = "keys" /\ upc' \in {upc, "crashed"}
    <3>1. upc = "keys"
      BY <1>4 DEF Inv, TurnsInv, FetchStart, FetchStep, FetchFails, FetchReply, FetchDone,
         FindBegin, FindHit, FindStep, FillHead, NewArticle, NoMemory, Walk, WalkEnd, Link,
         FetchDrawsNone, FetchDrawn
    <3>2. upc' \in {upc, "crashed"}
      BY <1>4 DEF FetchStart, FetchStep, FetchFails, FetchReply, FetchDone,
         FindBegin, FindHit, FindStep, FillHead, NewArticle, NoMemory, Walk, WalkEnd, Link,
         FetchDrawsNone, FetchDrawn, keyvars
    <3>3. fpc' # "store"
      BY <1>4 DEF FetchStart, FetchStep, FetchFails, FetchReply, FetchDone, FindBegin,
         FindHit, FindStep, FillHead, NewArticle, NoMemory, Walk, WalkEnd, Link,
         FetchDrawsNone, FetchDrawn, ArticleDone
    <3> QED
      BY <3>1, <3>2, <3>3
  <2> QED
    BY <2>1 DEF WordsInv
<1>5. CASE (KeyStep /\ ~KeyDraws) \/ (KeyPress /\ ~Mark)
  <2>1. upc' \notin {"mark", "store"}
    BY <1>5 DEF KeyStep, SearchStep, SearchEnd, SortMatch, SortCrash, SortOther, SortLoopEnd,
       SortBack, SortNoMatch, SortJoin, SortBackToHead, SortHead, ResetStep, ResetEnd,
       MarkStore, KeyDrawsNone, KeyDrawn, KeysDone, KeyPress, Key, OpenSearch, Enter,
       EnterBadPattern, EnterOnDummy, Reset, Redraw, keyvars
  <2>2. fpc' = "sleep"
    <3>1. fpc = "sleep"
      BY <1>5 DEF Inv, TurnsInv, KeyStep, SearchStep, SearchEnd, SortMatch, SortCrash,
         SortOther, SortLoopEnd, SortBack, SortNoMatch, SortJoin, SortBackToHead, SortHead,
         ResetStep, ResetEnd, MarkStore, KeyDrawsNone, KeyDrawn, KeyPress, Key, OpenSearch,
         Enter, EnterBadPattern, EnterOnDummy, Reset, Redraw
    <3>2. fpc' = fpc
      BY <1>5 DEF KeyStep, SearchStep, SearchEnd, SortMatch, SortCrash, SortOther,
         SortLoopEnd, SortBack, SortNoMatch, SortJoin, SortBackToHead, SortHead, ResetStep,
         ResetEnd, MarkStore, KeyDrawsNone, KeyDrawn, KeyPress, OpenSearch, Enter,
         EnterBadPattern, EnterOnDummy, Reset, Redraw, fetchvars
    <3> QED
      BY <3>1, <3>2
  <2> QED
    BY <2>1, <2>2 DEF WordsInv
<1> QED
  BY <1>1, <1>2, <1>3, <1>4, <1>5 DEF Next, Crashed

(* The invariant holds of every list and every sequence of fetches and     *)
(* keys that do not overlap (hnfetcher.c:86-146, 280-401).                 *)
THEOREM Invariant ==
  ASSUME ~Concurrent
  PROVE  Spec => [](Inv /\ WordsInv)
<1>1. Init => Inv /\ WordsInv
  BY InitInv
<1>2. Inv /\ WordsInv /\ [Next]_vars => (Inv /\ WordsInv)'
  BY NextInv, NextWordsInv
<1> QED
  BY <1>1, <1>2, PTL DEF Spec

(* Between operations the list is whole and doubly linked.                 *)
THEOREM DoublyLinked ==
  ASSUME ~Concurrent
  PROVE  Spec => []ListIsDoublyLinked
<1>1. Inv => ListIsDoublyLinked
  <2> SUFFICES ASSUME Inv, Idle, list # Nil
               PROVE  /\ Elements(Chain) = used
                      /\ Len(Chain) = Cardinality(used)
                      /\ previous[list] \in {Nil, Wild}
                      /\ \A k \in 2..Len(Chain) : previous[Chain[k]] = Chain[k - 1]
    BY DEF ListIsDoublyLinked
  <2>1. Whole /\ Pending = {}
    BY DEF Idle, Whole, Pending
  <2>2. /\ IsChain(next, list, Chain) /\ Follows(Chain) /\ Elements(Chain) = used
        /\ previous[list] \in {Nil, Wild}
    BY <2>1 DEF Inv, ChainInv
  <2>3. Cardinality(Elements(Chain)) = Len(Chain)
    BY <2>2, DistinctLength DEF IsChain
  <2> QED
    BY <2>2, <2>3 DEF Follows
<1> QED
  BY <1>1, Invariant, PTL

(* No article that has a hash is in the list twice.                        *)
THEOREM NoDuplicates ==
  ASSUME ~Concurrent
  PROVE  Spec => []NoDuplicateArticles
<1>1. Inv => NoDuplicateArticles
  BY DEF Inv, HashesInv, NoDuplicateArticles
<1> QED
  BY <1>1, Invariant, PTL

(* SortList dies only over memory that was never set.                      *)
THEOREM CrashIsFromGarbage ==
  ASSUME ~Concurrent
  PROVE  Spec => []CrashOnlyFromGarbage
<1>1. Inv => CrashOnlyFromGarbage
  BY DEF Inv, SortInv, CrashOnlyFromGarbage
<1> QED
  BY <1>1, Invariant, PTL

LEMMA SortIsOverAt ==
  ASSUME ~Concurrent, Inv, Next, SortDone
  PROVE  SortNoMatch \/ SortHead
<1>1. /\ fpc = "sleep" /\ upc # "keys" /\ upc' = "draw" /\ upc # upc'
      /\ upc \notin {"search", "reset", "sort", "mark", "draw", "store", "crashed"}
  BY DEF SortDone, Inv, TurnsInv
<1>2. ~FetchStart /\ ~FetchStep
  BY <1>1 DEF FetchStart, FetchStep, FetchFails, FetchReply, FetchDone, FindBegin, FindHit,
     FindStep, FillHead, NewArticle, NoMemory, Walk, WalkEnd, Link, FetchDrawsNone,
     FetchDraws, FetchDrawn
<1>3. ~KeyPress
  BY <1>1 DEF KeyPress, Key, OpenSearch, Enter, EnterBadPattern, EnterOnDummy, Reset, Mark,
     Redraw
<1>4. KeyStep => SortNoMatch \/ SortHead
  BY <1>1 DEF KeyStep, SearchStep, SearchEnd, SortMatch, SortCrash, SortOther, SortLoopEnd,
     SortBack, SortJoin, SortBackToHead, ResetStep, ResetEnd, MarkStore, KeyDrawsNone,
     KeyDraws, KeyDrawn
<1> QED
  BY <1>1, <1>2, <1>3, <1>4 DEF Next, Crashed

(* A sort is a stable partition of the list it was called with.            *)
THEOREM StablePartition ==
  ASSUME ~Concurrent
  PROVE  Spec => SortIsAStablePartition
<1>1. Inv /\ [Next]_vars => [SortDone => StablyPartitioned(before, Chain')]_vars
  BY SortIsOverAt, SortNoMatchInv, SortHeadInv
<1> QED
  BY <1>1, Invariant, PTL DEF Spec, SortIsAStablePartition

(* Without the race no sort loses an article (compare cmoka.c:63-81).      *)
THEOREM NothingLostWithoutTheRace ==
  ASSUME ~Concurrent
  PROVE  Spec => SortLosesNothing
<1>1. Inv /\ [Next]_vars => [SortDone => Elements(before) \subseteq Elements(Chain')]_vars
  <2>1. ASSUME StablyPartitioned(before, Chain')
        PROVE  Elements(before) \subseteq Elements(Chain')
    BY <2>1 DEF StablyPartitioned
  <2> QED
    BY <2>1, SortIsOverAt, SortNoMatchInv, SortHeadInv
<1> QED
  BY <1>1, Invariant, PTL DEF Spec, SortLosesNothing

(* Which steps write flags.                                                *)
LEMMA FlagsAreKept ==
  ASSUME Next, ~MarkOrReset
  PROVE  \/ UNCHANGED <<used, init, flags>>
         \/ FetchStart \/ NewArticle \/ FillHead \/ SearchStep \/ KeyDrawn \/ FetchDrawn
<1>1. CASE FetchStep
  BY <1>1 DEF FetchStep, FetchFails, FetchReply, FetchDone, FindBegin, FindHit, FindStep,
     NoMemory, Walk, WalkEnd, Link, FetchDrawsNone, FetchDraws, nodes
<1>2. CASE KeyStep
  BY <1>2 DEF KeyStep, MarkOrReset, SearchEnd, SortMatch, SortCrash, SortOther, SortLoopEnd,
     SortBack, SortNoMatch, SortJoin, SortBackToHead, SortHead, ResetEnd, KeyDrawsNone,
     KeyDraws, nodes
<1>3. CASE KeyPress
  BY <1>3 DEF KeyPress, OpenSearch, Enter, EnterBadPattern, EnterOnDummy, Reset, Mark, Redraw,
     nodes
<1>4. CASE Crashed
  BY <1>4 DEF Crashed, vars
<1> QED
  BY <1>1, <1>2, <1>3, <1>4 DEF Next

LEMMA ChosenIsKept ==
  ASSUME ~Concurrent, Inv, WordsInv, Next, ~MarkOrReset
  PROVE  Chosen' = Chosen
<1>1. CASE UNCHANGED <<used, init, flags>>
  BY <1>1 DEF Chosen
<1>2. ASSUME NEW n \in Nodes \ used, used' = used \cup {n},
             \A m \in used : init'[m] = init[m] /\ flags'[m] = flags[m],
             "chosen" \notin flags'[n]
      PROVE  Chosen' = Chosen
  BY <1>2 DEF Chosen
<1>3. CASE FetchStart
  <2>1. CASE list # Nil /\ UNCHANGED <<list, nodes>>
    BY <1>1, <2>1 DEF nodes
  <2>2. CASE list = Nil
    <3>1. used' = used \cup {Fresh} /\ UNCHANGED init
      BY <1>3, <2>2 DEF FetchStart
    <3>2. PICK f \in SUBSET {"match"} : flags' = [flags EXCEPT ![Fresh] = f]
      BY <1>3, <2>2 DEF FetchStart
    <3>3. Fresh \in Nodes \ used
      <4>1. Whole /\ Pending = {}
        BY <1>3 DEF FetchStart, Inv, TurnsInv, Whole, Pending
      <4>2. used = {}
        BY <2>2, <4>1, ChainFacts DEF Inv
      <4> QED
        BY <4>2, FreshIs, ArticleListAssumption
    <3>4. "chosen" \notin flags'[Fresh] /\ \A m \in used : flags'[m] = flags[m]
      BY <3>2, <3>3 DEF Inv, TypeOK
    <3> QED
      BY <1>2, <3>1, <3>3, <3>4
  <2> QED
    BY <1>3, <2>1, <2>2 DEF FetchStart
<1>4. CASE NewArticle
  <2>1. Fresh \in Nodes \ used
    BY <1>4, FreshIs DEF NewArticle, Inv, TypeOK
  <2>2. /\ used' = used \cup {Fresh}
        /\ init' = [init EXCEPT ![Fresh] = 1]
        /\ flags' = [flags EXCEPT ![Fresh] = IF Head(todo).saved THEN {"saved"} ELSE {}]
    BY <1>4 DEF NewArticle
  <2>3. "chosen" \notin flags'[Fresh]
    BY <2>1, <2>2 DEF Inv, TypeOK
  <2>4. \A m \in used : init'[m] = init[m] /\ flags'[m] = flags[m]
    BY <2>1, <2>2 DEF Inv, TypeOK
  <2> QED
    BY <1>2, <2>1, <2>2, <2>3, <2>4
<1>5. CASE FillHead
  <2>1. /\ used' = used /\ init[list] # 1
        /\ init' = [init EXCEPT ![list] = @ + 1]
        /\ flags' = [flags EXCEPT ![list] = {}]
    BY <1>5 DEF FillHead
  <2>2. \A m \in used : m # list => init'[m] = init[m] /\ flags'[m] = flags[m]
    BY <2>1 DEF Inv, TypeOK
  <2>3. list \in Nodes => "chosen" \notin flags'[list]
    BY <2>1 DEF Inv, TypeOK
  <2> QED
    BY <2>1, <2>2, <2>3 DEF Chosen, Inv, TypeOK
<1>6. CASE SearchStep
  <2>1. /\ UNCHANGED <<used, init>>
        /\ flags' = [flags EXCEPT ![i] =
                       IF hash[i] \in pattern THEN @ \cup {"match"} ELSE @ \ {"match"}]
    BY <1>6 DEF SearchStep
  <2>2. \A m \in Nodes : "chosen" \in flags'[m] <=> "chosen" \in flags[m]
    BY <2>1 DEF Inv, TypeOK
  <2> QED
    BY <2>1, <2>2 DEF Chosen, Inv, TypeOK
<1>7. CASE KeyDrawn \/ FetchDrawn
  <2>1. UNCHANGED <<used, init>>
    BY <1>7 DEF KeyDrawn, FetchDrawn
  <2> QED
    BY <1>1, <1>7, <2>1, KeyDrawnInv, FetchDrawnInv
<1> QED
  BY <1>1, <1>3, <1>4, <1>5, <1>6, <1>7, FlagsAreKept

(* While keys wait for the fetch, a chosen mark is lost to nothing but the *)
(* space key and a reset: not to the redraws, which write the whole word   *)
(* back (hnfetcher.c:280-320, grabber.c:458).                              *)
THEOREM MarksAreKept ==
  ASSUME ~Concurrent
  PROVE  Spec => MarksSurvive
<1>1. Inv /\ WordsInv /\ [Next]_vars => [~MarkOrReset => Chosen' = Chosen]_vars
  BY ChosenIsKept
<1> QED
  BY <1>1, Invariant, PTL DEF Spec, MarksSurvive
=============================================================================
