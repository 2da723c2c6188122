-------------------------- MODULE LinkedList_proofs --------------------------
(***************************************************************************)
(* Proofs about the linked list, for any set of entries: the pointers      *)
(* always form the ring that the insertions and deletions describe, and a  *)
(* walk over it stays on it and misses nothing.                            *)
(***************************************************************************)
EXTENDS LinkedList, SeqLemmas

(* What is at position i of the ring through s.                            *)
AtOf(s, i) == IF i \in 1 .. Len(s) THEN s[i] ELSE Root

Ring(s, nx, pv) ==
  \A i \in 0 .. Len(s) : nx[AtOf(s, i)] = AtOf(s, i + 1) /\ pv[AtOf(s, i + 1)] = AtOf(s, i)

Fields == [Place -> Place \cup {Poison}]

(* Going once round the ring meets every place once.                       *)
LEMMA AtOfFacts ==
  ASSUME NEW s \in Seq(Node), IsInjective(s)
  PROVE  /\ Len(s) \in Nat /\ DOMAIN s = 1 .. Len(s)
         /\ \A i \in 0 .. Len(s) + 1 : AtOf(s, i) \in Place
         /\ \A i \in 1 .. Len(s) : AtOf(s, i) = s[i] /\ s[i] \in Node /\ s[i] # Root
         /\ AtOf(s, 0) = Root /\ AtOf(s, Len(s) + 1) = Root
         /\ \A i, j \in 0 .. Len(s) : AtOf(s, i) = AtOf(s, j) => i = j
         /\ \A i, j \in 1 .. Len(s) + 1 : AtOf(s, i) = AtOf(s, j) => i = j
<1>1. Len(s) \in Nat /\ DOMAIN s = 1 .. Len(s)
  BY LenProperties
<1>2. \A i \in 1 .. Len(s) : s[i] \in Node /\ s[i] # Root
  BY <1>1, ElementOfSeq, LinkedListAssumption
<1>3. \A i, j \in 1 .. Len(s) : s[i] = s[j] => i = j
  BY <1>1 DEF IsInjective
<1>4. QED
  BY <1>1, <1>2, <1>3 DEF AtOf, Place

(* list_add between positions k - 1 and k puts the entry at position k.    *)
LEMMA InsertKeepsRing ==
  ASSUME NEW s \in Seq(Node), IsInjective(s), NEW nx \in Fields, NEW pv \in Fields,
         Ring(s, nx, pv), NEW x \in Node, x \notin Range(s), NEW k \in 1 .. Len(s) + 1
  PROVE  LET after == AtOf(s, k)
             before == AtOf(s, k - 1)
         IN /\ pv[after] = before
            /\ Ring(InsertAt(s, k, x), [nx EXCEPT ![x] = after, ![before] = x],
                    [pv EXCEPT ![after] = x, ![x] = before])
<1> DEFINE after == AtOf(s, k)
           before == AtOf(s, k - 1)
           t == InsertAt(s, k, x)
           nx1 == [nx EXCEPT ![x] = after, ![before] = x]
           pv1 == [pv EXCEPT ![after] = x, ![x] = before]
<1>1. /\ Len(s) \in Nat
      /\ \A i \in 0 .. Len(s) + 1 : AtOf(s, i) \in Place
      /\ AtOf(s, 0) = Root /\ AtOf(s, Len(s) + 1) = Root
      /\ \A i, j \in 0 .. Len(s) : AtOf(s, i) = AtOf(s, j) => i = j
      /\ \A i, j \in 1 .. Len(s) + 1 : AtOf(s, i) = AtOf(s, j) => i = j
  BY AtOfFacts
<1>2. \A i \in 0 .. Len(s) + 1 : AtOf(s, i) # x
  BY LenProperties, LinkedListAssumption DEF AtOf, Range
<1>3. x \in Place
  BY DEF Place
<1>4. Len(t) = Len(s) + 1
  BY InsertAtElements
<1>5. \A i \in 0 .. Len(s) + 2 :
        AtOf(t, i) = IF i < k THEN AtOf(s, i) ELSE IF i = k THEN x ELSE AtOf(s, i - 1)
  <2>1. \A j \in 1 .. Len(s) + 1 :
          t[j] = IF j < k THEN s[j] ELSE IF j = k THEN x ELSE s[j - 1]
    BY InsertAtElements
  <2>2. QED
    BY <1>1, <1>4, <2>1 DEF AtOf
<1>6. \A i \in 0 .. Len(s) : nx[AtOf(s, i)] = AtOf(s, i + 1) /\ pv[AtOf(s, i + 1)] = AtOf(s, i)
  BY DEF Ring
<1>7. pv[after] = before
  BY <1>1, <1>6
<1>8. /\ nx1[x] = after /\ nx1[before] = x
      /\ \A y \in Place \ {x, before} : nx1[y] = nx[y]
  BY <1>1, <1>2, <1>3 DEF Fields
<1>9. /\ pv1[x] = before /\ pv1[after] = x
      /\ \A y \in Place \ {x, after} : pv1[y] = pv[y]
  BY <1>1, <1>2, <1>3 DEF Fields
<1>10. ASSUME NEW i \in 0 .. Len(s) + 1
       PROVE  nx1[AtOf(t, i)] = AtOf(t, i + 1) /\ pv1[AtOf(t, i + 1)] = AtOf(t, i)
  <2> HIDE DEF t, nx1, pv1
  <2>1. CASE i < k - 1
    <3>1. AtOf(t, i) = AtOf(s, i) /\ AtOf(t, i + 1) = AtOf(s, i + 1)
      BY <1>1, <1>5, <2>1
    <3>2. AtOf(s, i) \in Place \ {x, before} /\ AtOf(s, i + 1) \in Place \ {x, after}
      BY <1>1, <1>2, <2>1
    <3>3. QED
      BY <1>1, <1>6, <1>8, <1>9, <2>1, <3>1, <3>2
  <2>2. CASE i = k - 1
    BY <1>1, <1>5, <1>8, <1>9, <2>2
  <2>3. CASE i = k
    BY <1>1, <1>5, <1>8, <1>9, <2>3
  <2>4. CASE i > k
    <3>1. AtOf(t, i) = AtOf(s, i - 1) /\ AtOf(t, i + 1) = AtOf(s, i)
      BY <1>1, <1>5, <2>4
    <3>2. AtOf(s, i - 1) \in Place \ {x, before} /\ AtOf(s, i) \in Place \ {x, after}
      BY <1>1, <1>2, <2>4
    <3>3. i - 1 \in 0 .. Len(s) /\ (i - 1) + 1 = i
      BY <1>1, <2>4
    <3>4. nx[AtOf(s, i - 1)] = AtOf(s, i) /\ pv[AtOf(s, i)] = AtOf(s, i - 1)
      BY <1>6, <3>3
    <3>5. QED
      BY <1>8, <1>9, <3>1, <3>2, <3>4
  <2>5. QED
    BY <1>1, <2>1, <2>2, <2>3, <2>4
<1>11. Ring(t, nx1, pv1)
  BY <1>4, <1>10 DEF Ring
<1>12. QED
  BY <1>7, <1>11

(* list_del of the entry at position k closes the gap.                     *)
LEMMA DeleteKeepsRing ==
  ASSUME NEW s \in Seq(Node), IsInjective(s), NEW nx \in Fields, NEW pv \in Fields,
         Ring(s, nx, pv), NEW k \in 1 .. Len(s)
  PROVE  LET x == s[k]
         IN /\ nx[x] = AtOf(s, k + 1) /\ pv[x] = AtOf(s, k - 1)
            /\ Ring(RemoveAt(s, k), [nx EXCEPT ![pv[x]] = nx[x], ![x] = Poison],
                    [pv EXCEPT ![nx[x]] = pv[x], ![x] = Poison])
<1> DEFINE x == s[k]
           after == AtOf(s, k + 1)
           before == AtOf(s, k - 1)
           t == RemoveAt(s, k)
           nx1 == [nx EXCEPT ![before] = after, ![x] = Poison]
           pv1 == [pv EXCEPT ![after] = before, ![x] = Poison]
<1>1. /\ Len(s) \in Nat
      /\ \A i \in 0 .. Len(s) + 1 : AtOf(s, i) \in Place
      /\ AtOf(s, k) = x
      /\ AtOf(s, 0) = Root /\ AtOf(s, Len(s) + 1) = Root
      /\ \A i, j \in 0 .. Len(s) : AtOf(s, i) = AtOf(s, j) => i = j
      /\ \A i, j \in 1 .. Len(s) + 1 : AtOf(s, i) = AtOf(s, j) => i = j
  BY AtOfFacts
<1>2. \A i \in 0 .. Len(s) : nx[AtOf(s, i)] = AtOf(s, i + 1) /\ pv[AtOf(s, i + 1)] = AtOf(s, i)
  BY DEF Ring
<1>3. nx[x] = after /\ pv[x] = before
  <2>1. k \in 0 .. Len(s) /\ k - 1 \in 0 .. Len(s) /\ (k - 1) + 1 = k
    BY <1>1
  <2>2. QED
    BY <1>1, <1>2, <2>1
<1>4. x # before /\ x # after /\ x \in Place /\ before \in Place /\ after \in Place
  BY <1>1
<1>5. Len(t) = Len(s) - 1
  BY RemoveAtElements
<1>6. \A i \in 0 .. Len(s) : AtOf(t, i) = IF i < k THEN AtOf(s, i) ELSE AtOf(s, i + 1)
  <2>1. \A j \in 1 .. Len(s) - 1 : t[j] = IF j < k THEN s[j] ELSE s[j + 1]
    BY RemoveAtElements
  <2>2. QED
    BY <1>1, <1>5, <2>1 DEF AtOf
<1>7. nx1[before] = after /\ \A y \in Place \ {x, before} : nx1[y] = nx[y]
  BY <1>4 DEF Fields
<1>8. pv1[after] = before /\ \A y \in Place \ {x, after} : pv1[y] = pv[y]
  BY <1>4 DEF Fields
<1>9. ASSUME NEW i \in 0 .. Len(s) - 1
      PROVE  nx1[AtOf(t, i)] = AtOf(t, i + 1) /\ pv1[AtOf(t, i + 1)] = AtOf(t, i)
  <2> HIDE DEF t, nx1, pv1, x
  <2>1. CASE i < k - 1
    <3>1. AtOf(t, i) = AtOf(s, i) /\ AtOf(t, i + 1) = AtOf(s, i + 1)
      BY <1>1, <1>6, <2>1
    <3>2. AtOf(s, i) \in Place \ {x, before} /\ AtOf(s, i + 1) \in Place \ {x, after}
      BY <1>1, <2>1
    <3>3. QED
      BY <1>1, <1>2, <1>7, <1>8, <2>1, <3>1, <3>2
  <2>2. CASE i = k - 1
    BY <1>1, <1>6, <1>7, <1>8, <2>2
  <2>3. CASE i > k - 1
    <3>1. AtOf(t, i) = AtOf(s, i + 1) /\ AtOf(t, i + 1) = AtOf(s, i + 2)
      BY <1>1, <1>6, <2>3
    <3>2. AtOf(s, i + 1) \in Place \ {x, before} /\ AtOf(s, i + 2) \in Place \ {x, after}
      BY <1>1, <2>3
    <3>3. i + 1 \in 0 .. Len(s) /\ (i + 1) + 1 = i + 2
      BY <1>1
    <3>4. nx[AtOf(s, i + 1)] = AtOf(s, i + 2) /\ pv[AtOf(s, i + 2)] = AtOf(s, i + 1)
      BY <1>2, <3>3
    <3>5. QED
      BY <1>7, <1>8, <3>1, <3>2, <3>4
  <2>4. QED
    BY <1>1, <2>1, <2>2, <2>3
<1>10. Ring(t, nx1, pv1)
  BY <1>1, <1>5, <1>9 DEF Ring
<1>11. QED
  BY <1>3, <1>10

-----------------------------------------------------------------------------
(* Where a walk stands: position i is the next one it has to look at.  The *)
(* entries before i have been visited, those from i on have not; pos is    *)
(* the entry at i, with its successor saved in n by a safe walk, or it is  *)
(* an entry the body has deleted, and the saved successor is the one at i. *)
StandsAt(i) ==
  /\ \A j \in 1 .. i - 1 : items[j] \in Range(seen)
  /\ \A j \in i .. Len(items) : items[j] \notin Range(seen)
  /\ \/ pos = At(i) /\ (walk = "safe" /\ i <= Len(items) => n = At(i + 1))
     \/ /\ walk = "safe" /\ n = At(i)
        /\ pos \in Node \ Range(items) /\ pos \notin Range(seen)

WalkInv ==
  /\ IsInjective(seen)
  /\ walk # "none" => \E i \in 1 .. Len(items) + 1 : StandsAt(i)

(* The inductive invariant.                                                *)
ListInv == TypeOK /\ RingIsItems /\ DeletedIsPoisoned /\ WalkInv

LEMMA AtIsAtOf == \A i : At(i) = AtOf(items, i)
BY DEF At, AtOf

(* The facts every step starts from.                                       *)
LEMMA RingFacts ==
  ASSUME ListInv
  PROVE  /\ items \in Seq(Node) /\ IsInjective(items)
         /\ Len(items) \in Nat /\ DOMAIN items = 1 .. Len(items)
         /\ next \in Fields /\ prev \in Fields
         /\ Ring(items, next, prev)
         /\ \A i \in 0 .. Len(items) + 1 : At(i) \in Place
         /\ \A i \in 1 .. Len(items) :
              At(i) = items[i] /\ items[i] \in Node /\ items[i] # Root
         /\ At(0) = Root /\ At(Len(items) + 1) = Root
         /\ \A i, j \in 1 .. Len(items) + 1 : At(i) = At(j) => i = j
<1>1. items \in Seq(Node) /\ IsInjective(items) /\ next \in Fields /\ prev \in Fields
  BY DEF ListInv, TypeOK, RingIsItems, Fields
<1>2. Ring(items, next, prev)
  BY AtIsAtOf DEF ListInv, RingIsItems, Ring
<1>3. QED
  BY <1>1, <1>2, AtOfFacts, AtIsAtOf

LEMMA PositionFacts ==
  ASSUME ListInv, NEW p \in Range(items) \cup {Root}
  PROVE  Position(p) \in 1 .. Len(items) + 1 /\ At(Position(p)) = p
<1>1. CASE p = Root
  BY <1>1, RingFacts DEF Position
<1>2. CASE p # Root
  <2>1. \E k \in DOMAIN items : items[k] = p
    BY <1>2 DEF Range
  <2>2. Position(p) \in DOMAIN items /\ items[Position(p)] = p
    BY <1>2, <2>1 DEF Position
  <2>3. QED
    BY <2>2, RingFacts
<1>3. QED
  BY <1>1, <1>2

LEMMA ListInit == Init => ListInv
<1> SUFFICES ASSUME Init PROVE ListInv
  OBVIOUS
<1>1. /\ items = << >> /\ seen = << >> /\ walk = "none" /\ pos = Root /\ n = Root
      /\ next = [x \in Place |-> IF x = Root THEN Root ELSE Poison]
      /\ prev = [x \in Place |-> IF x = Root THEN Root ELSE Poison]
  BY DEF Init
<1>2. Len(<< >>) = 0 /\ DOMAIN << >> = {} /\ << >> \in Seq(Node)
  OBVIOUS
<1>3. Root \in Place /\ \A x \in Node : x \in Place /\ x # Root
  BY LinkedListAssumption DEF Place
<1>4. TypeOK
  BY <1>1, <1>2, <1>3 DEF TypeOK
<1>5. RingIsItems
  BY <1>1, <1>2, <1>3 DEF RingIsItems, At, IsInjective
<1>6. DeletedIsPoisoned
  BY <1>1, <1>3 DEF DeletedIsPoisoned
<1>7. WalkInv
  BY <1>1, <1>2 DEF WalkInv, IsInjective
<1>8. QED
  BY <1>4, <1>5, <1>6, <1>7 DEF ListInv

(* Inserting keeps the ring and poisons nothing, whatever the walk does.   *)
LEMMA InsertBeforeRing ==
  ASSUME ListInv, NEW x \in Node, NEW p \in Range(items) \cup {Root}, InsertBefore(x, p)
  PROVE  /\ next' \in Fields /\ prev' \in Fields /\ items' \in Seq(Node)
         /\ RingIsItems' /\ DeletedIsPoisoned'
<1> DEFINE k == Position(p)
           before == At(k - 1)
<1>1. k \in 1 .. Len(items) + 1 /\ AtOf(items, k) = p
  BY PositionFacts, AtIsAtOf
<1> HIDE DEF k
<1>2. x \notin Range(items) /\ items' = InsertAt(items, k, x)
  BY DEF InsertBefore, k
<1>3. prev[p] = before
  <2>1. k - 1 \in 0 .. Len(items) /\ (k - 1) + 1 = k
    BY <1>1, RingFacts
  <2>2. prev[AtOf(items, (k - 1) + 1)] = AtOf(items, k - 1)
    BY <2>1, RingFacts DEF Ring
  <2>3. QED
    BY <1>1, <2>1, <2>2, AtIsAtOf
<1>4. /\ next' = [next EXCEPT ![x] = p, ![before] = x]
      /\ prev' = [prev EXCEPT ![p] = x, ![x] = before]
  BY <1>3 DEF InsertBefore, ListAddTail, ListAdd
<1>5. p \in Place /\ before \in Place /\ x \in Place
  BY <1>1, RingFacts, AtIsAtOf DEF Place
<1>6. next' \in Fields /\ prev' \in Fields
  BY <1>4, <1>5, RingFacts DEF Fields
<1>7. items' \in Seq(Node) /\ IsInjective(items') /\ Range(items') = Range(items) \cup {x}
  BY <1>1, <1>2, RingFacts, InsertAtElements, InsertAtRange
<1>8. Ring(items', next', prev')
  <2>1. before = AtOf(items, k - 1)
    BY AtIsAtOf
  <2> HIDE DEF before
  <2>2. Ring(InsertAt(items, k, x), [next EXCEPT ![x] = p, ![before] = x],
             [prev EXCEPT ![p] = x, ![x] = before])
    BY <1>1, <1>2, <2>1, RingFacts, InsertKeepsRing
  <2>3. QED
    BY <1>2, <1>4, <2>2
<1>9. RingIsItems'
  BY <1>7, <1>8 DEF RingIsItems, Ring, At, AtOf
<1>10. DeletedIsPoisoned'
  <2> SUFFICES ASSUME NEW y \in Node \ Range(items')
               PROVE  next'[y] = Poison /\ prev'[y] = Poison
    BY DEF DeletedIsPoisoned
  <2>1. y # x /\ y \notin Range(items) /\ y \in Place /\ y # Root
    BY <1>7, LinkedListAssumption DEF Place
  <2>2. next[y] = Poison /\ prev[y] = Poison
    BY <2>1 DEF ListInv, DeletedIsPoisoned
  <2>3. y # p
    BY <2>1
  <2>4. y # before
    <3>1. k - 1 \in 0 .. Len(items)
      BY <1>1, RingFacts
    <3>2. before = Root \/ before \in Range(items)
      BY <3>1, RingFacts DEF At, Range
    <3>3. QED
      BY <2>1, <3>2
  <2>5. QED
    BY <1>4, <2>1, <2>2, <2>3, <2>4, RingFacts DEF Fields
<1>11. QED
  BY <1>6, <1>7, <1>9, <1>10

LEMMA DeleteRing ==
  ASSUME ListInv, NEW x \in Range(items), Delete(x)
  PROVE  /\ next' \in Fields /\ prev' \in Fields /\ items' \in Seq(Node)
         /\ RingIsItems' /\ DeletedIsPoisoned'
         /\ Range(items') = Range(items) \ {x}
         /\ \E k \in 1 .. Len(items) : items[k] = x /\ items' = RemoveAt(items, k)
<1> DEFINE k == Position(x)
           after == At(k + 1)
           before == At(k - 1)
<1>1. k \in 1 .. Len(items) /\ items[k] = x
  <2>1. x \in Node /\ x # Root
    BY RingFacts DEF Range
  <2>2. k \in 1 .. Len(items) + 1 /\ At(k) = x
    BY PositionFacts
  <2>3. QED
    BY <2>1, <2>2, RingFacts DEF At
<1> HIDE DEF k
<1>2. items' = RemoveAt(items, k)
  BY DEF Delete, k
<1>3. next[x] = after /\ prev[x] = before
  BY <1>1, RingFacts, DeleteKeepsRing, AtIsAtOf
<1>4. /\ next' = [next EXCEPT ![before] = after, ![x] = Poison]
      /\ prev' = [prev EXCEPT ![after] = before, ![x] = Poison]
  BY <1>3 DEF Delete, ListDel
<1>5. x \in Place /\ before \in Place /\ after \in Place
  <2>1. k - 1 \in 0 .. Len(items) + 1 /\ k + 1 \in 0 .. Len(items) + 1
    BY <1>1, RingFacts
  <2>2. QED
    BY <1>1, <2>1, RingFacts DEF Place
<1>6. next' \in Fields /\ prev' \in Fields
  BY <1>4, <1>5, RingFacts DEF Fields
<1>7. items' \in Seq(Node) /\ IsInjective(items') /\ Range(items') = Range(items) \ {x}
  BY <1>1, <1>2, RingFacts, RemoveAtElements, RemoveAtRange
<1>8. Ring(items', next', prev')
  BY <1>1, <1>2, <1>3, <1>4, RingFacts, DeleteKeepsRing, AtIsAtOf, ZenonT(30)
<1>9. RingIsItems'
  BY <1>7, <1>8 DEF RingIsItems, Ring, At, AtOf
<1>10. DeletedIsPoisoned'
  <2> SUFFICES ASSUME NEW y \in Node \ Range(items')
               PROVE  next'[y] = Poison /\ prev'[y] = Poison
    BY DEF DeletedIsPoisoned
  <2>1. CASE y = x
    BY <1>4, <1>5, <2>1, RingFacts DEF Fields
  <2>2. CASE y # x
    <3>1. y \notin Range(items) /\ y \in Place /\ y # Root
      BY <1>7, <2>2, LinkedListAssumption DEF Place
    <3>2. next[y] = Poison /\ prev[y] = Poison
      BY <3>1 DEF ListInv, DeletedIsPoisoned
    <3>3. y # before /\ y # after
      <4>1. k - 1 \in 0 .. Len(items) /\ k + 1 \in 1 .. Len(items) + 1
        BY <1>1, RingFacts
      <4>2. /\ before = Root \/ before \in Range(items)
            /\ after = Root \/ after \in Range(items)
        BY <4>1, RingFacts DEF At, Range
      <4>3. QED
        BY <3>1, <4>2
    <3>4. QED
      BY <1>4, <2>2, <3>1, <3>2, <3>3, RingFacts DEF Fields
  <2>3. QED
    BY <2>1, <2>2
<1>11. QED
  BY <1>1, <1>2, <1>6, <1>7, <1>9, <1>10

-----------------------------------------------------------------------------
(* Range of the entries visited, after one more.                           *)
LEMMA SeenMore ==
  ASSUME ListInv, NEW p \in Node, p \notin Range(seen), seen' = Append(seen, p)
  PROVE  seen' \in Seq(Node) /\ IsInjective(seen') /\ Range(seen') = Range(seen) \cup {p}
BY AppendRange DEF ListInv, TypeOK, WalkInv

(* A step outside a walk, or one that ends it, need not care where it was. *)
LEMMA NoWalk ==
  ASSUME ListInv, UNCHANGED seen, walk' = "none"
  PROVE  WalkInv'
BY DEF ListInv, WalkInv, IsInjective

LEMMA InsertStep ==
  ASSUME ListInv, NEW x \in Node, AddLast(x) \/ InsertHere(x)
  PROVE  ListInv'
<1>1. \E p \in Range(items) \cup {Root} : InsertBefore(x, p)
  <2>1. CASE AddLast(x)
    BY <2>1 DEF AddLast
  <2>2. CASE InsertHere(x)
    <3>1. pos \in Range(items)
      <4>1. walk = "each" /\ pos # Root
        BY <2>2 DEF InsertHere
      <4>2. PICK i \in 1 .. Len(items) + 1 : StandsAt(i)
        BY <4>1 DEF ListInv, WalkInv
      <4>3. pos = At(i)
        BY <4>1, <4>2 DEF StandsAt
      <4>4. QED
        BY <4>1, <4>3, RingFacts DEF At, Range
    <3>2. QED
      BY <2>2, <3>1 DEF InsertHere
  <2>3. QED
    BY <2>1, <2>2
<1>2. /\ next' \in Fields /\ prev' \in Fields /\ items' \in Seq(Node)
      /\ RingIsItems' /\ DeletedIsPoisoned'
  BY <1>1, InsertBeforeRing
<1>3. walk' = "none" /\ UNCHANGED <<pos, n, seen>>
  BY DEF AddLast, InsertHere
<1>4. TypeOK'
  BY <1>2, <1>3 DEF ListInv, TypeOK, Fields
<1>5. QED
  BY <1>2, <1>3, <1>4, NoWalk DEF ListInv

LEMMA DeleteFoundStep ==
  ASSUME ListInv, NEW x \in Node, DeleteFound(x)
  PROVE  ListInv'
<1>1. x \in Range(items) /\ Delete(x) /\ walk' = "none" /\ UNCHANGED <<pos, n, seen>>
  BY DEF DeleteFound
<1>2. /\ next' \in Fields /\ prev' \in Fields /\ items' \in Seq(Node)
      /\ RingIsItems' /\ DeletedIsPoisoned'
  BY <1>1, DeleteRing
<1>3. TypeOK'
  BY <1>1, <1>2 DEF ListInv, TypeOK, Fields
<1>4. QED
  BY <1>1, <1>2, <1>3, NoWalk DEF ListInv

LEMMA StartStep ==
  ASSUME ListInv, NEW kind \in {"each", "safe"}, Start(kind)
  PROVE  ListInv'
<1>1. /\ walk' = kind /\ pos' = next[Root] /\ seen' = << >>
      /\ n' = IF kind = "safe" THEN next[next[Root]] ELSE n
      /\ UNCHANGED <<next, prev, items>>
  BY DEF Start, fields
<1>2. next[Root] = At(1)
  <2>1. next[AtOf(items, 0)] = AtOf(items, 0 + 1)
    BY RingFacts DEF Ring
  <2>2. QED
    BY <2>1, RingFacts, AtIsAtOf
<1>3. 1 <= Len(items) => next[At(1)] = At(2)
  <2>1. 1 <= Len(items) => next[AtOf(items, 1)] = AtOf(items, 1 + 1)
    BY RingFacts DEF Ring
  <2>2. QED
    BY <2>1, AtIsAtOf
<1>4. At(1) \in Place
  BY RingFacts
<1>5. TypeOK'
  <2>1. n' \in Place \cup {Poison}
    BY <1>1, <1>2, <1>4 DEF ListInv, TypeOK
  <2>2. seen' \in Seq(Node)
    BY <1>1
  <2>3. QED
    BY <1>1, <1>2, <1>4, <2>1, <2>2 DEF ListInv, TypeOK
<1>6. WalkInv'
  <2>1. \A y : y \notin Range(seen')
    BY <1>1 DEF Range
  <2>2. IsInjective(seen')
    BY <1>1 DEF IsInjective
  <2>3. StandsAt(1)'
    <3>1. \A j \in 1 .. 1 - 1 : items'[j] \in Range(seen')
      OBVIOUS
    <3>2. pos' = At(1)' /\ (walk' = "safe" /\ 1 <= Len(items') => n' = At(1 + 1)')
      BY <1>1, <1>2, <1>3 DEF At
    <3>3. QED
      BY <2>1, <3>1, <3>2 DEF StandsAt
  <2>4. 1 \in 1 .. Len(items') + 1
    BY <1>1, RingFacts
  <2>5. QED
    BY <2>2, <2>3, <2>4 DEF WalkInv
<1>7. RingIsItems' /\ DeletedIsPoisoned'
  BY <1>1 DEF ListInv, RingIsItems, DeletedIsPoisoned, At
<1>8. QED
  BY <1>5, <1>6, <1>7 DEF ListInv

LEMMA DeleteHereStep ==
  ASSUME ListInv, DeleteHere
  PROVE  ListInv'
<1>1. /\ walk = "safe" /\ pos # Root /\ pos \in Range(items) /\ Delete(pos)
      /\ UNCHANGED <<walk, pos, n, seen>>
  BY DEF DeleteHere
<1>2. /\ next' \in Fields /\ prev' \in Fields /\ items' \in Seq(Node)
      /\ RingIsItems' /\ DeletedIsPoisoned' /\ Range(items') = Range(items) \ {pos}
  BY <1>1, DeleteRing
<1>3. PICK k \in 1 .. Len(items) : items[k] = pos /\ items' = RemoveAt(items, k)
  BY <1>1, DeleteRing
<1>4. PICK i \in 1 .. Len(items) + 1 : StandsAt(i)
  BY <1>1 DEF ListInv, WalkInv
<1>5. k = i
  <2>1. pos = At(i)
    BY <1>1, <1>4 DEF StandsAt
  <2>2. pos = At(k)
    BY <1>3, RingFacts
  <2>3. k \in 1 .. Len(items) + 1 /\ At(k) = At(i)
    BY <2>1, <2>2, RingFacts
  <2>4. QED
    BY <2>3, RingFacts
<1>6. /\ Len(items') = Len(items) - 1
      /\ \A j \in 1 .. Len(items) - 1 : items'[j] = IF j < i THEN items[j] ELSE items[j + 1]
  BY <1>3, <1>5, RingFacts, RemoveAtElements
<1>7. n' = At(i)'
  <2>1. n = At(i + 1)
    <3>1. pos = At(i) /\ i <= Len(items)
      BY <1>3, <1>5, RingFacts
    <3>2. QED
      BY <1>1, <1>4, <3>1 DEF StandsAt
  <2>2. At(i)' = At(i + 1)
    BY <1>3, <1>5, <1>6, RingFacts DEF At
  <2>3. QED
    BY <1>1, <2>1, <2>2
<1>8. pos' \in Node \ Range(items') /\ pos' \notin Range(seen')
  <2>1. pos \notin Range(seen)
    BY <1>3, <1>4, <1>5, RingFacts DEF StandsAt
  <2>2. pos \in Node
    BY <1>3, RingFacts
  <2>3. QED
    BY <1>1, <1>2, <2>1, <2>2
<1>9. StandsAt(i)'
  <2>1. \A j \in 1 .. i - 1 : items'[j] \in Range(seen')
    <3>1. \A j \in 1 .. i - 1 : items[j] \in Range(seen) /\ items'[j] = items[j]
      BY <1>3, <1>4, <1>5, <1>6, RingFacts DEF StandsAt
    <3>2. QED
      BY <1>1, <3>1
  <2>2. \A j \in i .. Len(items') : items'[j] \notin Range(seen')
    <3>1. \A j \in i .. Len(items) - 1 :
            items[j + 1] \notin Range(seen) /\ items'[j] = items[j + 1]
      BY <1>3, <1>4, <1>5, <1>6, RingFacts DEF StandsAt
    <3>2. QED
      BY <1>1, <1>6, <3>1
  <2>3. walk' = "safe"
    BY <1>1
  <2>4. QED
    BY <1>7, <1>8, <2>1, <2>2, <2>3 DEF StandsAt
<1>10. i \in 1 .. Len(items') + 1
  BY <1>3, <1>5, <1>6, RingFacts
<1>11. WalkInv'
  <2>1. IsInjective(seen')
    BY <1>1 DEF ListInv, WalkInv
  <2>2. QED
    BY <1>9, <1>10, <2>1 DEF WalkInv
<1>12. TypeOK'
  BY <1>1, <1>2 DEF ListInv, TypeOK, Fields
<1>13. QED
  BY <1>2, <1>11, <1>12 DEF ListInv

(* Where a walk goes next.                                                 *)
LEMMA SuccessorFacts ==
  ASSUME ListInv, walk # "none", pos # Root
  PROVE  \E i \in 1 .. Len(items) + 1 :
           /\ Successor = At(i)
           /\ pos \in Node /\ pos \notin Range(seen)
           /\ \A j \in 1 .. i - 1 : items[j] \in Range(seen) \cup {pos}
           /\ \A j \in i .. Len(items) : items[j] \notin Range(seen) \cup {pos}
<1>1. PICK i \in 1 .. Len(items) + 1 : StandsAt(i)
  BY DEF ListInv, WalkInv
<1>2. CASE pos = At(i)
  <2>1. i \in 1 .. Len(items) /\ pos = items[i] /\ pos \in Node
    BY <1>2, RingFacts DEF At
  <2>2. next[pos] = At(i + 1)
    <3>1. next[AtOf(items, i)] = AtOf(items, i + 1)
      BY <2>1, RingFacts DEF Ring
    <3>2. QED
      BY <1>2, <3>1, AtIsAtOf
  <2>3. Successor = At(i + 1)
    <3>1. CASE walk = "safe" /\ n = At(i + 1)
      BY <3>1 DEF Successor
    <3>2. CASE walk # "safe"
      BY <2>2, <3>2 DEF Successor
    <3>3. pos \in Range(items)
      BY <2>1, RingFacts DEF Range
    <3>4. QED
      BY <1>1, <1>2, <2>1, <3>1, <3>2, <3>3, RingFacts DEF StandsAt
  <2>4. pos \notin Range(seen)
    BY <1>1, <2>1, RingFacts DEF StandsAt
  <2>5. \A j \in 1 .. (i + 1) - 1 : items[j] \in Range(seen) \cup {pos}
    BY <1>1, <2>1, RingFacts DEF StandsAt
  <2>6. \A j \in i + 1 .. Len(items) : items[j] \notin Range(seen) \cup {pos}
    <3>1. \A j \in i + 1 .. Len(items) : items[j] \notin Range(seen)
      BY <1>1, <2>1, RingFacts DEF StandsAt
    <3>2. \A j \in i + 1 .. Len(items) : items[j] # pos
      BY <2>1, RingFacts DEF IsInjective
    <3>3. QED
      BY <3>1, <3>2
  <2>7. i + 1 \in 1 .. Len(items) + 1
    BY <2>1, RingFacts
  <2>8. QED
    BY <2>1, <2>3, <2>4, <2>5, <2>6, <2>7
<1>3. CASE pos # At(i)
  <2>1. /\ walk = "safe" /\ n = At(i)
        /\ pos \in Node \ Range(items) /\ pos \notin Range(seen)
    BY <1>1, <1>3 DEF StandsAt
  <2>2. \A j \in i .. Len(items) : items[j] # pos
    BY <2>1, RingFacts DEF Range
  <2>3. QED
    BY <1>1, <2>1, <2>2 DEF StandsAt, Successor
<1>4. QED
  BY <1>2, <1>3

LEMMA AdvanceStep ==
  ASSUME ListInv, Advance
  PROVE  ListInv'
<1>1. /\ walk # "none" /\ pos # Root
      /\ pos' = Successor /\ seen' = Append(seen, pos)
      /\ n' = IF walk = "safe" /\ Successor \in Place THEN next[Successor] ELSE n
      /\ UNCHANGED <<next, prev, items, walk>>
  BY DEF Advance, fields
<1>2. PICK i \in 1 .. Len(items) + 1 :
           /\ Successor = At(i)
           /\ pos \in Node /\ pos \notin Range(seen)
           /\ \A j \in 1 .. i - 1 : items[j] \in Range(seen) \cup {pos}
           /\ \A j \in i .. Len(items) : items[j] \notin Range(seen) \cup {pos}
  BY <1>1, SuccessorFacts
<1>3. seen' \in Seq(Node) /\ IsInjective(seen') /\ Range(seen') = Range(seen) \cup {pos}
  BY <1>1, <1>2, SeenMore
<1>4. Successor \in Place
  BY <1>2, RingFacts
<1>5. i <= Len(items) => next[At(i)] = At(i + 1)
  <2>1. i <= Len(items) => next[AtOf(items, i)] = AtOf(items, i + 1)
    BY RingFacts DEF Ring
  <2>2. QED
    BY <2>1, AtIsAtOf
<1>6. StandsAt(i)'
  <2>1. /\ \A j \in 1 .. i - 1 : items'[j] \in Range(seen')
        /\ \A j \in i .. Len(items') : items'[j] \notin Range(seen')
    BY <1>1, <1>2, <1>3
  <2>2. pos' = At(i)' /\ (walk' = "safe" /\ i <= Len(items') => n' = At(i + 1)')
    BY <1>1, <1>2, <1>4, <1>5 DEF At
  <2>3. QED
    BY <2>1, <2>2 DEF StandsAt
<1>7. WalkInv'
  BY <1>1, <1>3, <1>6 DEF WalkInv
<1>8. TypeOK'
  <2>1. n' \in Place \cup {Poison}
    BY <1>1, <1>4 DEF ListInv, TypeOK
  <2>2. QED
    BY <1>1, <1>3, <1>4, <2>1 DEF ListInv, TypeOK
<1>9. RingIsItems' /\ DeletedIsPoisoned'
  BY <1>1 DEF ListInv, RingIsItems, DeletedIsPoisoned, At
<1>10. QED
  BY <1>7, <1>8, <1>9 DEF ListInv

LEMMA UnchangedStep ==
  ASSUME ListInv, Leave \/ UNCHANGED vars
  PROVE  ListInv'
<1>1. UNCHANGED <<next, prev, pos, n, items, seen>> /\ (walk' = "none" \/ walk' = walk)
  BY DEF Leave, vars, fields
<1>2. TypeOK' /\ RingIsItems' /\ DeletedIsPoisoned'
  BY <1>1 DEF ListInv, TypeOK, RingIsItems, DeletedIsPoisoned, At
<1>3. WalkInv'
  BY <1>1 DEF ListInv, WalkInv, StandsAt, At
<1>4. QED
  BY <1>2, <1>3 DEF ListInv

THEOREM ListInvariant == Spec => []ListInv
<1>1. Init => ListInv
  BY ListInit
<1>2. ListInv /\ [Next]_vars => ListInv'
  <2> SUFFICES ASSUME ListInv, [Next]_vars PROVE ListInv'
    OBVIOUS
  <2>1. ASSUME NEW x \in Node, AddLast(x) \/ InsertHere(x) PROVE ListInv'
    BY <2>1, InsertStep
  <2>2. ASSUME NEW x \in Node, DeleteFound(x) PROVE ListInv'
    BY <2>2, DeleteFoundStep
  <2>3. ASSUME NEW kind \in {"each", "safe"}, Start(kind) PROVE ListInv'
    BY <2>3, StartStep
  <2>4. CASE DeleteHere
    BY <2>4, DeleteHereStep
  <2>5. CASE Advance
    BY <2>5, AdvanceStep
  <2>6. CASE Leave \/ UNCHANGED vars
    BY <2>6, UnchangedStep
  <2>7. QED
    BY <2>1, <2>2, <2>3, <2>4, <2>5, <2>6 DEF Next
<1>3. QED
  BY <1>1, <1>2, PTL DEF Spec

(* The pointers of the list always represent the sequence of entries that  *)
(* were inserted and not deleted: what Reminders takes a list to be.       *)
THEOREM RingRepresentsSequence == Spec => []RingIsItems
<1>1. ListInv => RingIsItems
  BY DEF ListInv
<1>2. QED
  BY <1>1, ListInvariant, PTL

(* A list_for_each_safe walk whose body deletes entries, and a             *)
(* list_for_each walk, never step off the ring.                            *)
THEOREM WalkNeverStrays == Spec => []WalkStaysOnRing
<1>1. ListInv => WalkStaysOnRing
  <2> SUFFICES ASSUME ListInv, walk # "none", pos # Root
               PROVE  Successor \in Range(items) \cup {Root}
    BY DEF WalkStaysOnRing
  <2>1. PICK i \in 1 .. Len(items) + 1 : Successor = At(i)
    BY SuccessorFacts
  <2>2. QED
    BY <2>1, RingFacts DEF At, Range
<1>2. QED
  BY <1>1, ListInvariant, PTL

(* A walk that comes back to the head has visited every entry left in the  *)
(* list, each once.                                                        *)
THEOREM WalkMissesNothing == Spec => []WalkIsComplete
<1>1. ListInv => WalkIsComplete
  <2> SUFFICES ASSUME ListInv PROVE WalkIsComplete
    OBVIOUS
  <2>1. IsInjective(seen)
    BY DEF ListInv, WalkInv
  <2>2. ASSUME walk # "none", pos = Root PROVE Range(items) \subseteq Range(seen)
    <3>1. PICK i \in 1 .. Len(items) + 1 : StandsAt(i)
      BY <2>2 DEF ListInv, WalkInv
    <3>2. pos = At(i)
      BY <2>2, <3>1, LinkedListAssumption DEF StandsAt
    <3>3. i = Len(items) + 1
      BY <2>2, <3>2, RingFacts
    <3>4. \A j \in 1 .. Len(items) : items[j] \in Range(seen)
      BY <3>1, <3>3, RingFacts DEF StandsAt
    <3>5. QED
      BY <3>4, RingFacts DEF Range
  <2>3. QED
    BY <2>1, <2>2 DEF WalkIsComplete
<1>2. QED
  BY <1>1, ListInvariant, PTL
=============================================================================
