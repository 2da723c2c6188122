----------------------------- MODULE RingLemmas -----------------------------
(***************************************************************************)
(* Rings of list_heads, and what the operations of linked_list.h do to     *)
(* them, whatever the lists are embedded in.                               *)
(*                                                                         *)
(* A ring is cut into segments, sequences of list_heads in which each is   *)
(* linked to the next.  An operation relinks the ends of some segments and *)
(* touches nothing inside them.                                            *)
(***************************************************************************)
EXTENDS Lists, Integers, SeqLemmas

FirstOf(s) == s[1]
LastOf(s) == s[Len(s)]
NextOf(m, x) == m.next[x]
PrevOf(m, x) == m.prev[x]
Link(m, x, y) == NextOf(m, x) = y /\ PrevOf(m, y) = x
Segment(m, s) == \A i \in 1 .. Len(s) - 1 : Link(m, s[i], s[i + 1])
Ring(m, c) ==
  /\ c \in Seq(ListHead) /\ c # << >> /\ IsInjective(c)
  /\ Segment(m, c) /\ Link(m, LastOf(c), FirstOf(c))

(* Concatenation, by what the rest of the proof needs to know of it.       *)
LEMMA CatIs ==
  ASSUME NEW S, NEW s \in Seq(S), NEW t \in Seq(S)
  PROVE  /\ s \o t \in Seq(S)
         /\ Len(s \o t) = Len(s) + Len(t)
         /\ Range(s \o t) = Range(s) \cup Range(t)
         /\ IsInjective(s \o t) <=>
              IsInjective(s) /\ IsInjective(t) /\ Range(s) \cap Range(t) = {}
<1> DEFINE u == s \o t
           n == Len(s)
           k == Len(t)
<1>1. /\ u \in Seq(S) /\ Len(u) = n + k
      /\ \A i \in 1 .. n + k : u[i] = IF i <= n THEN s[i] ELSE t[i - n]
  BY ConcatProperties
<1>2. n \in Nat /\ k \in Nat /\ DOMAIN u = 1 .. n + k /\ DOMAIN s = 1 .. n /\ DOMAIN t = 1 .. k
  BY <1>1, LenProperties
<1> HIDE DEF u, n, k
<1>3. \A i \in 1 .. n : i \in 1 .. n + k /\ u[i] = s[i]
  BY <1>1, <1>2
<1>4. \A i \in 1 .. k : n + i \in 1 .. n + k /\ u[n + i] = t[i]
  <2> TAKE i \in 1 .. k
  <2>1. n + i \in 1 .. n + k /\ ~(n + i <= n) /\ (n + i) - n = i
    BY <1>2
  <2>2. QED
    BY <1>1, <2>1
<1>5. \A i \in 1 .. n + k : i \in 1 .. n \/ \E j \in 1 .. k : i = n + j
  <2> TAKE i \in 1 .. n + k
  <2>1. CASE i <= n
    BY <1>2, <2>1
  <2>2. CASE i > n
    <3>1. i - n \in 1 .. k /\ i = n + (i - n)
      BY <1>2, <2>2
    <3>2. QED
      BY <3>1
  <2>3. QED
    BY <1>2, <2>1, <2>2
<1>6. Range(u) = Range(s) \cup Range(t)
  <2>1. \A i \in 1 .. n + k : u[i] \in Range(s) \cup Range(t)
    BY <1>2, <1>3, <1>4, <1>5 DEF Range
  <2>2. (\A i \in 1 .. n : s[i] \in Range(u)) /\ (\A i \in 1 .. k : t[i] \in Range(u))
    BY <1>2, <1>3, <1>4 DEF Range
  <2>3. QED
    BY <1>2, <2>1, <2>2 DEF Range
<1>7. ASSUME IsInjective(u)
      PROVE  IsInjective(s) /\ IsInjective(t) /\ Range(s) \cap Range(t) = {}
  <2>1. \A i, j \in 1 .. n + k : u[i] = u[j] => i = j
    BY <1>2, <1>7 DEF IsInjective
  <2>2. IsInjective(s)
    BY <1>2, <1>3, <2>1 DEF IsInjective
  <2>3. ASSUME NEW i \in 1 .. k, NEW j \in 1 .. k, t[i] = t[j] PROVE i = j
    <3>1. n + i = n + j
      BY <1>4, <2>1, <2>3
    <3>2. QED
      BY <1>2, <3>1
  <2>4. ASSUME NEW i \in 1 .. n, NEW j \in 1 .. k PROVE s[i] # t[j]
    <3>1. s[i] = t[j] => i = n + j
      BY <1>3, <1>4, <2>1
    <3>2. i # n + j
      BY <1>2
    <3>3. QED
      BY <3>1, <3>2
  <2>5. QED
    BY <1>2, <2>2, <2>3, <2>4 DEF IsInjective, Range
<1>8. ASSUME IsInjective(s), IsInjective(t), Range(s) \cap Range(t) = {}
      PROVE  IsInjective(u)
  <2>1. \A i \in 1 .. n, j \in 1 .. k : s[i] # t[j]
    BY <1>2, <1>8 DEF Range
  <2>2. ASSUME NEW i \in 1 .. n + k, NEW j \in 1 .. n + k, u[i] = u[j]
        PROVE  i = j
    <3>1. CASE i \in 1 .. n /\ j \in 1 .. n
      BY <1>2, <1>3, <1>8, <2>2, <3>1 DEF IsInjective
    <3>2. CASE i \in 1 .. n /\ j \notin 1 .. n
      BY <1>3, <1>4, <1>5, <2>1, <2>2, <3>2
    <3>3. CASE i \notin 1 .. n /\ j \in 1 .. n
      BY <1>3, <1>4, <1>5, <2>1, <2>2, <3>3
    <3>4. CASE i \notin 1 .. n /\ j \notin 1 .. n
      <4>1. PICK a \in 1 .. k, b \in 1 .. k : i = n + a /\ j = n + b
        BY <1>5, <3>4
      <4>2. t[a] = t[b]
        BY <1>4, <2>2, <4>1
      <4>3. QED
        BY <1>2, <1>8, <4>1, <4>2 DEF IsInjective
    <3>5. QED
      BY <3>1, <3>2, <3>3, <3>4
  <2>3. QED
    BY <1>2, <2>2 DEF IsInjective
<1>9. QED
  BY <1>1, <1>6, <1>7, <1>8 DEF u, n, k

LEMMA EndsOfCat ==
  ASSUME NEW S, NEW s \in Seq(S), NEW t \in Seq(S)
  PROVE  /\ s # << >> => FirstOf(s \o t) = FirstOf(s) /\ s \o t # << >> /\ FirstOf(s) \in Range(s)
         /\ t # << >> => LastOf(s \o t) = LastOf(t) /\ s \o t # << >> /\ LastOf(t) \in Range(t)
<1>1. /\ s \o t \in Seq(S) /\ Len(s \o t) = Len(s) + Len(t)
      /\ \A i \in 1 .. Len(s) + Len(t) : (s \o t)[i] = IF i <= Len(s) THEN s[i] ELSE t[i - Len(s)]
  BY ConcatProperties
<1>2. /\ Len(s) \in Nat /\ Len(t) \in Nat /\ Len(<< >>) = 0
      /\ s # << >> => Len(s) >= 1
      /\ t # << >> => Len(t) >= 1
      /\ DOMAIN s = 1 .. Len(s) /\ DOMAIN t = 1 .. Len(t)
  BY LenProperties, EmptySeq
<1>3. ASSUME s # << >> PROVE FirstOf(s \o t) = FirstOf(s) /\ s \o t # << >> /\ FirstOf(s) \in Range(s)
  <2>1. 1 \in 1 .. Len(s) + Len(t) /\ 1 <= Len(s) /\ 1 \in DOMAIN s /\ Len(s) + Len(t) # 0
    BY <1>2, <1>3
  <2>2. QED
    BY <1>1, <1>2, <2>1 DEF FirstOf, Range
<1>4. ASSUME t # << >> PROVE LastOf(s \o t) = LastOf(t) /\ s \o t # << >> /\ LastOf(t) \in Range(t)
  <2> DEFINE n == Len(s) + Len(t)
  <2>1. n \in 1 .. n /\ ~(n <= Len(s)) /\ n - Len(s) = Len(t) /\ Len(t) \in DOMAIN t /\ n # 0
    BY <1>2, <1>4
  <2>2. (s \o t)[n] = t[n - Len(s)]
    BY <1>1, <2>1
  <2>3. QED
    BY <1>1, <1>2, <2>1, <2>2 DEF LastOf, Range
<1>5. QED
  BY <1>3, <1>4

LEMMA OneIs ==
  ASSUME NEW S, NEW x \in S
  PROVE  /\ <<x>> \in Seq(S) /\ <<x>> # << >> /\ Len(<<x>>) = 1
         /\ FirstOf(<<x>>) = x /\ LastOf(<<x>>) = x
         /\ Range(<<x>>) = {x} /\ IsInjective(<<x>>)
         /\ \A m : Segment(m, <<x>>)
<1>1. <<x>> \in Seq(S) /\ Len(<<x>>) = 1 /\ <<x>>[1] = x /\ DOMAIN <<x>> = 1 .. 1 /\ <<x>> # << >>
  OBVIOUS
<1>2. 1 .. 1 = {1} /\ 1 .. 1 - 1 = {}
  OBVIOUS
<1> DEFINE s == <<x>>
<1>3. s \in Seq(S) /\ Len(s) = 1 /\ s[1] = x /\ DOMAIN s = {1} /\ s # << >>
  BY <1>1, <1>2
<1> HIDE DEF s
<1>4. /\ s \in Seq(S) /\ s # << >> /\ Len(s) = 1
      /\ FirstOf(s) = x /\ LastOf(s) = x
      /\ Range(s) = {x} /\ IsInjective(s)
  BY <1>3 DEF FirstOf, LastOf, Range, IsInjective
<1>5. \A m : Segment(m, s)
  BY <1>2, <1>3 DEF Segment
<1>6. QED
  BY <1>4, <1>5 DEF s

(* Two segments make one if the last of the first is linked to the first   *)
(* of the second.                                                          *)
LEMMA SegmentsMeet ==
  ASSUME NEW S, NEW s \in Seq(S), NEW t \in Seq(S), s # << >>, t # << >>, NEW m
  PROVE  Segment(m, s \o t) <=> Segment(m, s) /\ Segment(m, t) /\ Link(m, LastOf(s), FirstOf(t))
<1> DEFINE u == s \o t
           n == Len(s)
           k == Len(t)
<1>1. /\ u \in Seq(S) /\ Len(u) = n + k
      /\ \A i \in 1 .. n + k : u[i] = IF i <= n THEN s[i] ELSE t[i - n]
  BY ConcatProperties
<1>2. n \in Nat \ {0} /\ k \in Nat \ {0}
  BY EmptySeq
<1> HIDE DEF u, n, k
<1>3. \A i \in 1 .. n - 1 : u[i] = s[i] /\ u[i + 1] = s[i + 1] /\ i \in 1 .. n + k - 1
  BY <1>1, <1>2
<1>4. u[n] = s[n] /\ u[n + 1] = t[1] /\ n \in 1 .. n + k - 1
  <2>1. n \in 1 .. n + k /\ n + 1 \in 1 .. n + k /\ ~(n + 1 <= n) /\ (n + 1) - n = 1
    BY <1>2
  <2>2. QED
    BY <1>1, <1>2, <2>1
<1>5. \A i \in 1 .. k - 1 :
        u[n + i] = t[i] /\ u[(n + i) + 1] = t[i + 1] /\ n + i \in 1 .. n + k - 1
  <2> TAKE i \in 1 .. k - 1
  <2>1. /\ n + i \in 1 .. n + k /\ ~(n + i <= n) /\ (n + i) - n = i
        /\ (n + i) + 1 \in 1 .. n + k /\ ~((n + i) + 1 <= n) /\ ((n + i) + 1) - n = i + 1
        /\ n + i \in 1 .. n + k - 1
    BY <1>2
  <2>2. QED
    BY <1>1, <2>1
<1>6. \A i \in 1 .. n + k - 1 : i \in 1 .. n - 1 \/ i = n \/ \E j \in 1 .. k - 1 : i = n + j
  <2> TAKE i \in 1 .. n + k - 1
  <2>1. CASE i > n
    <3>1. i - n \in 1 .. k - 1 /\ i = n + (i - n)
      BY <1>2, <2>1
    <3>2. QED
      BY <3>1
  <2>2. QED
    BY <1>2, <2>1
<1>7. Len(u) - 1 = n + k - 1
  BY <1>1, <1>2
<1>8. Segment(m, u) <=> \A i \in 1 .. n + k - 1 : Link(m, u[i], u[i + 1])
  BY <1>7, Zenon DEF Segment
<1>9. Segment(m, s) <=> \A i \in 1 .. n - 1 : Link(m, s[i], s[i + 1])
  BY Zenon DEF Segment, n
<1>10. Segment(m, t) <=> \A i \in 1 .. k - 1 : Link(m, t[i], t[i + 1])
  BY Zenon DEF Segment, k
<1>11. LastOf(s) = s[n] /\ FirstOf(t) = t[1]
  BY DEF LastOf, FirstOf, n
<1>12. ASSUME Segment(m, u)
       PROVE  Segment(m, s) /\ Segment(m, t) /\ Link(m, LastOf(s), FirstOf(t))
  <2>1. \A i \in 1 .. n - 1 : Link(m, s[i], s[i + 1])
    <3> TAKE i \in 1 .. n - 1
    <3>1. Link(m, u[i], u[i + 1])
      BY <1>3, <1>8, <1>12
    <3>2. QED
      BY <1>3, <3>1
  <2>2. \A i \in 1 .. k - 1 : Link(m, t[i], t[i + 1])
    <3> TAKE i \in 1 .. k - 1
    <3>1. Link(m, u[n + i], u[(n + i) + 1])
      BY <1>5, <1>8, <1>12
    <3>2. QED
      BY <1>5, <3>1
  <2>3. Link(m, u[n], u[n + 1])
    BY <1>4, <1>8, <1>12
  <2>4. QED
    BY <1>4, <1>9, <1>10, <1>11, <2>1, <2>2, <2>3
<1>13. ASSUME Segment(m, s), Segment(m, t), Link(m, LastOf(s), FirstOf(t))
       PROVE  Segment(m, u)
  <2> SUFFICES ASSUME NEW i \in 1 .. n + k - 1 PROVE Link(m, u[i], u[i + 1])
    BY <1>8
  <2>1. CASE i \in 1 .. n - 1
    <3>1. Link(m, s[i], s[i + 1])
      BY <1>9, <1>13, <2>1
    <3>2. QED
      BY <1>3, <2>1, <3>1
  <2>2. CASE i = n
    BY <1>4, <1>11, <1>13, <2>2
  <2>3. CASE \E j \in 1 .. k - 1 : i = n + j
    <3>1. PICK j \in 1 .. k - 1 : i = n + j
      BY <2>3
    <3>2. Link(m, t[j], t[j + 1])
      BY <1>10, <1>13
    <3>3. QED
      BY <1>5, <3>1, <3>2
  <2>4. QED
    BY <1>6, <2>1, <2>2, <2>3
<1>14. QED
  BY <1>12, <1>13 DEF u

(* A segment is kept if only the next of its last and the prev of its      *)
(* first are written.                                                      *)
Changed(m, m2, N, P) ==
  \A x \in ListHead : (x \notin N => NextOf(m2, x) = NextOf(m, x)) /\ (x \notin P => PrevOf(m2, x) = PrevOf(m, x))

LEMMA SegmentIsKept ==
  ASSUME NEW m, NEW m2, NEW N, NEW P, Changed(m, m2, N, P),
         NEW s \in Seq(ListHead), s # << >>, IsInjective(s), Segment(m, s),
         \A x \in N : x \notin Range(s) \/ x = LastOf(s),
         \A x \in P : x \notin Range(s) \/ x = FirstOf(s)
  PROVE  Segment(m2, s)
<1> DEFINE n == Len(s)
<1>1. n \in Nat \ {0} /\ DOMAIN s = 1 .. n /\ \A i \in 1 .. n : s[i] \in ListHead /\ s[i] \in Range(s)
  BY EmptySeq, LenProperties, ElementOfSeq DEF Range
<1>2. \A i, j \in 1 .. n : s[i] = s[j] => i = j
  BY <1>1 DEF IsInjective
<1>3. SUFFICES ASSUME NEW i \in 1 .. n - 1 PROVE Link(m2, s[i], s[i + 1])
  BY DEF Segment
<1>4. Link(m, s[i], s[i + 1])
  BY DEF Segment
<1> HIDE DEF n
<1>5. i \in 1 .. n /\ i + 1 \in 1 .. n /\ n \in 1 .. n /\ 1 \in 1 .. n /\ i # n /\ i + 1 # 1
  BY <1>1
<1>6. s[i] # LastOf(s) /\ s[i + 1] # FirstOf(s)
  <2>1. LastOf(s) = s[n] /\ FirstOf(s) = s[1]
    BY DEF LastOf, FirstOf, n
  <2>2. QED
    BY <1>2, <1>5, <2>1
<1>7. s[i] \notin N /\ s[i + 1] \notin P
  BY <1>1, <1>5, <1>6
<1>8. QED
  BY <1>1, <1>4, <1>5, <1>7 DEF Changed, Link

(* A ring of two segments, and the same ring from another place.           *)
LEMMA RingOfTwo ==
  ASSUME NEW m, NEW s \in Seq(ListHead), NEW t \in Seq(ListHead), s # << >>, t # << >>
  PROVE  Ring(m, s \o t) <=>
           /\ Segment(m, s) /\ Segment(m, t)
           /\ Link(m, LastOf(s), FirstOf(t)) /\ Link(m, LastOf(t), FirstOf(s))
           /\ IsInjective(s) /\ IsInjective(t) /\ Range(s) \cap Range(t) = {}
<1>1. /\ s \o t \in Seq(ListHead)
      /\ IsInjective(s \o t) <=>
           IsInjective(s) /\ IsInjective(t) /\ Range(s) \cap Range(t) = {}
  BY CatIs
<1>2. s \o t # << >> /\ FirstOf(s \o t) = FirstOf(s) /\ LastOf(s \o t) = LastOf(t)
  BY EndsOfCat
<1>3. Segment(m, s \o t) <=> Segment(m, s) /\ Segment(m, t) /\ Link(m, LastOf(s), FirstOf(t))
  BY SegmentsMeet
<1>4. QED
  BY <1>1, <1>2, <1>3, Zenon DEF Ring

LEMMA RingTurned ==
  ASSUME NEW m, NEW s \in Seq(ListHead), NEW t \in Seq(ListHead), Ring(m, s \o t)
  PROVE  Ring(m, t \o s)
<1>1. CASE s = << >> \/ t = << >>
  <2>1. s \o t = t \o s
    BY <1>1, ConcatEmptySeq
  <2>2. QED
    BY <2>1
<1>2. CASE s # << >> /\ t # << >>
  <2>1. Range(s) \cap Range(t) = Range(t) \cap Range(s)
    OBVIOUS
  <2>2. QED
    BY <1>2, <2>1, RingOfTwo, Zenon
<1>3. QED
  BY <1>1, <1>2

(* The memory, as functions on list_heads.                                 *)
Target == ListHead \cup {Nowhere}
Memories == [next : [ListHead -> Target], prev : [ListHead -> Target]]

LEMMA NextIsSet ==
  ASSUME NEW m \in Memories, NEW x \in ListHead, NEW y \in Target
  PROVE  /\ SetNext(m, x, y) \in Memories
         /\ NextOf(SetNext(m, x, y), x) = y
         /\ \A z \in ListHead \ {x} : NextOf(SetNext(m, x, y), z) = NextOf(m, z)
         /\ \A z \in ListHead : PrevOf(SetNext(m, x, y), z) = PrevOf(m, z)
<1> DEFINE m2 == [next |-> [m.next EXCEPT ![x] = y], prev |-> m.prev]
<1>1. SetNext(m, x, y) = m2
  BY DEF SetNext, Memories
<1>2. m2 \in Memories
  BY DEF Memories
<1>3. QED
  BY <1>1, <1>2 DEF NextOf, PrevOf, Memories

LEMMA PrevIsSet ==
  ASSUME NEW m \in Memories, NEW x \in ListHead, NEW y \in Target
  PROVE  /\ SetPrev(m, x, y) \in Memories
         /\ PrevOf(SetPrev(m, x, y), x) = y
         /\ \A z \in ListHead \ {x} : PrevOf(SetPrev(m, x, y), z) = PrevOf(m, z)
         /\ \A z \in ListHead : NextOf(SetPrev(m, x, y), z) = NextOf(m, z)
<1> DEFINE m2 == [next |-> m.next, prev |-> [m.prev EXCEPT ![x] = y]]
<1>1. SetPrev(m, x, y) = m2
  BY DEF SetPrev, Memories
<1>2. m2 \in Memories
  BY DEF Memories
<1>3. QED
  BY <1>1, <1>2 DEF NextOf, PrevOf, Memories

(* Joining two list_heads, and what a ring without a segment is.           *)
LEMMA JoinIs ==
  ASSUME NEW m \in Memories, NEW x \in ListHead, NEW y \in ListHead
  PROVE  /\ Join(m, x, y) \in Memories
         /\ Changed(m, Join(m, x, y), {x}, {y})
         /\ Link(Join(m, x, y), x, y)
<1> DEFINE a == SetPrev(m, y, x)
<1>1. /\ a \in Memories /\ PrevOf(a, y) = x
      /\ \A z \in ListHead \ {y} : PrevOf(a, z) = PrevOf(m, z)
      /\ \A z \in ListHead : NextOf(a, z) = NextOf(m, z)
  BY PrevIsSet DEF Target
<1> HIDE DEF a
<1>2. /\ SetNext(a, x, y) \in Memories /\ NextOf(SetNext(a, x, y), x) = y
      /\ \A z \in ListHead \ {x} : NextOf(SetNext(a, x, y), z) = NextOf(a, z)
      /\ \A z \in ListHead : PrevOf(SetNext(a, x, y), z) = PrevOf(a, z)
  BY <1>1, NextIsSet DEF Target
<1>3. Join(m, x, y) = SetNext(a, x, y)
  BY DEF Join, a
<1>4. QED
  BY <1>1, <1>2, <1>3 DEF Changed, Link

LEMMA EndsOfSegment ==
  ASSUME NEW s \in Seq(ListHead), s # << >>
  PROVE  /\ FirstOf(s) \in Range(s) /\ LastOf(s) \in Range(s)
         /\ FirstOf(s) \in ListHead /\ LastOf(s) \in ListHead
         /\ Range(s) \subseteq ListHead
<1>1. Len(s) \in Nat \ {0} /\ DOMAIN s = 1 .. Len(s)
  BY EmptySeq, LenProperties
<1>2. 1 \in DOMAIN s /\ Len(s) \in DOMAIN s
  BY <1>1
<1>3. \A i \in DOMAIN s : s[i] \in ListHead
  BY <1>1, ElementOfSeq
<1>4. QED
  BY <1>2, <1>3 DEF FirstOf, LastOf, Range

LEMMA TakenOut ==
  ASSUME NEW m \in Memories, NEW s \in Seq(ListHead), NEW t \in Seq(ListHead),
         s # << >>, t # << >>, Ring(m, s \o t), NEW m2, m2 = Join(m, LastOf(t), FirstOf(t))
  PROVE  /\ m2 \in Memories /\ Changed(m, m2, {LastOf(t)}, {FirstOf(t)})
         /\ Ring(m2, t) /\ Segment(m2, s)
<1>1. /\ Segment(m, s) /\ Segment(m, t) /\ IsInjective(s) /\ IsInjective(t)
      /\ Range(s) \cap Range(t) = {}
  BY RingOfTwo, Zenon
<1>2. /\ LastOf(t) \in ListHead /\ FirstOf(t) \in ListHead
      /\ LastOf(t) \in Range(t) /\ FirstOf(t) \in Range(t)
  BY EndsOfSegment
<1>3. /\ m2 \in Memories /\ Changed(m, m2, {LastOf(t)}, {FirstOf(t)})
      /\ Link(m2, LastOf(t), FirstOf(t))
  BY <1>2, JoinIs
<1>4. Segment(m2, t)
  BY <1>1, <1>3, SegmentIsKept
<1>5. Segment(m2, s)
  <2>1. LastOf(t) \notin Range(s) /\ FirstOf(t) \notin Range(s)
    BY <1>1, <1>2
  <2>2. QED
    BY <1>1, <1>3, <2>1, SegmentIsKept
<1>6. QED
  BY <1>1, <1>3, <1>4, <1>5 DEF Ring

(* Two segments whose ends are linked crosswise are a ring.                *)
LEMMA Closed ==
  ASSUME NEW m, NEW m2, NEW s \in Seq(ListHead), NEW t \in Seq(ListHead),
         s # << >>, IsInjective(s), Segment(m, s), t # << >>, IsInjective(t), Segment(m, t),
         Range(s) \cap Range(t) = {},
         Changed(m, m2, {LastOf(s), LastOf(t)}, {FirstOf(s), FirstOf(t)}),
         Link(m2, LastOf(t), FirstOf(s)), Link(m2, LastOf(s), FirstOf(t))
  PROVE  Ring(m2, s \o t)
<1>2. /\ LastOf(t) \in Range(t) /\ FirstOf(t) \in Range(t)
      /\ LastOf(s) \in Range(s) /\ FirstOf(s) \in Range(s)
  BY EndsOfSegment
<1>3. Segment(m2, t)
  BY <1>2, SegmentIsKept
<1>4. Segment(m2, s)
  BY <1>2, SegmentIsKept
<1>5. QED
  BY <1>3, <1>4, RingOfTwo, Zenon

LEMMA RingIsKept ==
  ASSUME NEW m, NEW m2, NEW N, NEW P, Changed(m, m2, N, P), NEW s, Ring(m, s),
         Range(s) \cap N = {}, Range(s) \cap P = {}
  PROVE  Ring(m2, s)
<1>1. /\ s \in Seq(ListHead) /\ s # << >> /\ IsInjective(s)
      /\ Segment(m, s) /\ Link(m, LastOf(s), FirstOf(s))
  BY DEF Ring
<1>2. Segment(m2, s)
  BY <1>1, SegmentIsKept
<1>3. LastOf(s) \in ListHead \ N /\ FirstOf(s) \in ListHead \ P
  BY <1>1, EndsOfSegment
<1>4. Link(m2, LastOf(s), FirstOf(s))
  BY <1>1, <1>3 DEF Link, Changed
<1>5. QED
  BY <1>1, <1>2, <1>4 DEF Ring

LEMMA BetweenIsAdded ==
  ASSUME NEW m \in Memories, NEW x \in ListHead, NEW p \in ListHead, NEW q \in ListHead,
         x # p, x # q
  PROVE  /\ AddBetween(m, x, p, q) \in Memories
         /\ Changed(m, AddBetween(m, x, p, q), {x, p}, {x, q})
         /\ Link(AddBetween(m, x, p, q), p, x) /\ Link(AddBetween(m, x, p, q), x, q)
<1> DEFINE a == SetPrev(m, q, x)
           b == SetNext(a, x, q)
           c == SetPrev(b, x, p)
           d == SetNext(c, p, x)
<1>0. x \in Target /\ p \in Target /\ q \in Target
  BY DEF Target
<1>1. AddBetween(m, x, p, q) = d
  BY DEF AddBetween
<1>2. /\ a \in Memories /\ PrevOf(a, q) = x
      /\ \A z \in ListHead \ {q} : PrevOf(a, z) = PrevOf(m, z)
      /\ \A z \in ListHead : NextOf(a, z) = NextOf(m, z)
  BY <1>0, PrevIsSet
<1> HIDE DEF a
<1>3. /\ b \in Memories /\ NextOf(b, x) = q
      /\ \A z \in ListHead \ {x} : NextOf(b, z) = NextOf(a, z)
      /\ \A z \in ListHead : PrevOf(b, z) = PrevOf(a, z)
  BY <1>0, <1>2, NextIsSet
<1> HIDE DEF b
<1>4. /\ c \in Memories /\ PrevOf(c, x) = p
      /\ \A z \in ListHead \ {x} : PrevOf(c, z) = PrevOf(b, z)
      /\ \A z \in ListHead : NextOf(c, z) = NextOf(b, z)
  BY <1>0, <1>3, PrevIsSet
<1> HIDE DEF c
<1>5. /\ d \in Memories /\ NextOf(d, p) = x
      /\ \A z \in ListHead \ {p} : NextOf(d, z) = NextOf(c, z)
      /\ \A z \in ListHead : PrevOf(d, z) = PrevOf(c, z)
  BY <1>0, <1>4, NextIsSet
<1> HIDE DEF d
<1>6. Changed(m, d, {x, p}, {x, q})
  BY <1>2, <1>3, <1>4, <1>5 DEF Changed
<1>7. Link(d, p, x) /\ Link(d, x, q)
  BY <1>2, <1>3, <1>4, <1>5 DEF Link
<1>8. QED
  BY <1>1, <1>5, <1>6, <1>7

(* The invariant: every list is a ring of its own.                         *)
Nodes(L, h) == {h} \cup Range(L[h])
RingsInv(m, L) ==
  /\ m \in Memories /\ L \in [Anchor -> Seq(Entry)]
  /\ \A h \in Anchor : Ring(m, <<h>> \o L[h])
  /\ \A g, h \in Anchor : g # h => Range(L[g]) \cap Range(L[h]) = {}
InNone(L, x) == \A h \in Anchor : x \notin Range(L[h])

LEMMA EntriesAreHeads == Seq(Entry) \subseteq Seq(ListHead) /\ Entry \subseteq ListHead
<1>1. Entry \subseteq ListHead
  BY DEF ListHead
<1>2. \A s \in Seq(Entry) : s \in Seq(ListHead)
  BY <1>1, SeqMonotonic
<1>3. QED
  BY <1>1, <1>2

LEMMA RangeOfEntries == ASSUME NEW s \in Seq(Entry) PROVE Range(s) \subseteq Entry
<1>1. \A i \in DOMAIN s : s[i] \in Entry
  BY ElementOfSeq, LenProperties
<1>2. QED
  BY <1>1 DEF Range

LEMMA NodesApart ==
  ASSUME NEW m, NEW L, RingsInv(m, L), NEW g \in Anchor, NEW h \in Anchor, g # h
  PROVE  Nodes(L, g) \cap Nodes(L, h) = {}
<1>1. L[g] \in Seq(Entry) /\ L[h] \in Seq(Entry)
  BY DEF RingsInv
<1>2. Range(L[g]) \subseteq Entry /\ Range(L[h]) \subseteq Entry
  BY <1>1, RangeOfEntries
<1>3. Range(L[g]) \cap Range(L[h]) = {}
  BY DEF RingsInv
<1>4. g \notin Entry /\ h \notin Entry
  BY ListOpsAssumption
<1>5. QED
  BY <1>2, <1>3, <1>4 DEF Nodes

LEMMA HeadAndList ==
  ASSUME NEW h \in Anchor, NEW l \in Seq(Entry)
  PROVE  /\ <<h>> \in Seq(ListHead) /\ l \in Seq(ListHead)
         /\ <<h>> \o l \in Seq(ListHead) /\ <<h>> \o l # << >>
         /\ Range(<<h>> \o l) = {h} \cup Range(l)
<1>1. h \in ListHead
  BY DEF ListHead
<1>2. l \in Seq(ListHead)
  BY EntriesAreHeads
<1>3. <<h>> \in Seq(ListHead) /\ <<h>> # << >> /\ Range(<<h>>) = {h}
  BY <1>1, OneIs
<1>4. QED
  BY <1>2, <1>3, CatIs, EndsOfCat

(* An operation that relinks the rings of some lists keeps the others.     *)
Untouched(L, L2, H, N, P) ==
  \A h \in Anchor \ H : /\ L2[h] = L[h]
                        /\ Nodes(L, h) \cap N = {} /\ Nodes(L, h) \cap P = {}
Remade(m2, L2, H) ==
  /\ \A h \in H : Ring(m2, <<h>> \o L2[h])
  /\ \A h \in H, g \in Anchor : g # h => Range(L2[g]) \cap Range(L2[h]) = {}

LEMMA Relinked ==
  ASSUME NEW m, NEW L, RingsInv(m, L), NEW m2 \in Memories, NEW L2 \in [Anchor -> Seq(Entry)],
         NEW N, NEW P, Changed(m, m2, N, P), NEW H \in SUBSET Anchor,
         Untouched(L, L2, H, N, P), Remade(m2, L2, H)
  PROVE  RingsInv(m2, L2)
<1>1. ASSUME NEW h \in Anchor PROVE Ring(m2, <<h>> \o L2[h])
  <2>1. CASE h \notin H
    <3>1. Ring(m, <<h>> \o L[h]) /\ L[h] \in Seq(Entry)
      BY DEF RingsInv
    <3>2. Range(<<h>> \o L[h]) = Nodes(L, h)
      BY <3>1, HeadAndList DEF Nodes
    <3>3. L2[h] = L[h] /\ Nodes(L, h) \cap N = {} /\ Nodes(L, h) \cap P = {}
      BY <2>1 DEF Untouched
    <3>4. QED
      BY <3>1, <3>2, <3>3, RingIsKept
  <2>2. QED
    BY <2>1 DEF Remade
<1>2. ASSUME NEW g \in Anchor, NEW h \in Anchor, g # h
      PROVE  Range(L2[g]) \cap Range(L2[h]) = {}
  <2>1. CASE g \in H \/ h \in H
    <3>1. g \in H => Range(L2[h]) \cap Range(L2[g]) = {}
      BY <1>2 DEF Remade
    <3>2. h \in H => Range(L2[g]) \cap Range(L2[h]) = {}
      BY <1>2 DEF Remade
    <3>3. QED
      BY <2>1, <3>1, <3>2
  <2>2. CASE g \notin H /\ h \notin H
    BY <1>2, <2>2 DEF RingsInv, Untouched
  <2>3. QED
    BY <2>1, <2>2
<1>3. QED
  BY <1>1, <1>2 DEF RingsInv

Within(L, h, X, N, P, l) ==
  /\ \A g \in Anchor \ {h} : X \cap Nodes(L, g) = {}
  /\ N \subseteq Nodes(L, h) \cup X /\ P \subseteq Nodes(L, h) \cup X
  /\ Range(l) \subseteq Nodes(L, h) \cup X

LEMMA OneRelinked ==
  ASSUME NEW m, NEW L, RingsInv(m, L), NEW m2 \in Memories, NEW N, NEW P, Changed(m, m2, N, P),
         NEW h \in Anchor, NEW l \in Seq(Entry), NEW X,
         Within(L, h, X, N, P, l), Ring(m2, <<h>> \o l)
  PROVE  RingsInv(m2, [L EXCEPT ![h] = l])
<1> DEFINE L2 == [L EXCEPT ![h] = l]
<1>1. L \in [Anchor -> Seq(Entry)]
  BY DEF RingsInv
<1>2. L2 \in [Anchor -> Seq(Entry)] /\ L2[h] = l /\ \A g \in Anchor \ {h} : L2[g] = L[g]
  BY <1>1
<1> HIDE DEF L2
<1>3. \A g \in Anchor \ {h} : Nodes(L, g) \cap (Nodes(L, h) \cup X) = {}
  <2> TAKE g \in Anchor \ {h}
  <2>1. Nodes(L, g) \cap Nodes(L, h) = {}
    BY NodesApart
  <2>2. X \cap Nodes(L, g) = {}
    BY DEF Within
  <2>3. QED
    BY <2>1, <2>2
<1>4. \A g \in Anchor \ {h} : Nodes(L, g) \cap N = {} /\ Nodes(L, g) \cap P = {}
  BY <1>3 DEF Within
<1>5. \A g \in Anchor \ {h} : Range(L2[g]) \cap Range(L2[h]) = {}
  <2> TAKE g \in Anchor \ {h}
  <2>1. Range(L2[g]) \subseteq Nodes(L, g)
    BY <1>2 DEF Nodes
  <2>2. QED
    BY <1>2, <1>3, <2>1 DEF Within
<1> DEFINE H == {h}
<1>6. H \in SUBSET Anchor /\ Untouched(L, L2, H, N, P) /\ Remade(m2, L2, H)
  BY <1>2, <1>4, <1>5 DEF Untouched, Remade
<1> HIDE DEF H
<1>7. RingsInv(m2, L2)
  BY <1>2, <1>6, Relinked
<1>8. QED
  BY <1>7 DEF L2

LEMMA RingFrom ==
  ASSUME NEW m, NEW h \in ListHead, NEW s \in Seq(ListHead), NEW t \in Seq(ListHead)
  PROVE  Ring(m, <<h>> \o (s \o t)) <=> Ring(m, t \o (<<h>> \o s))
<1>1. <<h>> \in Seq(ListHead)
  BY OneIs
<1>2. <<h>> \o s \in Seq(ListHead)
  BY <1>1, CatIs
<1>3. <<h>> \o (s \o t) = (<<h>> \o s) \o t
  BY <1>1, ConcatAssociative
<1>4. QED
  BY <1>2, <1>3, RingTurned

(* A list with an entry x in it, seen from there: x, and the rest of the   *)
(* ring.                                                                   *)
Rest(h, s, t) == t \o (<<h>> \o s)

With(s, x, t) == s \o (<<x>> \o t)

LEMMA RestIs ==
  ASSUME NEW h \in Anchor, NEW s \in Seq(Entry), NEW t \in Seq(Entry)
  PROVE  /\ Rest(h, s, t) \in Seq(ListHead) /\ Rest(h, s, t) # << >>
         /\ Range(Rest(h, s, t)) = {h} \cup Range(s \o t)
         /\ Range(s \o t) = Range(s) \cup Range(t) /\ s \o t \in Seq(Entry)
<1> DEFINE u == <<h>> \o s
<1>1. /\ s \in Seq(ListHead) /\ t \in Seq(ListHead)
      /\ u \in Seq(ListHead) /\ u # << >> /\ Range(u) = {h} \cup Range(s)
  BY HeadAndList
<1>2. Range(s \o t) = Range(s) \cup Range(t) /\ s \o t \in Seq(Entry)
  BY CatIs
<1>3. Rest(h, s, t) = t \o u
  BY DEF Rest
<1> HIDE DEF u
<1>4. t \o u \in Seq(ListHead) /\ t \o u # << >> /\ Range(t \o u) = Range(t) \cup Range(u)
  BY <1>1, CatIs, EndsOfCat
<1>5. QED
  BY <1>1, <1>2, <1>3, <1>4

LEMMA SeenFrom ==
  ASSUME NEW m, NEW h \in Anchor, NEW x \in ListHead, NEW s \in Seq(Entry), NEW t \in Seq(Entry)
  PROVE  /\ Ring(m, Rest(h, s, t)) <=> Ring(m, <<h>> \o (s \o t))
         /\ Ring(m, <<x>> \o Rest(h, s, t)) <=> Ring(m, <<h>> \o With(s, x, t))
<1>1. /\ h \in ListHead /\ s \in Seq(ListHead) /\ t \in Seq(ListHead)
      /\ <<h>> \o s \in Seq(ListHead)
  BY HeadAndList DEF ListHead
<1>2. <<x>> \in Seq(ListHead)
  BY OneIs
<1>3. <<x>> \o t \in Seq(ListHead)
  BY <1>1, <1>2, CatIs
<1>4. Ring(m, Rest(h, s, t)) <=> Ring(m, <<h>> \o (s \o t))
  BY <1>1, RingFrom DEF Rest
<1>5. (<<x>> \o t) \o (<<h>> \o s) = <<x>> \o Rest(h, s, t)
  BY <1>1, <1>2, ConcatAssociative DEF Rest
<1>6. Ring(m, <<x>> \o Rest(h, s, t)) <=> Ring(m, <<h>> \o With(s, x, t))
  BY <1>1, <1>3, <1>5, RingFrom DEF With
<1>7. QED
  BY <1>4, <1>6

LEMMA ListWithEntry ==
  ASSUME NEW x \in Entry, NEW s \in Seq(Entry), NEW t \in Seq(Entry)
  PROVE  /\ With(s, x, t) \in Seq(Entry) /\ <<x>> \o t \in Seq(Entry)
         /\ Range(With(s, x, t)) = {x} \cup Range(s \o t)
<1> DEFINE o == <<x>>
           u == o \o t
<1>1. o \in Seq(Entry) /\ Range(o) = {x}
  BY OneIs
<1> HIDE DEF o
<1>2. u \in Seq(Entry) /\ Range(u) = {x} \cup Range(t)
  BY <1>1, CatIs
<1> HIDE DEF u
<1>3. s \o u \in Seq(Entry) /\ Range(s \o u) = Range(s) \cup Range(u)
  BY <1>2, CatIs
<1>4. Range(s \o t) = Range(s) \cup Range(t)
  BY CatIs
<1>5. s \o u \in Seq(Entry) /\ u \in Seq(Entry) /\ Range(s \o u) = {x} \cup Range(s \o t)
  BY <1>2, <1>3, <1>4
<1>6. QED
  BY <1>5 DEF u, o, With

(* __list_del_entry.                                                       *)
LEMMA EntryIsUnlinked ==
  ASSUME NEW m, NEW L, RingsInv(m, L), NEW h \in Anchor,
         NEW x \in Entry, NEW s \in Seq(Entry), NEW t \in Seq(Entry),
         L[h] = With(s, x, t)
  PROVE  /\ RingsInv(Unlink(m, x), [L EXCEPT ![h] = s \o t])
         /\ InNone([L EXCEPT ![h] = s \o t], x)
         /\ x \in Range(L[h]) /\ s \o t \in Seq(Entry)
<1> DEFINE d == Rest(h, s, t)
           m2 == Unlink(m, x)
<1>1. /\ m \in Memories /\ x \in ListHead /\ L \in [Anchor -> Seq(Entry)]
      /\ Ring(m, <<h>> \o With(s, x, t))
  BY EntriesAreHeads DEF RingsInv
<1>2. /\ d \in Seq(ListHead) /\ d # << >>
      /\ Range(d) = {h} \cup Range(s \o t) /\ Range(s \o t) = Range(s) \cup Range(t)
      /\ Ring(m, <<x>> \o d)
  <2>1. Ring(m, <<x>> \o d) <=> Ring(m, <<h>> \o With(s, x, t))
    BY <1>1, SeenFrom
  <2>2. /\ d \in Seq(ListHead) /\ d # << >>
        /\ Range(d) = {h} \cup Range(s \o t) /\ Range(s \o t) = Range(s) \cup Range(t)
    BY RestIs
  <2>3. QED
    BY <1>1, <2>1, <2>2
<1>3. <<x>> \in Seq(ListHead) /\ <<x>> # << >> /\ FirstOf(<<x>>) = x /\ LastOf(<<x>>) = x
      /\ Range(<<x>>) = {x}
  BY <1>1, OneIs
<1>4. /\ Link(m, x, FirstOf(d)) /\ Link(m, LastOf(d), x) /\ {x} \cap Range(d) = {}
  <2>1. Ring(m, <<x>> \o d)
    BY <1>2
  <2>2. /\ Link(m, LastOf(<<x>>), FirstOf(d)) /\ Link(m, LastOf(d), FirstOf(<<x>>))
        /\ Range(<<x>>) \cap Range(d) = {}
    BY <1>2, <1>3, <2>1, RingOfTwo, Zenon
  <2>3. QED
    BY <1>3, <2>2, Zenon
<1>5. m2 = Join(m, LastOf(d), FirstOf(d))
  BY <1>4 DEF Link, NextOf, PrevOf, Unlink
<1>6. m2 \in Memories /\ Changed(m, m2, {LastOf(d)}, {FirstOf(d)}) /\ Ring(m2, d)
  BY <1>1, <1>2, <1>3, <1>5, TakenOut
<1>7. Ring(m2, <<h>> \o (s \o t))
  BY <1>1, <1>6, SeenFrom
<1>8. LastOf(d) \in Range(d) /\ FirstOf(d) \in Range(d)
  BY <1>2, EndsOfSegment
<1>9. s \o t \in Seq(Entry)
  BY ConcatProperties
<1>10. x \in Range(L[h]) /\ Range(s \o t) \subseteq Range(L[h])
  BY <1>2, ListWithEntry
<1>11. RingsInv(m2, [L EXCEPT ![h] = s \o t])
  <2> DEFINE X == {}
             N == {LastOf(d)}
             P == {FirstOf(d)}
             l == s \o t
  <2>1. Within(L, h, X, N, P, l)
    BY <1>2, <1>8, <1>10 DEF Nodes, Within
  <2>2. Changed(m, m2, N, P) /\ Ring(m2, <<h>> \o l) /\ l \in Seq(Entry) /\ m2 \in Memories
    BY <1>6, <1>7, <1>9
  <2> HIDE DEF X, N, P, l, m2
  <2>3. RingsInv(m2, [L EXCEPT ![h] = l])
    BY <2>1, <2>2, OneRelinked
  <2>4. QED
    BY <2>3 DEF l
<1>12. InNone([L EXCEPT ![h] = s \o t], x)
  <2>1. x \notin Range(s \o t)
    BY <1>2, <1>4
  <2>2. \A g \in Anchor \ {h} : x \notin Range(L[g])
    BY <1>10 DEF RingsInv
  <2>3. QED
    BY <1>1, <2>1, <2>2 DEF InNone
<1>13. QED
  BY <1>9, <1>10, <1>11, <1>12

LEMMA EndsOfRest ==
  ASSUME NEW h \in Anchor, NEW s \in Seq(Entry), NEW t \in Seq(Entry)
  PROVE  /\ FirstOf(Rest(h, s, t)) = IF t = << >> THEN h ELSE FirstOf(t)
         /\ LastOf(Rest(h, s, t)) = IF s = << >> THEN h ELSE LastOf(s)
<1> DEFINE o == <<h>>
           u == o \o s
<1>1. /\ o \in Seq(ListHead) /\ o # << >> /\ FirstOf(o) = h /\ LastOf(o) = h
      /\ s \in Seq(ListHead) /\ t \in Seq(ListHead)
      /\ Rest(h, s, t) = t \o u
  BY OneIs, HeadAndList DEF Rest, ListHead
<1> HIDE DEF o
<1>2. /\ u \in Seq(ListHead) /\ u # << >> /\ FirstOf(u) = h
      /\ s # << >> => LastOf(u) = LastOf(s)
      /\ s = << >> => u = o
  BY <1>1, CatIs, EndsOfCat, ConcatEmptySeq
<1> HIDE DEF u
<1>3. /\ LastOf(t \o u) = LastOf(u)
      /\ t # << >> => FirstOf(t \o u) = FirstOf(t)
      /\ t = << >> => t \o u = u
  BY <1>1, <1>2, EndsOfCat, ConcatEmptySeq, SMTT(30)
<1>4. QED
  BY <1>1, <1>2, <1>3

(* __list_add between two neighbours of a list.                            *)
LEMMA EntryIsAdded ==
  ASSUME NEW m, NEW L, RingsInv(m, L), NEW h \in Anchor,
         NEW x \in Entry, NEW s \in Seq(Entry), NEW t \in Seq(Entry),
         L[h] = s \o t, InNone(L, x)
  PROVE  /\ RingsInv(AddBetween(m, x, LastOf(Rest(h, s, t)), FirstOf(Rest(h, s, t))),
                     [L EXCEPT ![h] = With(s, x, t)])
         /\ Link(m, LastOf(Rest(h, s, t)), FirstOf(Rest(h, s, t)))
<1> DEFINE d == Rest(h, s, t)
           m2 == AddBetween(m, x, LastOf(d), FirstOf(d))
           l == With(s, x, t)
           o == <<x>>
<1>1. /\ m \in Memories /\ x \in ListHead /\ L \in [Anchor -> Seq(Entry)]
      /\ Ring(m, <<h>> \o (s \o t))
  BY EntriesAreHeads DEF RingsInv
<1>2. /\ d \in Seq(ListHead) /\ d # << >> /\ Range(d) = {h} \cup Range(L[h])
  BY RestIs
<1>3. Ring(m, d)
  BY <1>1, SeenFrom
<1>4. /\ o \in Seq(ListHead) /\ o # << >> /\ FirstOf(o) = x /\ LastOf(o) = x
      /\ Range(o) = {x} /\ IsInjective(o) /\ Segment(m, o)
  BY <1>1, OneIs
<1>5. /\ l \in Seq(Entry) /\ Range(l) = {x} \cup Range(L[h])
  BY ListWithEntry
<1>6. Ring(m2, o \o d) <=> Ring(m2, <<h>> \o l)
  BY <1>1, SeenFrom
<1>7. x # h /\ \A g \in Anchor : x \notin Nodes(L, g)
  BY ListOpsAssumption DEF InNone, Nodes
<1> HIDE DEF d, o, l
<1>8. /\ LastOf(d) \in ListHead /\ FirstOf(d) \in ListHead
      /\ LastOf(d) \in Range(d) /\ FirstOf(d) \in Range(d)
  BY <1>2, EndsOfSegment
<1>9. x \notin Range(d) /\ Range(d) = Nodes(L, h)
  BY <1>2, <1>7 DEF Nodes
<1>10. /\ m2 \in Memories /\ Changed(m, m2, {x, LastOf(d)}, {x, FirstOf(d)})
       /\ Link(m2, LastOf(d), x) /\ Link(m2, x, FirstOf(d))
  BY <1>1, <1>8, <1>9, BetweenIsAdded
<1> HIDE DEF m2
<1>11. IsInjective(d) /\ Segment(m, d) /\ Link(m, LastOf(d), FirstOf(d))
  BY <1>3 DEF Ring
<1>12. Range(o) \cap Range(d) = {}
  BY <1>4, <1>9
<1>13. /\ Changed(m, m2, {LastOf(o), LastOf(d)}, {FirstOf(o), FirstOf(d)})
       /\ Link(m2, LastOf(d), FirstOf(o)) /\ Link(m2, LastOf(o), FirstOf(d))
  BY <1>4, <1>10
<1>14. Ring(m2, o \o d)
  BY <1>2, <1>4, <1>11, <1>12, <1>13, Closed
<1>15. RingsInv(m2, [L EXCEPT ![h] = l])
  <2> DEFINE X == {x}
             N == {x, LastOf(d)}
             Q == {x, FirstOf(d)}
  <2>1. Within(L, h, X, N, Q, l)
    BY <1>5, <1>7, <1>8, <1>9 DEF Nodes, Within
  <2>2. Changed(m, m2, N, Q) /\ Ring(m2, <<h>> \o l)
    BY <1>6, <1>10, <1>14
  <2> HIDE DEF X, N, Q
  <2>3. QED
    BY <1>5, <1>10, <2>1, <2>2, OneRelinked
<1>16. QED
  BY <1>11, <1>15 DEF m2, l, d

(* The fields of an entry that is in no list.                              *)
LEMMA FreeEntryIsSet ==
  ASSUME NEW m, NEW L, RingsInv(m, L), NEW x \in Entry, InNone(L, x), NEW y \in Target
  PROVE  RingsInv(SetNext(m, x, y), L) /\ RingsInv(SetPrev(m, x, y), L)
<1>1. m \in Memories /\ x \in ListHead /\ L \in [Anchor -> Seq(Entry)]
  BY EntriesAreHeads DEF RingsInv
<1>2. \A h \in Anchor : x \notin Nodes(L, h)
  BY ListOpsAssumption DEF InNone, Nodes
<1> DEFINE X == {x}
           E == {}
           a == SetNext(m, x, y)
           b == SetPrev(m, x, y)
<1>3. a \in Memories /\ Changed(m, a, X, E)
  BY <1>1, NextIsSet DEF Changed
<1>4. b \in Memories /\ Changed(m, b, E, X)
  BY <1>1, PrevIsSet DEF Changed
<1>5. /\ Untouched(L, L, E, X, E) /\ Untouched(L, L, E, E, X)
      /\ E \in SUBSET Anchor
  BY <1>2 DEF Untouched
<1>6. \A m2 : Remade(m2, L, E)
  BY DEF Remade
<1> HIDE DEF X, E, a, b
<1>7. RingsInv(a, L)
  BY <1>1, <1>3, <1>5, <1>6, Relinked
<1>8. RingsInv(b, L)
  BY <1>1, <1>4, <1>5, <1>6, Relinked
<1>9. QED
  BY <1>7, <1>8 DEF a, b

(* Sequences taken apart.                                                  *)
LEMMA SplitAt ==
  ASSUME NEW S, NEW s \in Seq(S), NEW i \in DOMAIN s
  PROVE  /\ SubSeq(s, 1, i - 1) \in Seq(S) /\ SubSeq(s, i + 1, Len(s)) \in Seq(S)
         /\ s[i] \in S
         /\ s = SubSeq(s, 1, i - 1) \o (<<s[i]>> \o SubSeq(s, i + 1, Len(s)))
         /\ SubSeq(s, i, Len(s)) = <<s[i]>> \o SubSeq(s, i + 1, Len(s))
<1>1. Len(s) \in Nat /\ DOMAIN s = 1 .. Len(s) /\ \A j \in 1 .. Len(s) : s[j] \in S
  BY LenProperties, ElementOfSeq
<1>2. i \in 1 .. Len(s) /\ Len(s) \in i .. Len(s)
  BY <1>1
<1>3. SubSeq(s, i, Len(s)) = <<s[i]>> \o SubSeq(s, i + 1, Len(s))
  BY <1>2, SubSeqRecursiveFirst
<1>4. SubSeq(s, 1, i - 1) \o SubSeq(s, i, Len(s)) = s
  <2>1. /\ 1 \in 1 .. Len(s) + 1 /\ i - 1 \in 1 - 1 .. Len(s) /\ Len(s) \in i - 1 .. Len(s)
        /\ (i - 1) + 1 = i
    BY <1>1, <1>2
  <2>2. SubSeq(s, 1, i - 1) \o SubSeq(s, (i - 1) + 1, Len(s)) = SubSeq(s, 1, Len(s))
    BY <2>1, ConcatAdjacentSubSeq
  <2>3. QED
    BY <2>1, <2>2, SubSeqFull
<1>5. SubSeq(s, 1, i - 1) \in Seq(S) /\ SubSeq(s, i + 1, Len(s)) \in Seq(S)
  <2>1. /\ 1 \in Int /\ i - 1 \in Int /\ i + 1 \in Int /\ Len(s) \in Int
        /\ \A j \in 1 .. i - 1 : s[j] \in S
        /\ \A j \in i + 1 .. Len(s) : s[j] \in S
    BY <1>1, <1>2
  <2>2. QED
    BY <2>1, SubSeqProperties
<1>6. QED
  BY <1>1, <1>2, <1>3, <1>4, <1>5

(* list_add and list_add_tail.                                             *)
LEMMA FirstIsAdded ==
  ASSUME NEW m, NEW L, RingsInv(m, L), NEW h \in Anchor, NEW x \in Entry, InNone(L, x)
  PROVE  RingsInv(Add(m, x, h), [L EXCEPT ![h] = <<x>> \o L[h]])
<1> DEFINE s == << >>
           t == L[h]
           d == Rest(h, s, t)
<1>1. s \in Seq(Entry) /\ t \in Seq(Entry) /\ L[h] = s \o t
  BY ConcatEmptySeq DEF RingsInv
<1>2. LastOf(d) = h
  BY <1>1, EndsOfRest
<1>3. With(s, x, t) = <<x>> \o t
  <2>1. <<x>> \o t \in Seq(Entry)
    BY <1>1, ListWithEntry
  <2>2. QED
    BY <2>1, ConcatEmptySeq DEF With
<1> HIDE DEF s, t
<1>4. /\ RingsInv(AddBetween(m, x, LastOf(d), FirstOf(d)), [L EXCEPT ![h] = With(s, x, t)])
      /\ Link(m, LastOf(d), FirstOf(d))
  BY <1>1, EntryIsAdded
<1> HIDE DEF d
<1>5. m.next[h] = FirstOf(d)
  BY <1>2, <1>4 DEF Link, NextOf
<1>6. Add(m, x, h) = AddBetween(m, x, LastOf(d), FirstOf(d))
  BY <1>2, <1>5 DEF Add
<1>7. QED
  BY <1>3, <1>4, <1>6 DEF t

LEMMA LastIsAdded ==
  ASSUME NEW m, NEW L, RingsInv(m, L), NEW h \in Anchor, NEW x \in Entry, InNone(L, x)
  PROVE  RingsInv(AddTail(m, x, h), [L EXCEPT ![h] = L[h] \o <<x>>])
<1> DEFINE s == L[h]
           t == << >>
           d == Rest(h, s, t)
<1>1. s \in Seq(Entry) /\ t \in Seq(Entry) /\ L[h] = s \o t
  BY ConcatEmptySeq DEF RingsInv
<1>2. FirstOf(d) = h
  BY <1>1, EndsOfRest
<1>3. With(s, x, t) = s \o <<x>>
  <2>1. <<x>> \in Seq(Entry)
    BY OneIs
  <2>2. QED
    BY <2>1, ConcatEmptySeq DEF With
<1> HIDE DEF s, t
<1>4. /\ RingsInv(AddBetween(m, x, LastOf(d), FirstOf(d)), [L EXCEPT ![h] = With(s, x, t)])
      /\ Link(m, LastOf(d), FirstOf(d))
  BY <1>1, EntryIsAdded
<1> HIDE DEF d
<1>5. m.prev[h] = LastOf(d)
  BY <1>2, <1>4 DEF Link, PrevOf
<1>6. AddTail(m, x, h) = AddBetween(m, x, LastOf(d), FirstOf(d))
  BY <1>2, <1>5 DEF AddTail
<1>7. QED
  BY <1>3, <1>4, <1>6 DEF s

LEMMA FreeEntryIsInit ==
  ASSUME NEW m, NEW L, RingsInv(m, L), NEW x \in Entry, InNone(L, x), NEW y \in Target
  PROVE  RingsInv(SetPrev(SetNext(m, x, y), x, y), L)
<1> DEFINE a == SetNext(m, x, y)
<1>1. RingsInv(a, L)
  BY FreeEntryIsSet
<1> HIDE DEF a
<1>2. RingsInv(SetPrev(a, x, y), L)
  BY <1>1, FreeEntryIsSet
<1>3. QED
  BY <1>2 DEF a

(* The neighbours at a place of a list.                                    *)
LEMMA NeighboursAre ==
  ASSUME NEW m, NEW L, RingsInv(m, L), NEW h \in Anchor,
         NEW s \in Seq(Entry), NEW t \in Seq(Entry), L[h] = s \o t
  PROVE  Link(m, LastOf(Rest(h, s, t)), FirstOf(Rest(h, s, t)))
<1>1. Ring(m, <<h>> \o (s \o t))
  BY DEF RingsInv
<1>2. Ring(m, Rest(h, s, t))
  <2>1. h \in ListHead
    BY DEF ListHead
  <2>2. QED
    BY <1>1, <2>1, SeenFrom
<1>3. QED
  BY <1>2 DEF Ring

LEMMA EndsOfList ==
  ASSUME NEW m, NEW L, RingsInv(m, L), NEW h \in Anchor
  PROVE  /\ m.next[h] = IF L[h] = << >> THEN h ELSE FirstOf(L[h])
         /\ m.prev[h] = IF L[h] = << >> THEN h ELSE LastOf(L[h])
         /\ L[h] # << >> => FirstOf(L[h]) # h /\ LastOf(L[h]) # h
<1> DEFINE l == L[h]
           e == << >>
<1>1. l \in Seq(Entry) /\ e \in Seq(Entry) /\ l = e \o l /\ l = l \o e /\ e = << >>
  BY ConcatEmptySeq DEF RingsInv
<1>2. L[h] = e \o l /\ L[h] = l \o e
  BY <1>1
<1> HIDE DEF e, l
<1>3. /\ Link(m, LastOf(Rest(h, e, l)), FirstOf(Rest(h, e, l)))
      /\ Link(m, LastOf(Rest(h, l, e)), FirstOf(Rest(h, l, e)))
  BY <1>1, <1>2, NeighboursAre
<1>4. /\ LastOf(Rest(h, e, l)) = h /\ FirstOf(Rest(h, l, e)) = h
      /\ FirstOf(Rest(h, e, l)) = IF l = << >> THEN h ELSE FirstOf(l)
      /\ LastOf(Rest(h, l, e)) = IF l = << >> THEN h ELSE LastOf(l)
  BY <1>1, EndsOfRest
<1>5. l # << >> => FirstOf(l) # h /\ LastOf(l) # h
  <2>1. h \notin Range(l)
    BY <1>1, RangeOfEntries, ListOpsAssumption
  <2>2. l \in Seq(ListHead)
    BY <1>1, EntriesAreHeads
  <2>3. QED
    BY <2>1, <2>2, EndsOfSegment
<1>6. QED
  BY <1>3, <1>4, <1>5 DEF Link, NextOf, PrevOf, l

(* INIT_LIST_HEAD of a list whose entries are elsewhere.                   *)
LEMMA HeadIsInit ==
  ASSUME NEW m \in Memories, NEW g \in Anchor
  PROVE  /\ INIT_LIST_HEAD(m, g) \in Memories
         /\ Changed(m, INIT_LIST_HEAD(m, g), {g}, {g})
         /\ Ring(INIT_LIST_HEAD(m, g), <<g>> \o << >>)
<1> DEFINE a == SetNext(m, g, g)
           b == SetPrev(a, g, g)
           o == <<g>>
<1>1. g \in ListHead /\ g \in Target
  BY DEF ListHead, Target
<1>2. /\ a \in Memories /\ NextOf(a, g) = g
      /\ \A z \in ListHead \ {g} : NextOf(a, z) = NextOf(m, z)
      /\ \A z \in ListHead : PrevOf(a, z) = PrevOf(m, z)
  BY <1>1, NextIsSet
<1> HIDE DEF a
<1>3. /\ b \in Memories /\ PrevOf(b, g) = g
      /\ \A z \in ListHead \ {g} : PrevOf(b, z) = PrevOf(a, z)
      /\ \A z \in ListHead : NextOf(b, z) = NextOf(a, z)
  BY <1>1, <1>2, PrevIsSet
<1>4. INIT_LIST_HEAD(m, g) = b
  BY DEF INIT_LIST_HEAD, a
<1> HIDE DEF b
<1>5. Changed(m, b, {g}, {g}) /\ Link(b, g, g)
  BY <1>1, <1>2, <1>3 DEF Changed, Link
<1>6. /\ o \in Seq(ListHead) /\ o # << >> /\ FirstOf(o) = g /\ LastOf(o) = g
      /\ IsInjective(o) /\ Segment(b, o) /\ o \o << >> = o
  <2>1. /\ o \in Seq(ListHead) /\ o # << >> /\ FirstOf(o) = g /\ LastOf(o) = g
        /\ IsInjective(o) /\ Segment(b, o)
    BY <1>1, OneIs
  <2>2. QED
    BY <2>1, ConcatEmptySeq
<1> HIDE DEF o
<1>7. Ring(b, o)
  BY <1>5, <1>6 DEF Ring
<1>8. QED
  BY <1>3, <1>4, <1>5, <1>6, <1>7 DEF o

LEMMA ListIsSegment ==
  ASSUME NEW m, NEW L, RingsInv(m, L), NEW g \in Anchor
  PROVE  IsInjective(L[g]) /\ Segment(m, L[g]) /\ L[g] \in Seq(ListHead) /\ L[g] \in Seq(Entry)
<1> DEFINE l == L[g]
           o == <<g>>
<1>1. l \in Seq(Entry) /\ l \in Seq(ListHead) /\ Ring(m, o \o l)
  BY EntriesAreHeads DEF RingsInv
<1>2. CASE l = << >>
  <2>1. Len(l) = 0 /\ DOMAIN l = {} /\ \A i \in 1 .. Len(l) - 1 : FALSE
    BY <1>2
  <2>2. IsInjective(l) /\ Segment(m, l)
    BY <2>1 DEF IsInjective, Segment
  <2>3. QED
    BY <1>1, <2>2
<1>3. CASE l # << >>
  <2>1. o \in Seq(ListHead) /\ o # << >>
    BY OneIs DEF ListHead
  <2> HIDE DEF o, l
  <2>2. IsInjective(l) /\ Segment(m, l)
    BY <1>1, <1>3, <2>1, RingOfTwo, Zenon
  <2>3. QED
    BY <1>1, <2>2 DEF l
<1>4. QED
  BY <1>2, <1>3

LEMMA EntryInList ==
  ASSUME NEW l \in Seq(Entry), NEW x \in Range(l)
  PROVE  x \in Entry /\ \E s \in Seq(Entry), t \in Seq(Entry) : l = With(s, x, t)
<1>1. PICK i \in DOMAIN l : l[i] = x
  BY DEF Range
<1> DEFINE s == SubSeq(l, 1, i - 1)
           t == SubSeq(l, i + 1, Len(l))
<1>2. s \in Seq(Entry) /\ t \in Seq(Entry) /\ l[i] \in Entry /\ l = s \o (<<l[i]>> \o t)
  BY <1>1, SplitAt
<1> HIDE DEF s, t
<1>3. l = With(s, x, t)
  BY <1>1, <1>2 DEF With
<1>4. QED
  BY <1>1, <1>2, <1>3

(* The neighbour before an entry in a list.                                *)
LEMMA EntryBefore ==
  ASSUME NEW m, NEW L, RingsInv(m, L), NEW h \in Anchor, NEW x \in Entry,
         NEW s \in Seq(Entry), NEW t \in Seq(Entry), L[h] = With(s, x, t)
  PROVE  m.prev[x] = IF s = << >> THEN h ELSE LastOf(s)
<1> DEFINE d == Rest(h, s, t)
           o == <<x>>
<1>1. Ring(m, <<h>> \o L[h]) /\ x \in ListHead
  BY EntriesAreHeads DEF RingsInv
<1>2. Ring(m, o \o d)
  BY <1>1, SeenFrom
<1>3. o \in Seq(ListHead) /\ o # << >> /\ FirstOf(o) = x
  BY <1>1, OneIs
<1>4. d \in Seq(ListHead) /\ d # << >>
  BY RestIs
<1>5. LastOf(d) = IF s = << >> THEN h ELSE LastOf(s)
  BY EndsOfRest
<1> HIDE DEF o, d
<1>6. Link(m, LastOf(d), FirstOf(o))
  BY <1>2, <1>3, <1>4, RingOfTwo, Zenon
<1>7. QED
  BY <1>3, <1>5, <1>6 DEF Link, PrevOf

\* y in the place of x everywhere.

(* A head that is linked to itself is a ring, and so is every list when    *)
(* only what is in none is written.                                        *)
LEMMA HeadAlone ==
  ASSUME NEW m, NEW g \in Anchor, Link(m, g, g)
  PROVE  Ring(m, <<g>> \o << >>)
<1> DEFINE o == <<g>>
<1>1. g \in ListHead
  BY DEF ListHead
<1>2. /\ o \in Seq(ListHead) /\ o # << >> /\ FirstOf(o) = g /\ LastOf(o) = g
      /\ IsInjective(o) /\ Segment(m, o)
  BY <1>1, OneIs
<1>3. o \o << >> = o
  BY <1>2, ConcatEmptySeq
<1> HIDE DEF o
<1>4. Ring(m, o)
  BY <1>2 DEF Ring
<1>5. QED
  BY <1>3, <1>4 DEF o

LEMMA OthersAreKept ==
  ASSUME NEW m, NEW L, RingsInv(m, L), NEW m2 \in Memories, NEW N, Changed(m, m2, N, N),
         \A h \in Anchor : Nodes(L, h) \cap N = {}
  PROVE  RingsInv(m2, L)
<1>1. L \in [Anchor -> Seq(Entry)] /\ {} \in SUBSET Anchor
  BY DEF RingsInv
<1>2. Untouched(L, L, {}, N, N) /\ Remade(m2, L, {})
  BY DEF Untouched, Remade
<1>3. QED
  BY <1>1, <1>2, Relinked

LEMMA HeadIsEmptied ==
  ASSUME NEW m, NEW L, RingsInv(m, L), NEW m2 \in Memories, NEW g \in Anchor, NEW N,
         Changed(m, m2, N, N), N \subseteq Entry \cup {g}, \A x \in N \cap Entry : InNone(L, x),
         Link(m2, g, g)
  PROVE  RingsInv(m2, [L EXCEPT ![g] = << >>])
<1> DEFINE X == N \ {g}
           e == << >>
<1>1. Ring(m2, <<g>> \o e)
  BY HeadAlone
<1>2. e \in Seq(Entry) /\ Range(e) = {}
  BY DEF Range
<1> HIDE DEF e
<1>3. X \subseteq Entry
  OBVIOUS
<1>4. \A h \in Anchor \ {g} : X \cap Nodes(L, h) = {}
  BY <1>3, ListOpsAssumption DEF Nodes, InNone
<1>5. N \subseteq Nodes(L, g) \cup X
  BY DEF Nodes
<1>6. Within(L, g, X, N, N, e)
  BY <1>2, <1>4, <1>5 DEF Within
<1> HIDE DEF X
<1>7. RingsInv(m2, [L EXCEPT ![g] = e])
  BY <1>1, <1>2, <1>6, OneRelinked
<1>8. QED
  BY <1>7 DEF e
=============================================================================
