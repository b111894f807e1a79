----------------------------- MODULE RingProofs -----------------------------
(***************************************************************************)
(* Proofs about Ring, for rings of any size and any replica factor: the    *)
(* binary search keeps the first point at or after the hash between lo and *)
(* hi + 1, and the walk has collected exactly the peers of the points it   *)
(* has passed.                                                             *)
(***************************************************************************)
EXTENDS Ring, TLAPS

Distinct(q) == \A j, e \in 1..Len(q) : j # e => q[j] # q[e]

Halved ==
  pc = "search" =>
    /\ lo <= hi + 1 /\ res = <<>>
    /\ \A j \in 0..(lo - 1) : Point(j).hash < h
    /\ \A j \in (hi + 1)..(Size - 1) : Point(j).hash >= h

Collected ==
  pc = "walk" =>
    /\ Len(res) <= Passed /\ Len(res) <= Limit
    /\ \A k \in 0..(Passed - 1) : Clockwise(idx, k).peer \in Owners

InOrder ==
  /\ Distinct(res)
  /\ \A j \in 1..Len(res) : IsNextOwner(idx, j)

Finished ==
  pc = "done" =>
    /\ Len(res) <= Wanted
    /\ Len(res) = Wanted \/ \A j \in 0..(Size - 1) : Point(j).peer \in Owners

IInv ==
  /\ TypeOK
  /\ Halved
  /\ pc # "search" => IsFirstPoint(idx)
  /\ InOrder /\ Collected /\ Finished

\* A ring is a sorted list of at least one point.
LEMMA RingShape ==
  ASSUME points \in Rings
  PROVE  /\ Size \in Nat \ {0}
         /\ \A j \in 0..(Size - 1) : Point(j) \in Points /\ Point(j).hash \in Nat /\ Point(j).peer \in Peers
         /\ \A a, b \in 0..(Size - 1) : a <= b => Point(a).hash <= Point(b).hash
<1>1. /\ points \in Seq(Points) /\ points # <<>>
      /\ \A a, b \in 1..Size : a <= b => points[a].hash <= points[b].hash
  BY RingsAssumption DEF Size
<1>2. Size \in Nat \ {0} /\ \A a \in 1..Size : points[a] \in Points
  BY <1>1 DEF Size
<1>3. ASSUME NEW j \in 0..(Size - 1) PROVE j + 1 \in 1..Size
  BY <1>2
<1>4. \A j \in 0..(Size - 1) : Point(j) \in Points
  BY <1>2, <1>3 DEF Point
<1>5. \A a, b \in 0..(Size - 1) : a <= b => Point(a).hash <= Point(b).hash
  <2> SUFFICES ASSUME NEW a \in 0..(Size - 1), NEW b \in 0..(Size - 1), a <= b
               PROVE  points[a + 1].hash <= points[b + 1].hash
    BY DEF Point
  <2>1. a + 1 \in 1..Size /\ b + 1 \in 1..Size /\ a + 1 <= b + 1
    BY <1>2
  <2> QED BY <1>1, <2>1
<1> QED BY <1>2, <1>4, <1>5 DEF Points

\* The bound of the walk.
LEMMA LimitBounds ==
  ASSUME TypeOK
  PROVE  Wanted \in Nat \ {0} /\ Limit \in Nat \ {0} /\ Limit <= Wanted /\ Limit <= Size
<1>1. Size \in Nat \ {0} /\ r \in Int
  BY RingShape, InputsAssumption DEF TypeOK
<1>2. Wanted \in Nat \ {0}
  BY <1>1 DEF Wanted
<1> QED BY <1>1, <1>2 DEF Limit

LEMMA InitInvariant == Init => IInv
<1> SUFFICES ASSUME Init PROVE IInv
  OBVIOUS
<1>1. Size \in Nat \ {0}
  BY RingShape DEF Init
<1>2. TypeOK
  BY <1>1 DEF Init, TypeOK, Size
<1>3. Halved /\ InOrder /\ Collected /\ Finished
  BY <1>1 DEF Init, Halved, InOrder, Distinct, Collected, Finished, Size
<1> QED BY <1>2, <1>3 DEF IInv, Init

-----------------------------------------------------------------------------
(* The binary search *)

LEMMA SearchKeeps ==
  ASSUME IInv, Search
  PROVE  IInv'
<1> DEFINE mid == (lo + hi) \div 2
<1>0. Size \in Nat \ {0} /\ points \in Rings /\ h \in Nat
  BY RingShape, InputsAssumption DEF IInv, TypeOK
<1>1. lo \in 0..Size /\ hi \in -1..(Size - 1) /\ lo <= hi /\ pc = "search"
  BY DEF IInv, TypeOK, Search
<1>2. mid \in lo..hi /\ mid \in 0..(Size - 1)
  BY <1>0, <1>1
<1>3. UNCHANGED <<points, h, r, pc, idx, i, res>>
  BY DEF Search
<1>4. \A j \in 0..(lo - 1) : Point(j).hash < h
  BY <1>1 DEF IInv, Halved
<1>5. \A j \in (hi + 1)..(Size - 1) : Point(j).hash >= h
  BY <1>1 DEF IInv, Halved
<1>6. CASE IsBefore(mid)
  <2>1. lo' = mid + 1 /\ hi' = hi
    BY <1>6 DEF Search
  <2> HIDE DEF mid
  <2>2. \A j \in 0..(lo' - 1) : Point(j).hash < h
    <3> SUFFICES ASSUME NEW j \in 0..(lo' - 1) PROVE Point(j).hash < h
      OBVIOUS
    <3>1. j \in 0..(Size - 1) /\ j <= mid
      BY <1>0, <1>2, <2>1
    <3>2. Point(j).hash <= Point(mid).hash /\ Point(j).hash \in Nat /\ Point(mid).hash \in Nat
      BY <1>0, <1>2, <3>1, RingShape
    <3> QED BY <1>0, <1>6, <3>2 DEF IsBefore
  <2>3. Halved'
    BY <1>0, <1>1, <1>2, <1>3, <1>5, <2>1, <2>2 DEF IInv, Halved, Size, Point
  <2>4. TypeOK'
    BY <1>0, <1>1, <1>2, <1>3, <2>1 DEF IInv, TypeOK, Size
  <2> QED BY <1>1, <1>3, <2>3, <2>4
          DEF IInv, InOrder, IsNextOwner, Clockwise, Point, Size, Collected, Finished
<1>7. CASE ~IsBefore(mid)
  <2>1. hi' = mid - 1 /\ lo' = lo
    BY <1>7 DEF Search
  <2> HIDE DEF mid
  <2>2. \A j \in (hi' + 1)..(Size - 1) : Point(j).hash >= h
    <3> SUFFICES ASSUME NEW j \in (hi' + 1)..(Size - 1) PROVE Point(j).hash >= h
      OBVIOUS
    <3>1. j \in 0..(Size - 1) /\ mid <= j
      BY <1>0, <1>2, <2>1
    <3>2. Point(mid).hash <= Point(j).hash /\ Point(j).hash \in Nat /\ Point(mid).hash \in Nat
      BY <1>0, <1>2, <3>1, RingShape
    <3> QED BY <1>0, <1>7, <3>2 DEF IsBefore
  <2>3. Halved'
    BY <1>0, <1>1, <1>2, <1>3, <1>4, <2>1, <2>2 DEF IInv, Halved, Size, Point
  <2>4. TypeOK'
    BY <1>0, <1>1, <1>2, <1>3, <2>1 DEF IInv, TypeOK, Size
  <2> QED BY <1>1, <1>3, <2>3, <2>4
          DEF IInv, InOrder, IsNextOwner, Clockwise, Point, Size, Collected, Finished
<1> QED BY <1>6, <1>7

LEMMA FoundKeeps ==
  ASSUME IInv, Found
  PROVE  IInv'
<1>0. Size \in Nat \ {0}
  BY RingShape DEF IInv, TypeOK
<1>1. /\ lo \in 0..Size /\ hi = lo - 1 /\ res = <<>>
      /\ \A j \in 0..(lo - 1) : Point(j).hash < h
      /\ \A j \in lo..(Size - 1) : Point(j).hash >= h
  BY <1>0 DEF IInv, TypeOK, Found, Halved
<1>2. idx' = Wrapped(lo) /\ i' = idx' /\ pc' = "walk" /\ res' = <<>>
        /\ UNCHANGED <<points, h, r, lo, hi>>
  BY <1>1 DEF Found
<1>3. idx' \in 0..(Size - 1)
  BY <1>0, <1>1, <1>2 DEF Wrapped
<1>4. TypeOK'
  BY <1>2, <1>3 DEF IInv, TypeOK, Size
<1>5. IsFirstPoint(idx)'
  BY <1>0, <1>1, <1>2, <1>3 DEF Wrapped, IsFirstPoint, Point, Size
<1>6. Collected'
  <2>1. Passed' = 0
    BY <1>2, <1>3 DEF Passed
  <2>2. Len(res') = 0 /\ Limit' \in Nat
    BY <1>2, <1>4, LimitBounds, InputsAssumption, <1>0 DEF Limit, Wanted, TypeOK, Size, IInv
  <2> QED BY <2>1, <2>2 DEF Collected
<1>7. InOrder' /\ Halved' /\ Finished'
  BY <1>2 DEF InOrder, Distinct, Halved, Finished
<1> QED BY <1>4, <1>5, <1>6, <1>7 DEF IInv

-----------------------------------------------------------------------------
(* The walk *)

\* The point the walk is at.
LEMMA AtPassed ==
  ASSUME TypeOK
  PROVE  Passed \in 0..(Size - 1) /\ Clockwise(idx, Passed) = Point(i)
BY RingShape DEF TypeOK, Passed, Clockwise

\* One place on.
LEMMA NextPlace ==
  ASSUME NEW n \in Nat \ {0}, NEW j \in 0..(n - 1)
  PROVE  (j + 1) % n = IF j + 1 < n THEN j + 1 ELSE 0
<1>1. CASE j + 1 < n
  BY <1>1, SMTT(30)
<1>2. CASE j + 1 = n
  BY <1>2, SMTT(30)
<1> QED BY <1>1, <1>2

LEMMA WalkKeeps ==
  ASSUME IInv, Walk
  PROVE  IInv'
<1> DEFINE peer == Point(i).peer
           next == (i + 1) % Size
           p == Passed
<1>0. Size \in Nat \ {0} /\ points \in Rings /\ TypeOK
  BY RingShape DEF IInv, TypeOK
<1>1. i \in 0..(Size - 1) /\ idx \in 0..(Size - 1) /\ res \in Seq(Peers) /\ peer \in Peers
        /\ Len(res) \in Nat
  BY <1>0, RingShape DEF TypeOK
<1>2. pc = "walk" /\ Len(res) < Limit /\ Len(res) <= p /\ p \in 0..(Size - 1)
        /\ Clockwise(idx, p).peer = peer
        /\ \A k \in 0..(p - 1) : Clockwise(idx, k).peer \in Owners
  BY <1>0, AtPassed DEF IInv, Collected, Walk
<1>3. /\ res' = IF peer \in Owners THEN res ELSE Append(res, peer)
      /\ i' = next /\ pc' = IF next = idx THEN "done" ELSE "walk"
      /\ UNCHANGED <<points, h, r, lo, hi, idx>>
  BY DEF Walk, Around
<1>4. next = IF i + 1 < Size THEN i + 1 ELSE 0
  BY <1>0, <1>1, NextPlace
<1> HIDE DEF peer, next, p
<1>5. /\ res' \in Seq(Peers) /\ Len(res') \in Nat
      /\ Len(res') >= Len(res) /\ Len(res') <= Len(res) + 1
      /\ \A j \in 1..Len(res) : res'[j] = res[j]
  BY <1>1, <1>3
<1>6. Owners \subseteq Owners' /\ peer \in Owners'
  <2>1. Owners \subseteq Owners'
    BY <1>1, <1>5 DEF Owners
  <2>2. CASE peer \in Owners
    BY <2>1, <2>2
  <2>3. CASE peer \notin Owners
    <3>1. res' = Append(res, peer) /\ Len(res') = Len(res) + 1 /\ res'[Len(res) + 1] = peer
      BY <1>1, <1>3, <2>3
    <3> QED BY <1>1, <3>1 DEF Owners
  <2> QED BY <2>1, <2>2, <2>3
<1>7. TypeOK'
  BY <1>0, <1>1, <1>3, <1>4, <1>5 DEF TypeOK, Size
<1>8. InOrder'
  <2>1. Distinct(res')
    <3>1. Distinct(res)
      BY DEF IInv, InOrder
    <3>2. CASE peer \in Owners
      BY <1>3, <3>1, <3>2
    <3>3. CASE peer \notin Owners
      <4>1. \A j \in 1..Len(res) : res[j] # peer
        BY <3>3 DEF Owners
      <4>2. Len(res') = Len(res) + 1 /\ res'[Len(res) + 1] = peer
        BY <1>1, <1>3, <3>3
      <4> QED BY <1>1, <1>5, <3>1, <4>1, <4>2 DEF Distinct
    <3> QED BY <3>2, <3>3
  <2>2. ASSUME NEW j \in 1..Len(res'), NEW k \in 0..(Size - 1),
               Clockwise(idx, k).peer = res'[j],
               \A g \in 0..(k - 1) : \E e \in 1..(j - 1) : Clockwise(idx, g).peer = res'[e]
        PROVE  IsNextOwner(idx, j)'
    BY <1>3, <2>2 DEF IsNextOwner, Clockwise, Point, Size
  <2>3. ASSUME NEW j \in 1..Len(res)
        PROVE  IsNextOwner(idx, j)'
    <3>1. PICK k \in 0..(Size - 1) :
            /\ Clockwise(idx, k).peer = res[j]
            /\ \A g \in 0..(k - 1) : \E e \in 1..(j - 1) : Clockwise(idx, g).peer = res[e]
      BY DEF IInv, InOrder, IsNextOwner
    <3>2. j \in 1..Len(res') /\ Clockwise(idx, k).peer = res'[j]
      BY <1>1, <1>5, <3>1
    <3>3. \A g \in 0..(k - 1) : \E e \in 1..(j - 1) : Clockwise(idx, g).peer = res'[e]
      <4> SUFFICES ASSUME NEW g \in 0..(k - 1)
                   PROVE  \E e \in 1..(j - 1) : Clockwise(idx, g).peer = res'[e]
        OBVIOUS
      <4>1. PICK e \in 1..(j - 1) : Clockwise(idx, g).peer = res[e]
        BY <3>1
      <4>2. e \in 1..Len(res)
        BY <1>1
      <4> QED BY <1>5, <4>1, <4>2
    <3> QED BY <2>2, <3>2, <3>3
  <2>4. ASSUME NEW j \in 1..Len(res'), j \notin 1..Len(res)
        PROVE  IsNextOwner(idx, j)'
    <3>1. peer \notin Owners /\ j = Len(res) + 1 /\ res'[j] = peer
      BY <1>1, <1>3, <1>5, <2>4
    <3>2. ASSUME NEW g \in 0..(p - 1)
          PROVE  \E e \in 1..(j - 1) : Clockwise(idx, g).peer = res'[e]
      <4>1. PICK e \in 1..Len(res) : Clockwise(idx, g).peer = res[e]
        BY <1>2 DEF Owners
      <4>2. e \in 1..(j - 1)
        BY <1>1, <3>1
      <4> QED BY <1>5, <4>1, <4>2
    <3> QED BY <1>2, <2>2, <3>1, <3>2
  <2> QED BY <2>1, <2>3, <2>4 DEF InOrder
<1>9. \A k \in 0..p : Clockwise(idx, k).peer \in Owners'
  <2> SUFFICES ASSUME NEW k \in 0..p PROVE Clockwise(idx, k).peer \in Owners'
    OBVIOUS
  <2>1. CASE k = p
    BY <1>2, <1>6, <2>1
  <2>2. CASE k # p
    <3>1. k \in 0..(p - 1)
      BY <1>2, <2>2
    <3> QED BY <1>2, <1>6, <3>1
  <2> QED BY <2>1, <2>2
<1>10. Collected'
  <2> SUFFICES ASSUME pc' = "walk"
               PROVE  /\ Len(res') <= Passed' /\ Len(res') <= Limit'
                      /\ \A k \in 0..(Passed' - 1) : (Clockwise(idx, k).peer \in Owners)'
    BY DEF Collected
  <2>1. next # idx
    BY <1>3
  <2>2. Passed' = p + 1
    BY <1>0, <1>1, <1>3, <1>4, <2>1 DEF Passed, p, Size
  <2>3. Limit' = Limit /\ Limit \in Nat
    BY <1>0, <1>3, LimitBounds DEF Limit, Wanted, Size
  <2>4. \A k \in 0..(Passed' - 1) : (Clockwise(idx, k).peer \in Owners)'
    <3> SUFFICES ASSUME NEW k \in 0..(Passed' - 1) PROVE (Clockwise(idx, k).peer \in Owners)'
      OBVIOUS
    <3>1. k \in 0..p
      BY <1>2, <2>2
    <3> QED BY <1>3, <1>9, <3>1 DEF Clockwise, Point, Size
  <2> QED BY <1>1, <1>2, <1>5, <2>2, <2>3, <2>4
<1>11. Finished'
  <2> SUFFICES ASSUME pc' = "done"
               PROVE  /\ (Len(res) <= Wanted)'
                      /\ \A j \in 0..(Size' - 1) : (Point(j).peer \in Owners)'
    BY DEF Finished
  <2>1. next = idx
    BY <1>3
  <2>2. p = Size - 1
    BY <1>0, <1>1, <1>4, <2>1 DEF Passed, p
  <2>3. ASSUME NEW j \in 0..(Size - 1)
        PROVE  Point(j).peer \in Owners'
    <3> DEFINE k == IF j >= idx THEN j - idx ELSE j - idx + Size
    <3>1. k \in 0..p /\ Clockwise(idx, k) = Point(j)
      BY <1>0, <1>1, <2>2 DEF Clockwise
    <3> QED BY <1>9, <3>1
  <2>4. Len(res') <= Wanted /\ Wanted' = Wanted
    BY <1>0, <1>1, <1>2, <1>3, <1>5, LimitBounds DEF Wanted
  <2> QED BY <1>3, <2>3, <2>4 DEF Point, Size
<1>12. Halved' /\ IsFirstPoint(idx)'
  <2>1. pc' # "search"
    BY <1>3
  <2>2. IsFirstPoint(idx)
    BY <1>2 DEF IInv
  <2> QED BY <1>3, <2>1, <2>2 DEF Halved, IsFirstPoint, Point, Size
<1> QED BY <1>7, <1>8, <1>10, <1>11, <1>12 DEF IInv

\* Enough owners were found before the walk was round: as many as are wanted.
LEMMA EnoughKeeps ==
  ASSUME IInv, Enough
  PROVE  IInv'
<1>0. Size \in Nat \ {0} /\ TypeOK /\ Len(res) \in Nat
  BY RingShape DEF IInv, TypeOK
<1>1. pc = "walk" /\ pc' = "done" /\ UNCHANGED <<points, h, r, lo, hi, idx, i, res>>
  BY DEF Enough
<1>2. Len(res) = Wanted
  <2>1. Len(res) <= Passed /\ Passed <= Size - 1 /\ Len(res) = Limit
    BY <1>0, <1>1, AtPassed, LimitBounds DEF IInv, Collected, Enough
  <2> QED BY <1>0, <2>1, AtPassed, LimitBounds DEF Limit
<1>3. TypeOK'
  BY <1>1 DEF IInv, TypeOK, Size
<1>4. Finished'
  BY <1>0, <1>1, <1>2, LimitBounds DEF Finished, Wanted
<1> QED BY <1>1, <1>3, <1>4
        DEF IInv, Halved, InOrder, IsNextOwner, Clockwise, Point, Size, Collected, IsFirstPoint

LEMMA Invariance == Spec => []IInv
<1>1. IInv /\ UNCHANGED vars => IInv'
  BY DEF vars, IInv, TypeOK, Halved, InOrder, IsNextOwner, Clockwise, Point, Size, Collected,
         Owners, Finished, Wanted, Limit, Passed, IsFirstPoint
<1>2. IInv /\ [Next]_vars => IInv'
  BY <1>1, SearchKeeps, FoundKeeps, WalkKeeps, EnoughKeeps DEF Next
<1> QED BY InitInvariant, <1>2, PTL DEF Spec

-----------------------------------------------------------------------------
(* The theorems *)

\* No list is indexed out of its range, at any size of the ring (queue_node.py:57-75).
THEOREM RingTypeOK == Spec => []TypeOK
<1>1. IInv => TypeOK
  BY DEF IInv
<1> QED BY Invariance, <1>1, PTL

\* The owners of a topic and key are the first distinct peers clockwise from their
\* hash, as many as are wanted or all of them (queue_node.py:51-76).
THEOREM OwnersAreTheFirst == Spec => []OwnersAreFirst
<1>1. IInv => OwnersAreFirst
  <2> SUFFICES ASSUME IInv, pc = "done" PROVE OwnersAreFirst
    BY DEF OwnersAreFirst
  <2>1. idx \in 0..(Size - 1) /\ IsFirstPoint(idx)
    BY DEF IInv, TypeOK
  <2> QED BY <2>1 DEF IInv, InOrder, Distinct, Finished, OwnersAreFirst
<1> QED BY Invariance, <1>1, PTL

-----------------------------------------------------------------------------
(* The turns of the loops *)

\* A turn of the search keeps at most half of the points.
LEMMA SearchHalves ==
  ASSUME IInv, Search
  PROVE  TurnsLeft' \in 0..(TurnsLeft - 1) /\ hi' - lo' + 1 <= (hi - lo + 1) \div 2
<1> DEFINE mid == (lo + hi) \div 2
<1>1. lo \in Int /\ hi \in Int /\ lo <= hi /\ Size \in Nat \ {0} /\ pc = "search" /\ points' = points /\ pc' = pc
  BY RingShape DEF IInv, TypeOK, Search
<1>2. mid \in lo..hi /\ hi - mid <= (hi - lo + 1) \div 2 /\ mid - lo <= (hi - lo + 1) \div 2
  BY <1>1
<1>3. \/ lo' = mid + 1 /\ hi' = hi
      \/ hi' = mid - 1 /\ lo' = lo
  BY DEF Search
<1> HIDE DEF mid
<1>4. hi' - lo' + 1 \in 0..(hi - lo) /\ hi' - lo' + 1 <= (hi - lo + 1) \div 2
  BY <1>1, <1>2, <1>3
<1>5. TurnsLeft = (hi - lo + 1) + Size + 2 /\ TurnsLeft' = (hi' - lo' + 1) + Size + 2
  BY <1>1 DEF TurnsLeft, Size
<1>6. TurnsLeft' \in 0..(TurnsLeft - 1)
  BY <1>1, <1>4, <1>5
<1> QED BY <1>4, <1>6

\* A turn of the walk passes one point more, or is the last.
LEMMA WalkPasses ==
  ASSUME IInv, Walk
  PROVE  TurnsLeft' \in 0..(TurnsLeft - 1) /\ pc' # "search"
<1> DEFINE next == (i + 1) % Size
<1>1. Size \in Nat \ {0} /\ i \in 0..(Size - 1) /\ idx \in 0..(Size - 1) /\ Passed \in 0..(Size - 1)
  BY RingShape, AtPassed DEF IInv, TypeOK
<1>2. /\ pc = "walk" /\ i' = next /\ pc' = IF next = idx THEN "done" ELSE "walk"
      /\ idx' = idx /\ Size' = Size
  BY DEF Walk, Around, Size
<1>3. next = IF i + 1 < Size THEN i + 1 ELSE 0
  BY <1>1, NextPlace
<1> HIDE DEF next
<1>4. TurnsLeft = Size - Passed + 1
  BY <1>2 DEF TurnsLeft
<1>5. CASE next = idx
  <2>1. TurnsLeft' = 0 /\ pc' # "search"
    BY <1>2, <1>5 DEF TurnsLeft
  <2> QED BY <2>1, <1>1, <1>4
<1>6. CASE next # idx
  <2>1. TurnsLeft' = Size - Passed' + 1 /\ pc' # "search"
    BY <1>2, <1>6 DEF TurnsLeft
  <2>2. Passed' = Passed + 1
    BY <1>1, <1>2, <1>3, <1>6 DEF Passed
  <2> QED BY <2>1, <2>2, <1>1, <1>4
<1> QED BY <1>5, <1>6

LEMMA FoundCounts ==
  ASSUME IInv, Found
  PROVE  TurnsLeft' \in 0..(TurnsLeft - 1) /\ pc' # "search"
<1>1. /\ pc = "search" /\ pc' = "walk" /\ idx' = i' /\ Size' = Size
      /\ Size \in Nat \ {0} /\ lo \in Int /\ hi \in Int /\ lo <= hi + 1
      /\ idx' \in Int
  BY RingShape DEF Found, IInv, TypeOK, Halved, Size, Wrapped
<1>2. TurnsLeft = (hi - lo + 1) + Size + 2
  BY <1>1 DEF TurnsLeft
<1>3. TurnsLeft' = Size - Passed' + 1 /\ Passed' = 0
  BY <1>1 DEF TurnsLeft, Passed
<1> QED BY <1>1, <1>2, <1>3

LEMMA EnoughEnds ==
  ASSUME IInv, Enough
  PROVE  TurnsLeft' \in 0..(TurnsLeft - 1) /\ pc' # "search"
<1>1. pc = "walk" /\ pc' = "done" /\ Size \in Nat \ {0} /\ Passed \in 0..(Size - 1)
  BY RingShape, AtPassed DEF IInv, TypeOK, Enough
<1>2. TurnsLeft = Size - Passed + 1 /\ TurnsLeft' = 0
  BY <1>1 DEF TurnsLeft
<1> QED BY <1>1, <1>2

\* owners() ends on every ring: it makes at most as many turns as the ring has
\* points and the search halvings of them, whatever it finds (queue_node.py:58-75).
THEOREM RingEveryTurnCounts == Spec => EveryTurnCounts
<1>1. IInv /\ [Next]_vars =>
        [/\ TurnsLeft' \in 0..(TurnsLeft - 1)
         /\ pc' = "search" => hi' - lo' + 1 <= (hi - lo + 1) \div 2]_vars
  BY SearchHalves, WalkPasses, FoundCounts, EnoughEnds DEF Next
<1> QED BY Invariance, <1>1, PTL DEF Spec, EveryTurnCounts

=============================================================================
