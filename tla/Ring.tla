-------------------------------- MODULE Ring --------------------------------
(***************************************************************************)
(* The consistent-hash ring of src/src/nodes/queue_node.py (class Ring):   *)
(* owners() looks for the first point at or after a hash with a binary     *)
(* search, then walks the ring for the owners of a topic and key.  One     *)
(* action is one turn of one of its two loops.  Indexes count from 0, as   *)
(* in the code: Point(i) is self.points[i].                                *)
(*                                                                         *)
(* Hashes are only compared.  Two points may have the same one.            *)
(***************************************************************************)
EXTENDS Integers, Sequences

CONSTANTS Peers,    \* cluster_peers
          Rings,    \* the lists of points considered
          Hashes,   \* the hashes of topics and keys considered
          Factors   \* the replica factors considered

Points == [hash : Nat, peer : Peers]

\* self.points.sort(...).  There is a point: a node is always its own peer.
ASSUME RingsAssumption ==
  \A ring \in Rings :
    /\ ring \in Seq(Points) /\ ring # <<>>
    /\ \A a, b \in 1..Len(ring) : a <= b => ring[a].hash <= ring[b].hash
ASSUME InputsAssumption == Hashes \subseteq Nat /\ Factors \subseteq Int

VARIABLES points, h, r,    \* the ring, the hash looked for, the replica factor
          pc,              \* "search", "walk" or "done"
          lo, hi,          \* the binary search
          idx, i,          \* the first point, the next one of the walk
          res              \* the owners found

vars == <<points, h, r, pc, lo, hi, idx, i, res>>

Size == Len(points)
Point(j) == points[j + 1]
Owners == {res[j] : j \in 1..Len(res)}   \* also the set `seen' of the code

\* r <= 0 counts as 1.
Wanted == IF r <= 0 THEN 1 ELSE r
Limit == IF Wanted < Size THEN Wanted ELSE Size

Init ==
  /\ points \in Rings /\ h \in Hashes /\ r \in Factors
  /\ pc = "search"
  /\ lo = 0 /\ hi = Len(points) - 1
  /\ idx = 0 /\ i = 0 /\ res = <<>>

\* Mutated form of IsBefore: the first point after the hash is looked for.
IsBeforeOrAt(j) == Point(j).hash <= h

IsBefore(j) == Point(j).hash < h

Search ==
  LET mid == (lo + hi) \div 2 IN
  /\ pc = "search" /\ lo <= hi
  /\ IF IsBefore(mid) THEN lo' = mid + 1 /\ UNCHANGED hi
                      ELSE hi' = mid - 1 /\ UNCHANGED lo
  /\ UNCHANGED <<points, h, r, pc, idx, i, res>>

\* Mutated form of Wrapped: past the last point is not the first one.
Unwrapped(j) == j

Wrapped(j) == IF j < Size THEN j ELSE 0

Found ==
  /\ pc = "search" /\ lo > hi
  /\ pc' = "walk"
  /\ idx' = Wrapped(lo) /\ i' = Wrapped(lo)
  /\ UNCHANGED <<points, h, r, lo, hi, res>>

\* Mutated form of Around: the walk does not stop where it began.
AroundAgain(next) == FALSE

Around(next) == next = idx

Walk ==
  LET next == (i + 1) % Size
      peer == Point(i).peer IN
  /\ pc = "walk" /\ Len(res) < Limit
  /\ res' = IF peer \in Owners THEN res ELSE Append(res, peer)
  /\ i' = next
  /\ pc' = IF Around(next) THEN "done" ELSE "walk"
  /\ UNCHANGED <<points, h, r, lo, hi, idx>>

Enough ==
  /\ pc = "walk" /\ Len(res) >= Limit
  /\ pc' = "done"
  /\ UNCHANGED <<points, h, r, lo, hi, idx, i, res>>

Next == Search \/ Found \/ Walk \/ Enough

Spec == Init /\ [][Next]_vars

-----------------------------------------------------------------------------
(* Properties *)

\* The types, and that no list is indexed out of its range.
TypeOK ==
  /\ points \in Rings /\ h \in Hashes /\ r \in Factors
  /\ pc \in {"search", "walk", "done"}
  /\ lo \in 0..Size /\ hi \in -1..(Size - 1)
  /\ idx \in 0..(Size - 1) /\ i \in 0..(Size - 1)
  /\ res \in Seq(Peers)

\* The first point clockwise from h: the only one at or after h with none before
\* it, or the first of all when every point is before h.
IsFirstPoint(f) ==
  \/ Point(f).hash >= h /\ \A j \in 0..(f - 1) : Point(j).hash < h
  \/ f = 0 /\ \A j \in 0..(Size - 1) : Point(j).hash < h

\* The point k places clockwise from f.
Clockwise(f, k) == Point(IF f + k < Size THEN f + k ELSE f + k - Size)

\* The j-th owner is the first peer met, clockwise from f, after the earlier owners.
IsNextOwner(f, j) ==
  \E k \in 0..(Size - 1) :
    /\ Clockwise(f, k).peer = res[j]
    /\ \A g \in 0..(k - 1) : \E e \in 1..(j - 1) : Clockwise(f, g).peer = res[e]

\* The owners are the first distinct peers clockwise from the hash, as many as are
\* wanted, or all the peers of the ring: whatever the search meets (equal hashes, a
\* hash past the last point), wherever the walk wraps around, and with a replica
\* factor of 0 or above the number of peers.
OwnersAreFirst ==
  pc = "done" =>
    /\ \A j, e \in 1..Len(res) : j # e => res[j] # res[e]
    /\ Len(res) <= Wanted
    /\ Len(res) = Wanted \/ \A j \in 0..(Size - 1) : Point(j).peer \in Owners
    /\ \E f \in 0..(Size - 1) :
         IsFirstPoint(f) /\ \A j \in 1..Len(res) : IsNextOwner(f, j)

\* The points the walk has passed, and the turns of both loops left at most.
Passed == IF i >= idx THEN i - idx ELSE i - idx + Size
TurnsLeft == CASE pc = "search" -> (hi - lo + 1) + Size + 2
               [] pc = "walk" -> Size - Passed + 1
               [] pc = "done" -> 0

\* Both loops end, as every turn counts: a turn of the search leaves at most half
\* of the points it had, and the walk passes no point twice (queue_node.py:58-75).
EveryTurnCounts ==
  [][/\ TurnsLeft' \in 0..(TurnsLeft - 1)
     /\ pc' = "search" => hi' - lo' + 1 <= (hi - lo + 1) \div 2]_vars

=============================================================================
