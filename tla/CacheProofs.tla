-------------------------- MODULE CacheProofs --------------------------
(***************************************************************************)
(* Proofs about CacheCoherence, for any nodes, keys, calls, capacity and   *)
(* number of writes and failures.  CacheInv says, of every copy and of     *)
(* every copy still on its way in a request, which message will remove it  *)
(* if it is stale, and of every two copies in M, which one will part them. *)
(***************************************************************************)
EXTENDS CacheCoherence, SequenceTheorems, TLAPS

-----------------------------------------------------------------------------
(* The invariant *)

\* A value was written.
WritesHaveValues == \A i \in Calls : call[i].step \in {"set", "put"} => call[i].value # 0

StoreIsLatest == \A k \in Keys : store[k] \in {0, latest[k]}

\* A writer that will invalidate the copy of k at n, by its own put or its message.
Sends(j, n, k) ==
  /\ call[j].step \in {"put", "publish"} /\ call[j].value # 0 /\ call[j].key = k
  /\ call[j].step = "put" \/ call[j].node # n
Lost(n, k) == k \in unsent \/ <<n, k>> \in missed
Explained(n, k, S) == Pending(n, k) \/ Lost(n, k) \/ \E j \in S : Sends(j, n, k)

EntriesExplained ==
  \A n \in Nodes : \A e \in Entries(n) :
    e.value = latest[e.key] \/ e.raced \/ Explained(n, e.key, Calls)

\* What a request is about to put is explained by others than itself.
CallsExplained ==
  \A i \in Calls, n \in Nodes, k \in Keys :
    call[i].step \in {"put", "pttl", "fill"} /\ call[i].node = n /\ call[i].key = k =>
      call[i].value = latest[k] \/ call[i].raced \/ Explained(n, k, Calls \ {i})

\* A message that parts n and m: it comes from one and goes to the other.
Parting(n, m, k) ==
  \/ Pending(n, k) \/ Pending(m, k) \/ Lost(n, k) \/ Lost(m, k)
  \/ \E j \in Calls : /\ call[j].step = "publish" /\ call[j].value # 0
                      /\ call[j].key = k /\ call[j].node \in {n, m}
OwnersPart ==
  \A n, m \in Nodes : \A e \in Entries(n), f \in Entries(m) :
    n # m /\ e.key = f.key /\ e.state = "M" /\ f.state = "M" => Parting(n, m, e.key)

CacheInv ==
  /\ TypeOK /\ WritesHaveValues /\ LruBounded
  /\ StoreIsLatest /\ EntriesExplained /\ CallsExplained /\ OwnersPart

-----------------------------------------------------------------------------
(* Lists *)

OneEach(q) == \A i, j \in 1..Len(q) : q[i].key = q[j].key => i = j

LEMMA WithoutOthers ==
  ASSUME NEW q \in Seq(EntryOf), OneEach(q), NEW k
  PROVE  /\ Without(q, k) \in Seq(EntryOf) /\ OneEach(Without(q, k))
         /\ Elements(Without(q, k)) = {e \in Elements(q) : e.key # k}
         /\ Len(Without(q, k)) = IF Holds(q, k) THEN Len(q) - 1 ELSE Len(q)
<1>1. Len(q) \in Nat /\ \A i \in 1..Len(q) : q[i] \in EntryOf
  BY LenProperties, ElementOfSeq
<1>2. CASE ~Holds(q, k)
  <2>1. Without(q, k) = q
    BY <1>2 DEF Without
  <2>2. \A e \in Elements(q) : e.key # k
    BY <1>2 DEF Elements, Holds
  <2>3. Elements(q) = {e \in Elements(q) : e.key # k}
    BY <2>2
  <2> QED BY <2>1, <2>3, <1>2
<1>3. CASE Holds(q, k)
  <2> DEFINE p == Place(q, k)
             n == Len(q) - 1
             r == [j \in 1..n |-> q[IF j < p THEN j ELSE j + 1]]
  <2>1. p \in 1..Len(q) /\ q[p].key = k
    BY <1>3 DEF Holds, Place
  <2> HIDE DEF p
  <2>2. n \in Nat /\ \A j \in 1..n : (IF j < p THEN j ELSE j + 1) \in 1..Len(q) \ {p}
    BY <2>1, <1>1
  <2>3. Without(q, k) = r
    BY <1>3 DEF Without, p
  <2>4. r \in Seq(EntryOf) /\ Len(r) = n
    <3>1. r \in [1..n -> EntryOf]
      BY <2>2, <1>1
    <3> HIDE DEF r, n
    <3>2. r \in Seq(EntryOf)
      BY <3>1, <2>2, SeqDef
    <3>3. DOMAIN r = 1..n /\ DOMAIN r = 1..Len(r) /\ Len(r) \in Nat
      BY <3>1, <3>2, LenProperties
    <3>4. Len(r) = n
      BY <3>3, <2>2
    <3> QED BY <3>2, <3>4
  <2>5. \A j \in 1..n : r[j] = q[IF j < p THEN j ELSE j + 1]
    OBVIOUS
  <2>6. \A i \in 1..Len(q) \ {p} : \E j \in 1..n : r[j] = q[i]
    <3> SUFFICES ASSUME NEW i \in 1..Len(q) \ {p} PROVE \E j \in 1..n : r[j] = q[i]
      OBVIOUS
    <3>1. CASE i < p
      <4>1. i \in 1..n
        BY <3>1, <2>1, <1>1
      <4> QED BY <4>1, <3>1, <2>5
    <3>2. CASE ~(i < p)
      <4>1. i - 1 \in 1..n /\ ~(i - 1 < p) /\ i - 1 + 1 = i
        BY <3>2, <2>1, <1>1
      <4> QED BY <4>1, <2>5
    <3> QED BY <3>1, <3>2
  <2> HIDE DEF r, n
  <2>7. \A i \in 1..Len(q) : q[i].key = k <=> i = p
    BY <2>1 DEF OneEach
  <2>8. Elements(r) = {e \in Elements(q) : e.key # k}
    <3>1. \A e \in Elements(r) : e \in Elements(q) /\ e.key # k
      BY <2>4, <2>5, <2>2, <2>7 DEF Elements
    <3>2. \A e \in Elements(q) : e.key # k => e \in Elements(r)
      <4> SUFFICES ASSUME NEW i \in 1..Len(q), q[i].key # k PROVE q[i] \in Elements(r)
        BY DEF Elements
      <4>1. PICK j \in 1..n : r[j] = q[i]
        BY <2>6, <2>7
      <4> QED BY <4>1, <2>4 DEF Elements
    <3> QED BY <3>1, <3>2
  <2>9. OneEach(r)
    <3> SUFFICES ASSUME NEW i \in 1..n, NEW j \in 1..n, r[i].key = r[j].key PROVE i = j
      BY <2>4 DEF OneEach
    <3>1. (IF i < p THEN i ELSE i + 1) = (IF j < p THEN j ELSE j + 1)
      BY <2>5, <2>2 DEF OneEach
    <3> QED BY <3>1, <2>1, <2>2
  <2> QED BY <2>3, <2>4, <2>8, <2>9, <1>3 DEF n
<1> QED BY <1>2, <1>3

LEMMA AppendOthers ==
  ASSUME NEW q \in Seq(EntryOf), OneEach(q), NEW e \in EntryOf,
         \A x \in Elements(q) : x.key # e.key
  PROVE  /\ Append(q, e) \in Seq(EntryOf) /\ OneEach(Append(q, e))
         /\ Elements(Append(q, e)) = Elements(q) \cup {e}
         /\ Len(Append(q, e)) = Len(q) + 1
<1> DEFINE r == Append(q, e)
<1>1. /\ Len(q) \in Nat /\ r \in Seq(EntryOf) /\ Len(r) = Len(q) + 1
      /\ \A i \in 1..Len(q) : r[i] = q[i]
      /\ r[Len(q) + 1] = e
  BY LenProperties, AppendProperties
<1> HIDE DEF r
<1>2. \A i \in 1..Len(r) : i \in 1..Len(q) \/ i = Len(q) + 1
  BY <1>1
<1>3. \A i \in 1..Len(q) : r[i] = q[i] /\ r[i].key # e.key
  BY <1>1 DEF Elements
<1>4. OneEach(r)
  <2> SUFFICES ASSUME NEW i \in 1..Len(r), NEW j \in 1..Len(r), r[i].key = r[j].key
               PROVE  i = j
    BY DEF OneEach
  <2>1. CASE i \in 1..Len(q) /\ j \in 1..Len(q)
    BY <2>1, <1>3 DEF OneEach
  <2>2. CASE i = Len(q) + 1 \/ j = Len(q) + 1
    BY <2>2, <1>1, <1>2, <1>3
  <2> QED BY <2>1, <2>2, <1>2
<1>5. Elements(r) \subseteq Elements(q) \cup {e}
  BY <1>1, <1>2, <1>3 DEF Elements
<1>6. Elements(q) \cup {e} \subseteq Elements(r)
  <2>1. Len(q) + 1 \in 1..Len(r) /\ \A i \in 1..Len(q) : i \in 1..Len(r)
    BY <1>1
  <2> QED BY <2>1, <1>1 DEF Elements
<1> QED BY <1>1, <1>4, <1>5, <1>6 DEF r

LEMMA TailOthers ==
  ASSUME NEW q \in Seq(EntryOf), OneEach(q), q # <<>>
  PROVE  /\ Tail(q) \in Seq(EntryOf) /\ OneEach(Tail(q))
         /\ Elements(Tail(q)) \subseteq Elements(q)
         /\ Len(Tail(q)) = Len(q) - 1
<1> DEFINE r == Tail(q)
<1>1. /\ Len(q) \in Nat \ {0} /\ r \in Seq(EntryOf) /\ Len(r) = Len(q) - 1
      /\ \A i \in 1..Len(r) : r[i] = q[i + 1]
  BY EmptySeq, LenProperties, HeadTailProperties
<1> HIDE DEF r
<1>2. \A i \in 1..Len(r) : i + 1 \in 1..Len(q)
  BY <1>1
<1>3. OneEach(r)
  <2> SUFFICES ASSUME NEW i \in 1..Len(r), NEW j \in 1..Len(r), r[i].key = r[j].key
               PROVE  i = j
    BY DEF OneEach
  <2>1. i + 1 = j + 1
    BY <1>1, <1>2 DEF OneEach
  <2> QED BY <2>1, <1>1
<1> QED BY <1>1, <1>2, <1>3 DEF r, Elements

\* LRU.put keeps the bound, one copy of each key, and nothing old of its key.
LEMMA PutOthers ==
  ASSUME NEW q \in Seq(EntryOf), OneEach(q), Len(q) <= Capacity, NEW e \in EntryOf
  PROVE  /\ Put(q, e) \in Seq(EntryOf) /\ OneEach(Put(q, e)) /\ Len(Put(q, e)) <= Capacity
         /\ \A x \in Elements(Put(q, e)) : x = e \/ (x \in Elements(q) /\ x.key # e.key)
<1>1. Len(q) \in Nat /\ Capacity \in Nat \ {0}
  BY LenProperties, CapacityAssumption
<1>2. CASE Holds(q, e.key)
  <2> DEFINE r == Without(q, e.key)
  <2>1. /\ r \in Seq(EntryOf) /\ OneEach(r) /\ Len(r) = Len(q) - 1
        /\ Elements(r) = {x \in Elements(q) : x.key # e.key}
    BY <1>2, WithoutOthers
  <2> HIDE DEF r
  <2>2. /\ Append(r, e) \in Seq(EntryOf) /\ OneEach(Append(r, e))
        /\ Elements(Append(r, e)) = Elements(r) \cup {e} /\ Len(Append(r, e)) = Len(r) + 1
    BY <2>1, AppendOthers
  <2>3. Put(q, e) = Append(r, e)
    BY <1>2 DEF Put, r
  <2> QED BY <2>1, <2>2, <2>3, <1>1
<1>3. CASE ~Holds(q, e.key)
  <2> DEFINE r == RoomFor(q)
  <2>1. \A x \in Elements(q) : x.key # e.key
    BY <1>3 DEF Holds, Elements
  <2>2. r \in Seq(EntryOf) /\ OneEach(r) /\ Len(r) < Capacity /\ Elements(r) \subseteq Elements(q)
    <3>1. CASE Len(q) >= Capacity
      <4>1. q # <<>>
        BY <3>1, <1>1, EmptySeq
      <4>2. r = Tail(q)
        BY <3>1 DEF RoomFor
      <4> QED BY <4>1, <4>2, <1>1, TailOthers
    <3>2. CASE ~(Len(q) >= Capacity)
      BY <3>2, <1>1 DEF RoomFor
    <3> QED BY <3>1, <3>2
  <2> HIDE DEF r
  <2>3. \A x \in Elements(r) : x.key # e.key
    BY <2>1, <2>2
  <2>4. /\ Append(r, e) \in Seq(EntryOf) /\ OneEach(Append(r, e))
        /\ Elements(Append(r, e)) = Elements(r) \cup {e} /\ Len(Append(r, e)) = Len(r) + 1
    BY <2>2, <2>3, AppendOthers
  <2>5. Len(r) \in Nat
    BY <2>2, LenProperties
  <2>6. Put(q, e) = Append(r, e)
    BY <1>3 DEF Put, r
  <2> QED BY <2>1, <2>2, <2>4, <2>5, <2>6, <1>1
<1> QED BY <1>2, <1>3

\* LRU.get changes the order only.
LEMMA TouchSame ==
  ASSUME NEW q \in Seq(EntryOf), OneEach(q), NEW e \in Elements(q)
  PROVE  /\ Touch(q, e) \in Seq(EntryOf) /\ OneEach(Touch(q, e))
         /\ Len(Touch(q, e)) = Len(q) /\ Elements(Touch(q, e)) \subseteq Elements(q)
<1> DEFINE r == Without(q, e.key)
<1>1. Len(q) \in Nat /\ e \in EntryOf /\ Holds(q, e.key)
  BY LenProperties, ElementOfSeq DEF Elements, Holds
<1>2. /\ r \in Seq(EntryOf) /\ OneEach(r) /\ Len(r) = Len(q) - 1
      /\ Elements(r) = {x \in Elements(q) : x.key # e.key}
  BY <1>1, WithoutOthers
<1> HIDE DEF r
<1>3. /\ Append(r, e) \in Seq(EntryOf) /\ OneEach(Append(r, e))
      /\ Elements(Append(r, e)) = Elements(r) \cup {e} /\ Len(Append(r, e)) = Len(r) + 1
  BY <1>1, <1>2, AppendOthers
<1>4. Touch(q, e) = Append(r, e)
  BY DEF Touch, r
<1> QED BY <1>1, <1>2, <1>3, <1>4

-----------------------------------------------------------------------------
(* What a step does to the caches *)

LEMMA BoundedLists ==
  ASSUME TypeOK, LruBounded, NEW n \in Nodes
  PROVE  /\ cache[n] \in Seq(EntryOf) /\ OneEach(cache[n]) /\ Len(cache[n]) <= Capacity
         /\ \A e \in Entries(n) : e \in EntryOf
<1>1. cache[n] \in Seq(EntryOf)
  BY DEF TypeOK
<1>2. \A i \in 1..Len(cache[n]) : cache[n][i] \in EntryOf
  BY <1>1, ElementOfSeq
<1> QED BY <1>1, <1>2 DEF LruBounded, OneEach, Entries, Elements

LEMMA NewList ==
  ASSUME TypeOK, LruBounded, NEW n \in Nodes, NEW q \in Seq(EntryOf), OneEach(q), Len(q) <= Capacity,
         cache' = [cache EXCEPT ![n] = q]
  PROVE  /\ cache' \in [Nodes -> Seq(EntryOf)] /\ LruBounded'
         /\ Entries(n)' = Elements(q)
         /\ \A m \in Nodes \ {n} : Entries(m)' = Entries(m)
<1>1. cache \in [Nodes -> Seq(EntryOf)]
  BY DEF TypeOK
<1>2. cache'[n] = q /\ \A m \in Nodes \ {n} : cache'[m] = cache[m]
  BY <1>1
<1>3. cache' \in [Nodes -> Seq(EntryOf)]
  BY <1>1
<1>4. LruBounded'
  <2> SUFFICES ASSUME NEW m \in Nodes
               PROVE  /\ Len(cache'[m]) <= Capacity
                      /\ \A i, j \in 1..Len(cache'[m]) : cache'[m][i].key = cache'[m][j].key => i = j
    BY DEF LruBounded
  <2>1. CASE m = n
    BY <2>1, <1>2 DEF OneEach
  <2>2. CASE m # n
    BY <2>2, <1>2 DEF LruBounded
  <2> QED BY <2>1, <2>2
<1> QED BY <1>2, <1>3, <1>4 DEF Entries, Elements

LEMMA SameLists ==
  ASSUME TypeOK, LruBounded, cache' = cache
  PROVE  /\ cache' \in [Nodes -> Seq(EntryOf)] /\ LruBounded'
         /\ \A n \in Nodes : Entries(n)' = Entries(n)
BY DEF TypeOK, LruBounded, Entries, Elements

LEMMA DroppedLists ==
  ASSUME TypeOK, LruBounded, NEW n \in Nodes, NEW k \in Keys,
         cache' = [cache EXCEPT ![n] = Without(@, k)]
  PROVE  /\ cache' \in [Nodes -> Seq(EntryOf)] /\ LruBounded'
         /\ \A m \in Nodes : Entries(m)' \subseteq Entries(m)
         /\ \A e \in Entries(n)' : e.key # k
<1> DEFINE q == cache[n]
           r == Without(q, k)
<1>1. q \in Seq(EntryOf) /\ OneEach(q) /\ Len(q) <= Capacity /\ Len(q) \in Nat /\ Capacity \in Nat
  BY BoundedLists, LenProperties, CapacityAssumption
<1>2. /\ r \in Seq(EntryOf) /\ OneEach(r) /\ Elements(r) = {e \in Elements(q) : e.key # k}
      /\ Len(r) = IF Holds(q, k) THEN Len(q) - 1 ELSE Len(q)
  <2> HIDE DEF q
  <2> QED BY <1>1, WithoutOthers
<1>3. Len(r) <= Capacity
  <2> HIDE DEF q, r
  <2> QED BY <1>1, <1>2
<1>4. cache' = [cache EXCEPT ![n] = r]
  BY DEF TypeOK
<1>5. Elements(q) = Entries(n)
  BY DEF Entries
<1> HIDE DEF q, r
<1>6. /\ cache' \in [Nodes -> Seq(EntryOf)] /\ LruBounded'
      /\ Entries(n)' = Elements(r)
      /\ \A m \in Nodes \ {n} : Entries(m)' = Entries(m)
  BY <1>2, <1>3, <1>4, NewList
<1> QED BY <1>2, <1>5, <1>6

LEMMA PutLists ==
  ASSUME TypeOK, LruBounded, NEW n \in Nodes, NEW e \in EntryOf,
         cache' = [cache EXCEPT ![n] = Put(@, e)]
  PROVE  /\ cache' \in [Nodes -> Seq(EntryOf)] /\ LruBounded'
         /\ \A m \in Nodes \ {n} : Entries(m)' = Entries(m)
         /\ \A x \in Entries(n)' : x = e \/ (x \in Entries(n) /\ x.key # e.key)
<1> DEFINE q == cache[n]
           r == Put(q, e)
<1>1. q \in Seq(EntryOf) /\ OneEach(q) /\ Len(q) <= Capacity
  BY BoundedLists
<1>2. /\ r \in Seq(EntryOf) /\ OneEach(r) /\ Len(r) <= Capacity
      /\ \A x \in Elements(r) : x = e \/ (x \in Elements(q) /\ x.key # e.key)
  <2> HIDE DEF q
  <2> QED BY <1>1, PutOthers
<1>4. cache' = [cache EXCEPT ![n] = r]
  BY DEF TypeOK
<1>5. Elements(q) = Entries(n)
  BY DEF Entries
<1> HIDE DEF q, r
<1>6. /\ cache' \in [Nodes -> Seq(EntryOf)] /\ LruBounded'
      /\ Entries(n)' = Elements(r)
      /\ \A m \in Nodes \ {n} : Entries(m)' = Entries(m)
  BY <1>2, <1>4, NewList
<1> QED BY <1>2, <1>5, <1>6

LEMMA TouchedLists ==
  ASSUME TypeOK, LruBounded, NEW n \in Nodes, NEW e \in Entries(n),
         cache' = [cache EXCEPT ![n] = Touch(@, e)]
  PROVE  /\ cache' \in [Nodes -> Seq(EntryOf)] /\ LruBounded'
         /\ \A m \in Nodes : Entries(m)' \subseteq Entries(m)
<1> DEFINE q == cache[n]
           r == Touch(q, e)
<1>1. q \in Seq(EntryOf) /\ OneEach(q) /\ Len(q) <= Capacity
  BY BoundedLists
<1>2. Elements(q) = Entries(n)
  BY DEF Entries
<1>3. /\ r \in Seq(EntryOf) /\ OneEach(r) /\ Len(r) = Len(q)
      /\ Elements(r) \subseteq Elements(q)
  <2> HIDE DEF q
  <2> QED BY <1>1, <1>2, TouchSame
<1>4. cache' = [cache EXCEPT ![n] = r]
  BY DEF TypeOK
<1> HIDE DEF q, r
<1>6. /\ cache' \in [Nodes -> Seq(EntryOf)] /\ LruBounded'
      /\ Entries(n)' = Elements(r)
      /\ \A m \in Nodes \ {n} : Entries(m)' = Entries(m)
  BY <1>1, <1>3, <1>4, NewList
<1> QED BY <1>2, <1>3, <1>6

-----------------------------------------------------------------------------
(* What a step does to the requests *)

LEMMA BusyCall ==
  ASSUME TypeOK, NEW i \in Calls
  PROVE  /\ ~Free(i) => /\ call[i] \in Call /\ call[i].step \in Steps
                        /\ call[i].node \in Nodes /\ call[i].key \in Keys
                        /\ call[i].value \in Nat
                        /\ call[i].ttl \in BOOLEAN /\ call[i].raced \in BOOLEAN
         /\ Free(i) => call[i].step = "idle"
<1>1. call[i] \in Call \cup {NoCall}
  BY DEF TypeOK
<1> QED BY <1>1 DEF Free, NoCall, Call

\* A request whose copy may have changed under it, as Raced and Receive mark it.
Marked(j, n, k) == IF On(j, n, k) THEN [call[j] EXCEPT !.raced = TRUE] ELSE call[j]

LEMMA MarkedCall ==
  ASSUME TypeOK, NEW j \in Calls, NEW n, NEW k
  PROVE  /\ Marked(j, n, k) \in Call \cup {NoCall}
         /\ Marked(j, n, k).step = call[j].step /\ Marked(j, n, k).key = call[j].key
         /\ Marked(j, n, k).node = call[j].node /\ Marked(j, n, k).value = call[j].value
         /\ On(j, n, k) => Marked(j, n, k).raced
         /\ Marked(j, n, k) = call[j] \/ Marked(j, n, k).raced
<1>1. CASE On(j, n, k)
  <2>1. call[j] \in Call
    BY <1>1, BusyCall DEF On
  <2>2. Marked(j, n, k) = [call[j] EXCEPT !.raced = TRUE]
    BY <1>1 DEF Marked
  <2> QED BY <2>1, <2>2 DEF Call
<1>2. CASE ~On(j, n, k)
  <2>1. Marked(j, n, k) = call[j] /\ call[j] \in Call \cup {NoCall}
    BY <1>2 DEF Marked, TypeOK
  <2> QED BY <2>1, <1>2
<1> QED BY <1>1, <1>2

LEMMA NewCalls ==
  ASSUME TypeOK, WritesHaveValues, NEW i \in Calls, NEW c \in Call \cup {NoCall},
         c.step \in {"set", "put"} => c.value # 0,
         call' = [call EXCEPT ![i] = c]
  PROVE  /\ call' \in [Calls -> Call \cup {NoCall}] /\ WritesHaveValues'
         /\ call'[i] = c /\ \A j \in Calls \ {i} : call'[j] = call[j]
BY DEF TypeOK, WritesHaveValues

LEMMA MarkedCalls ==
  ASSUME TypeOK, WritesHaveValues, NEW i \in Calls, NEW c \in Call \cup {NoCall},
         NEW n \in Nodes, NEW k \in Keys,
         c.step \in {"set", "put"} => c.value # 0,
         call' = [Raced(n, k, i) EXCEPT ![i] = c]
  PROVE  /\ call' \in [Calls -> Call \cup {NoCall}] /\ WritesHaveValues'
         /\ call'[i] = c /\ \A j \in Calls \ {i} : call'[j] = Marked(j, n, k)
<1>1. \A j \in Calls \ {i} : Raced(n, k, i)[j] = Marked(j, n, k)
  BY DEF Raced, Marked
<1>2. call'[i] = c /\ \A j \in Calls \ {i} : call'[j] = Marked(j, n, k)
  BY <1>1 DEF Raced
<1>3. call' \in [Calls -> Call \cup {NoCall}]
  <2>1. DOMAIN call' = Calls /\ call' = [j \in Calls |-> call'[j]]
    BY DEF Raced
  <2>2. \A j \in Calls : call'[j] \in Call \cup {NoCall}
    BY <1>2, MarkedCall
  <2> QED BY <2>1, <2>2
<1>4. WritesHaveValues'
  BY <1>2, MarkedCall DEF WritesHaveValues
<1> QED BY <1>2, <1>3, <1>4

\* The commands of one request, each by what it makes of the request.
LEMMA AfterSet ==
  ASSUME TypeOK, NEW i \in Calls
  PROVE  [call EXCEPT ![i].step = "put", ![i].raced = FALSE]
           = [call EXCEPT ![i] = [call[i] EXCEPT !.step = "put", !.raced = FALSE]]
BY DEF TypeOK

LEMMA AfterGet ==
  ASSUME TypeOK, NEW i \in Calls, NEW v
  PROVE  [call EXCEPT ![i].step = "pttl", ![i].value = v, ![i].raced = FALSE]
           = [call EXCEPT ![i] = [call[i] EXCEPT !.step = "pttl", !.value = v, !.raced = FALSE]]
BY DEF TypeOK

LEMMA AfterPttl ==
  ASSUME TypeOK, NEW i \in Calls, NEW b
  PROVE  [call EXCEPT ![i].step = "fill", ![i].ttl = b]
           = [call EXCEPT ![i] = [call[i] EXCEPT !.step = "fill", !.ttl = b]]
BY DEF TypeOK

LEMMA AfterPut ==
  ASSUME NEW i \in Calls, NEW f
  PROVE  [f EXCEPT ![i].step = "publish"] = [f EXCEPT ![i] = [f[i] EXCEPT !.step = "publish"]]
OBVIOUS

-----------------------------------------------------------------------------
(* The commands of a put *)

Basics == TypeOK /\ WritesHaveValues /\ LruBounded /\ StoreIsLatest

LEMMA BeginPutStep ==
  ASSUME Basics, NEW i \in Calls, NEW n \in Nodes, NEW k \in Keys, NEW ttl \in BOOLEAN,
         BeginPut(i, n, k, ttl)
  PROVE  /\ Basics'
         /\ call'[i].step = "set" /\ \A j \in Calls \ {i} : call'[j] = call[j]
         /\ \A m \in Nodes : Entries(m)' = Entries(m)
<1> DEFINE d == NewCall("set", n, k, written + 1, ttl)
<1>1. written \in Nat
  BY DEF Basics, TypeOK
<1>2. d \in Call /\ d.step = "set" /\ d.value = written + 1 /\ d.value # 0
  BY <1>1 DEF NewCall, Call, Steps
<1>3. call' = [call EXCEPT ![i] = d]
  BY DEF BeginPut
<1> HIDE DEF d
<1>4. /\ call' \in [Calls -> Call \cup {NoCall}] /\ WritesHaveValues'
      /\ call'[i] = d /\ \A j \in Calls \ {i} : call'[j] = call[j]
  BY <1>2, <1>3, NewCalls DEF Basics
<1>5. /\ cache' \in [Nodes -> Seq(EntryOf)] /\ LruBounded'
      /\ \A m \in Nodes : Entries(m)' = Entries(m)
  BY SameLists DEF Basics, BeginPut
<1>6. TypeOK'
  BY <1>1, <1>4, <1>5 DEF TypeOK, Basics, BeginPut, history
<1>7. StoreIsLatest'
  BY DEF StoreIsLatest, Basics, BeginPut, history
<1> QED BY <1>2, <1>4, <1>5, <1>6, <1>7 DEF Basics

LEMMA RedisSetStep ==
  ASSUME Basics, NEW i \in Calls, RedisSet(i)
  PROVE  /\ Basics'
         /\ call[i].key \in Keys /\ call[i].value # 0
         /\ call'[i].step = "put" /\ call'[i].key = call[i].key /\ call'[i].node = call[i].node
         /\ call'[i].value = call[i].value
         /\ \A j \in Calls \ {i} : call'[j] = call[j]
         /\ \A m \in Nodes : Entries(m)' = Entries(m)
<1> DEFINE d == [call[i] EXCEPT !.step = "put", !.raced = FALSE]
<1>1. call[i] \in Call /\ call[i].key \in Keys /\ call[i].value \in Nat /\ call[i].value # 0
  BY BusyCall DEF RedisSet, Basics, WritesHaveValues
<1>2. /\ d \in Call /\ d.step = "put" /\ d.key = call[i].key /\ d.node = call[i].node
      /\ d.value = call[i].value
  BY <1>1 DEF Call, Steps
<1>3. call' = [call EXCEPT ![i] = d]
  BY AfterSet DEF RedisSet, Basics
<1> HIDE DEF d
<1>4. /\ call' \in [Calls -> Call \cup {NoCall}] /\ WritesHaveValues'
      /\ call'[i] = d /\ \A j \in Calls \ {i} : call'[j] = call[j]
  BY <1>1, <1>2, <1>3, NewCalls DEF Basics
<1>5. /\ cache' \in [Nodes -> Seq(EntryOf)] /\ LruBounded'
      /\ \A m \in Nodes : Entries(m)' = Entries(m)
  BY SameLists DEF Basics, RedisSet
<1>6. store' \in [Keys -> Nat] /\ latest' \in [Keys -> Nat] /\ expires' \in SUBSET Keys
  BY <1>1 DEF TypeOK, Basics, RedisSet
<1>7. TypeOK'
  BY <1>4, <1>5, <1>6 DEF TypeOK, Basics, RedisSet, counters
<1>8. StoreIsLatest'
  BY <1>1 DEF StoreIsLatest, Basics, RedisSet, TypeOK
<1> QED BY <1>1, <1>2, <1>4, <1>5, <1>7, <1>8 DEF Basics

LEMMA PutModifiedStep ==
  ASSUME Basics, NEW i \in Calls, PutModified(i),
         NEW n, n = call[i].node, NEW k, k = call[i].key
  PROVE  /\ Basics'
         /\ n \in Nodes /\ k \in Keys /\ call[i].value # 0
         /\ call'[i].step = "publish" /\ call'[i].key = k /\ call'[i].node = n
         /\ call'[i].value = call[i].value
         /\ \A j \in Calls \ {i} : call'[j] = Marked(j, n, k)
         /\ \A m \in Nodes \ {n} : Entries(m)' = Entries(m)
         /\ \A x \in Entries(n)' :
              \/ x.key = k /\ x.value = call[i].value /\ (x.raced <=> call[i].raced)
              \/ x \in Entries(n) /\ x.key # k
<1>1. /\ call[i] \in Call /\ n \in Nodes /\ k \in Keys
      /\ call[i].value \in Nat /\ call[i].value # 0
      /\ call[i].ttl \in BOOLEAN /\ call[i].raced \in BOOLEAN
  BY BusyCall DEF PutModified, Basics, WritesHaveValues
<1>2. PICK d : d = [call[i] EXCEPT !.step = "publish"]
  OBVIOUS
<1>3. d \in Call /\ d.step = "publish" /\ d.key = k /\ d.node = n /\ d.value = call[i].value
  BY <1>1, <1>2 DEF Call, Steps
<1>4. PICK e : e = [key |-> k, value |-> call[i].value, state |-> "M",
                    ttl |-> call[i].ttl, raced |-> call[i].raced]
  OBVIOUS
<1>5. /\ e \in EntryOf /\ e.key = k /\ e.value = call[i].value
      /\ (e.raced <=> call[i].raced)
  BY <1>1, <1>4 DEF EntryOf
<1>6. call' = [Raced(n, k, i) EXCEPT ![i] = d]
  <2>1. Raced(n, k, i)[i] = call[i]
    BY DEF Raced
  <2> QED BY <1>2, <2>1, AfterPut DEF PutModified
<1>7. cache' = [cache EXCEPT ![n] = Put(@, e)]
  BY <1>4 DEF PutModified
<1>8. /\ call' \in [Calls -> Call \cup {NoCall}] /\ WritesHaveValues'
      /\ call'[i] = d /\ \A j \in Calls \ {i} : call'[j] = Marked(j, n, k)
  BY <1>1, <1>3, <1>6, MarkedCalls DEF Basics
<1>9. /\ cache' \in [Nodes -> Seq(EntryOf)] /\ LruBounded'
      /\ \A m \in Nodes \ {n} : Entries(m)' = Entries(m)
      /\ \A x \in Entries(n)' : x = e \/ (x \in Entries(n) /\ x.key # e.key)
  BY <1>1, <1>5, <1>7, PutLists DEF Basics
<1>10. TypeOK'
  BY <1>8, <1>9 DEF TypeOK, Basics, PutModified, counters, history
<1>11. StoreIsLatest'
  BY DEF StoreIsLatest, Basics, PutModified, history
<1>12. Basics'
  BY <1>8, <1>9, <1>10, <1>11 DEF Basics
<1>13. \A x \in Entries(n)' :
         \/ x.key = k /\ x.value = call[i].value /\ (x.raced <=> call[i].raced)
         \/ x \in Entries(n) /\ x.key # k
  BY <1>5, <1>9
<1> QED BY <1>1, <1>3, <1>8, <1>9, <1>12, <1>13

LEMMA PublishStep ==
  ASSUME Basics, NEW i \in Calls, PublishInvalidation(i),
         NEW n, n = call[i].node, NEW k, k = call[i].key
  PROVE  /\ Basics'
         /\ n \in Nodes /\ k \in Keys
         /\ call'[i] = NoCall /\ \A j \in Calls \ {i} : call'[j] = call[j]
         /\ \A m \in Nodes : Entries(m)' = Entries(m)
         /\ \A m \in Nodes, l \in Keys : Pending(m, l) => Pending(m, l)'
         /\ \A m \in Nodes \ {n} : Pending(m, k)' \/ <<m, k>> \in missed'
<1>1. n \in Nodes /\ k \in Keys
  BY BusyCall DEF PublishInvalidation, Basics
<1>2. NoCall \in Call \cup {NoCall} /\ NoCall.step = "idle"
  BY DEF NoCall
<1>3. call' = [call EXCEPT ![i] = NoCall]
  BY DEF PublishInvalidation
<1>4. /\ call' \in [Calls -> Call \cup {NoCall}] /\ WritesHaveValues'
      /\ call'[i] = NoCall /\ \A j \in Calls \ {i} : call'[j] = call[j]
  BY <1>2, <1>3, NewCalls DEF Basics
<1>5. /\ cache' \in [Nodes -> Seq(EntryOf)] /\ LruBounded'
      /\ \A m \in Nodes : Entries(m)' = Entries(m)
  BY SameLists DEF Basics, PublishInvalidation
<1>6. \A m \in Nodes : inbox[m] \in [Keys -> Nat]
  BY DEF Basics, TypeOK
<1>7. \A m \in Nodes :
        inbox'[m] = IF m \in Receivers(n) THEN [inbox[m] EXCEPT ![k] = @ + 1] ELSE inbox[m]
  BY DEF PublishInvalidation
<1>8. \A m \in Nodes : /\ inbox'[m] \in [Keys -> Nat]
                       /\ \A l \in Keys : inbox[m][l] > 0 => inbox'[m][l] > 0
                       /\ m \in Receivers(n) => inbox'[m][k] > 0
  <2> SUFFICES ASSUME NEW m \in Nodes
               PROVE  /\ inbox'[m] \in [Keys -> Nat]
                      /\ \A l \in Keys : inbox[m][l] > 0 => inbox'[m][l] > 0
                      /\ m \in Receivers(n) => inbox'[m][k] > 0
    OBVIOUS
  <2>1. inbox[m] \in [Keys -> Nat] /\ \A l \in Keys : inbox[m][l] \in Nat
    BY <1>6
  <2>2. CASE m \in Receivers(n)
    <3>1. inbox'[m] = [inbox[m] EXCEPT ![k] = inbox[m][k] + 1]
      BY <2>2, <1>7
    <3> QED BY <3>1, <2>1, <1>1
  <2>3. CASE m \notin Receivers(n)
    BY <2>3, <2>1, <1>7
  <2> QED BY <2>2, <2>3
<1>9. inbox' \in [Nodes -> [Keys -> Nat]]
  <2>1. inbox' = [m \in Nodes |-> inbox'[m]]
    BY DEF PublishInvalidation
  <2> QED BY <2>1, <1>8
<1>10. missed' \in SUBSET (Nodes \X Keys)
  BY <1>1 DEF PublishInvalidation, Basics, TypeOK
<1>11. TypeOK'
  BY <1>4, <1>5, <1>9, <1>10 DEF TypeOK, Basics, PublishInvalidation, counters
<1>12. StoreIsLatest'
  BY DEF StoreIsLatest, Basics, PublishInvalidation
<1>13. \A m \in Nodes, l \in Keys : Pending(m, l) => Pending(m, l)'
  BY <1>8 DEF Pending
<1>14. \A m \in Nodes \ {n} : Pending(m, k)' \/ <<m, k>> \in missed'
  <2> SUFFICES ASSUME NEW m \in Nodes \ {n} PROVE Pending(m, k)' \/ <<m, k>> \in missed'
    OBVIOUS
  <2>1. CASE listener[m] = "on"
    <3>1. m \in Receivers(n)
      BY <2>1 DEF Receivers
    <3> QED BY <3>1, <1>8 DEF Pending
  <2>2. CASE listener[m] # "on"
    BY <2>2 DEF PublishInvalidation
  <2> QED BY <2>1, <2>2
<1> QED BY <1>1, <1>4, <1>5, <1>11, <1>12, <1>13, <1>14 DEF Basics

-----------------------------------------------------------------------------
(* The commands of a read *)

LEMMA HitStep ==
  ASSUME Basics, NEW n \in Nodes, NEW k \in Keys, Hit(n, k)
  PROVE  Basics' /\ \A m \in Nodes : Entries(m)' \subseteq Entries(m)
<1>1. PICK e \in Entries(n) : cache' = [cache EXCEPT ![n] = Touch(@, e)]
  BY DEF Hit
<1>2. UNCHANGED <<store, expires, inbox, listener, call, counters, history>>
  BY DEF Hit
<1>3. /\ cache' \in [Nodes -> Seq(EntryOf)] /\ LruBounded'
      /\ \A m \in Nodes : Entries(m)' \subseteq Entries(m)
  BY <1>1, TouchedLists DEF Basics
<1>4. TypeOK' /\ WritesHaveValues' /\ StoreIsLatest'
  BY <1>2, <1>3 DEF TypeOK, WritesHaveValues, StoreIsLatest, Basics, counters, history
<1> QED BY <1>3, <1>4 DEF Basics

LEMMA MissStep ==
  ASSUME Basics, NEW i \in Calls, NEW n \in Nodes, NEW k \in Keys, Miss(i, n, k)
  PROVE  /\ Basics'
         /\ call'[i].step = "get" /\ \A j \in Calls \ {i} : call'[j] = call[j]
         /\ \A m \in Nodes : Entries(m)' \subseteq Entries(m)
<1> DEFINE d == NewCall("get", n, k, 0, FALSE)
<1>1. d \in Call /\ d.step = "get"
  BY DEF NewCall, Call, Steps
<1>2. call' = [call EXCEPT ![i] = d]
  BY DEF Miss
<1> HIDE DEF d
<1>3. /\ call' \in [Calls -> Call \cup {NoCall}] /\ WritesHaveValues'
      /\ call'[i] = d /\ \A j \in Calls \ {i} : call'[j] = call[j]
  BY <1>1, <1>2, NewCalls DEF Basics
<1>4. cache' = [cache EXCEPT ![n] = Without(@, k)]
  BY DEF Miss
<1>5. /\ cache' \in [Nodes -> Seq(EntryOf)] /\ LruBounded'
      /\ \A m \in Nodes : Entries(m)' \subseteq Entries(m)
  BY <1>4, DroppedLists DEF Basics
<1>6. TypeOK' /\ StoreIsLatest'
  BY <1>3, <1>5 DEF TypeOK, StoreIsLatest, Basics, Miss, counters, history
<1> QED BY <1>1, <1>3, <1>5, <1>6 DEF Basics

LEMMA RedisGetStep ==
  ASSUME Basics, NEW i \in Calls, RedisGet(i)
  PROVE  /\ Basics'
         /\ \/ call'[i].step = "idle"
            \/ call'[i].step = "pttl" /\ call'[i].value = latest[call'[i].key]
         /\ \A j \in Calls \ {i} : call'[j] = call[j]
         /\ \A m \in Nodes : Entries(m)' = Entries(m)
<1>1. PICK k : k = call[i].key
  OBVIOUS
<1>2. call[i] \in Call /\ k \in Keys
  BY <1>1, BusyCall DEF RedisGet, Basics
<1>3. store[k] \in Nat /\ store[k] \in {0, latest[k]}
  BY <1>2 DEF Basics, TypeOK, StoreIsLatest
<1>4. \E d \in Call \cup {NoCall} :
        /\ d.step = "idle" \/ (d.step = "pttl" /\ d.value = latest[k] /\ d.key = k)
        /\ call' = [call EXCEPT ![i] = d]
  <2>1. CASE store[k] = 0
    <3>1. call' = [call EXCEPT ![i] = NoCall]
      BY <2>1, <1>1 DEF RedisGet
    <3>2. NoCall.step = "idle"
      BY DEF NoCall
    <3> QED BY <3>1, <3>2
  <2>2. CASE store[k] # 0
    <3>1. PICK d : d = [call[i] EXCEPT !.step = "pttl", !.value = store[k], !.raced = FALSE]
      OBVIOUS
    <3>2. d \in Call /\ d.step = "pttl" /\ d.value = store[k] /\ d.key = k
      BY <3>1, <1>1, <1>2, <1>3 DEF Call, Steps
    <3>3. call' = [call EXCEPT ![i].step = "pttl", ![i].value = store[k], ![i].raced = FALSE]
      BY <2>2, <1>1 DEF RedisGet
    <3>4. call' = [call EXCEPT ![i] = d]
      BY <3>1, <3>3, AfterGet DEF Basics
    <3>5. store[k] = latest[k]
      BY <2>2, <1>3
    <3> QED BY <3>2, <3>4, <3>5
  <2> QED BY <2>1, <2>2
<1>5. PICK d \in Call \cup {NoCall} :
        /\ d.step = "idle" \/ (d.step = "pttl" /\ d.value = latest[k] /\ d.key = k)
        /\ call' = [call EXCEPT ![i] = d]
  BY <1>4
<1>7. /\ call' \in [Calls -> Call \cup {NoCall}] /\ WritesHaveValues'
      /\ call'[i] = d /\ \A j \in Calls \ {i} : call'[j] = call[j]
  <2>1. d.step \in {"set", "put"} => d.value # 0
    BY <1>5
  <2> QED BY <1>5, <2>1, NewCalls DEF Basics
<1>8. /\ cache' \in [Nodes -> Seq(EntryOf)] /\ LruBounded'
      /\ \A m \in Nodes : Entries(m)' = Entries(m)
  BY SameLists DEF Basics, RedisGet
<1>9. TypeOK' /\ StoreIsLatest'
  BY <1>7, <1>8 DEF TypeOK, StoreIsLatest, Basics, RedisGet, counters, history
<1> QED BY <1>5, <1>7, <1>8, <1>9 DEF Basics

LEMMA RedisPttlStep ==
  ASSUME Basics, NEW i \in Calls, RedisPttl(i)
  PROVE  /\ Basics'
         /\ call'[i].step = "fill" /\ call'[i].key = call[i].key /\ call'[i].node = call[i].node
         /\ call'[i].value = call[i].value /\ call'[i].raced = call[i].raced
         /\ \A j \in Calls \ {i} : call'[j] = call[j]
         /\ \A m \in Nodes : Entries(m)' = Entries(m)
<1>1. call[i] \in Call
  BY BusyCall DEF RedisPttl, Basics
<1>2. (call[i].key \in expires) \in BOOLEAN
  OBVIOUS
<1>3. PICK d : d = [call[i] EXCEPT !.step = "fill", !.ttl = call[i].key \in expires]
  OBVIOUS
<1>4. /\ d \in Call /\ d.step = "fill" /\ d.key = call[i].key /\ d.node = call[i].node
      /\ d.value = call[i].value /\ d.raced = call[i].raced
  BY <1>1, <1>2, <1>3 DEF Call, Steps
<1>5. call' = [call EXCEPT ![i] = d]
  BY <1>3, AfterPttl DEF RedisPttl, Basics
<1>6. /\ call' \in [Calls -> Call \cup {NoCall}] /\ WritesHaveValues'
      /\ call'[i] = d /\ \A j \in Calls \ {i} : call'[j] = call[j]
  BY <1>4, <1>5, NewCalls DEF Basics
<1>7. /\ cache' \in [Nodes -> Seq(EntryOf)] /\ LruBounded'
      /\ \A m \in Nodes : Entries(m)' = Entries(m)
  BY SameLists DEF Basics, RedisPttl
<1>8. TypeOK' /\ StoreIsLatest'
  BY <1>6, <1>7 DEF TypeOK, StoreIsLatest, Basics, RedisPttl, counters, history
<1> QED BY <1>4, <1>6, <1>7, <1>8 DEF Basics

LEMMA FillStep ==
  ASSUME Basics, NEW i \in Calls, Fill(i),
         NEW n, n = call[i].node, NEW k, k = call[i].key
  PROVE  /\ Basics'
         /\ n \in Nodes /\ k \in Keys
         /\ call'[i] = NoCall /\ \A j \in Calls \ {i} : call'[j] = Marked(j, n, k)
         /\ \A m \in Nodes \ {n} : Entries(m)' = Entries(m)
         /\ \A x \in Entries(n)' :
              \/ /\ x.key = k /\ x.value = call[i].value /\ (x.raced <=> call[i].raced)
                 /\ x.state = "S"
              \/ x \in Entries(n) /\ x.key # k
<1>1. /\ call[i] \in Call /\ n \in Nodes /\ k \in Keys /\ call[i].value \in Nat
      /\ call[i].ttl \in BOOLEAN /\ call[i].raced \in BOOLEAN
  BY BusyCall DEF Fill, Basics
<1>2. NoCall \in Call \cup {NoCall} /\ NoCall.step = "idle"
  BY DEF NoCall
<1>3. PICK e : e = [key |-> k, value |-> call[i].value, state |-> "S",
                    ttl |-> call[i].ttl, raced |-> call[i].raced]
  OBVIOUS
<1>4. /\ e \in EntryOf /\ e.key = k /\ e.value = call[i].value /\ e.state = "S"
      /\ (e.raced <=> call[i].raced)
  BY <1>1, <1>3 DEF EntryOf
<1>5. call' = [Raced(n, k, i) EXCEPT ![i] = NoCall]
  BY DEF Fill
<1>6. cache' = [cache EXCEPT ![n] = Put(@, e)]
  BY <1>3 DEF Fill
<1>7. /\ call' \in [Calls -> Call \cup {NoCall}] /\ WritesHaveValues'
      /\ call'[i] = NoCall /\ \A j \in Calls \ {i} : call'[j] = Marked(j, n, k)
  BY <1>1, <1>2, <1>5, MarkedCalls DEF Basics
<1>8. /\ cache' \in [Nodes -> Seq(EntryOf)] /\ LruBounded'
      /\ \A m \in Nodes \ {n} : Entries(m)' = Entries(m)
      /\ \A x \in Entries(n)' : x = e \/ (x \in Entries(n) /\ x.key # e.key)
  BY <1>1, <1>4, <1>6, PutLists DEF Basics
<1>9. TypeOK' /\ StoreIsLatest'
  BY <1>7, <1>8 DEF TypeOK, StoreIsLatest, Basics, Fill, counters, history
<1>10. \A x \in Entries(n)' :
         \/ /\ x.key = k /\ x.value = call[i].value /\ (x.raced <=> call[i].raced)
            /\ x.state = "S"
         \/ x \in Entries(n) /\ x.key # k
  BY <1>4, <1>8
<1> QED BY <1>1, <1>7, <1>8, <1>9, <1>10 DEF Basics

-----------------------------------------------------------------------------
(* Invalidations, failures and time *)

LEMMA InvalidateStep ==
  ASSUME Basics, NEW i \in Calls, NEW n \in Nodes, NEW k \in Keys, Invalidate(i, n, k)
  PROVE  /\ Basics'
         /\ call'[i].step = "publish"
         /\ \A j \in Calls \ {i} : call'[j] = Marked(j, n, k)
         /\ \A m \in Nodes : Entries(m)' \subseteq Entries(m)
<1>0. PICK d : d = NewCall("publish", n, k, 0, FALSE)
  OBVIOUS
<1>1. d \in Call /\ d.step = "publish"
  BY <1>0 DEF NewCall, Call, Steps
<1>2. call' = [Raced(n, k, i) EXCEPT ![i] = d]
  BY <1>0 DEF Invalidate
<1>a. /\ events' = events + 1
      /\ UNCHANGED <<store, expires, inbox, listener, written, history>>
  BY DEF Invalidate
<1>3. /\ call' \in [Calls -> Call \cup {NoCall}] /\ WritesHaveValues'
      /\ call'[i] = d /\ \A j \in Calls \ {i} : call'[j] = Marked(j, n, k)
  <2>1. /\ call' \in [Calls -> Call \cup {NoCall}] /\ WritesHaveValues'
        /\ call'[i] = d
    BY <1>1, <1>2, MarkedCalls DEF Basics
  <2>2. \A j \in Calls \ {i} : call'[j] = Marked(j, n, k)
    BY <1>2 DEF Raced, Marked
  <2> QED BY <2>1, <2>2
<1>4. /\ cache' \in [Nodes -> Seq(EntryOf)] /\ LruBounded'
      /\ \A m \in Nodes : Entries(m)' \subseteq Entries(m)
  BY DroppedLists DEF Basics, Invalidate, Drop
<1>5. TypeOK' /\ StoreIsLatest'
  BY <1>a, <1>3, <1>4 DEF TypeOK, StoreIsLatest, Basics, history
<1> QED BY <1>1, <1>3, <1>4, <1>5 DEF Basics

LEMMA ReceiveStep ==
  ASSUME Basics, NEW n \in Nodes, NEW k \in Keys, Receive(n, k)
  PROVE  /\ Basics'
         /\ \A j \in Calls : call'[j] = Marked(j, n, k)
         /\ \A m \in Nodes : Entries(m)' \subseteq Entries(m)
         /\ \A e \in Entries(n)' : e.key # k
         /\ \A m \in Nodes, l \in Keys : Pending(m, l) /\ <<m, l>> # <<n, k>> => Pending(m, l)'
<1>1. \A j \in Calls : call'[j] = Marked(j, n, k)
  BY DEF Receive, Marked
<1>2. call' \in [Calls -> Call \cup {NoCall}]
  <2>1. call' = [j \in Calls |-> call'[j]]
    BY DEF Receive
  <2>2. \A j \in Calls : call'[j] \in Call \cup {NoCall}
    BY <1>1, MarkedCall DEF Basics
  <2> QED BY <2>1, <2>2
<1>3. WritesHaveValues'
  BY <1>1, MarkedCall DEF WritesHaveValues, Basics
<1>4. /\ cache' \in [Nodes -> Seq(EntryOf)] /\ LruBounded'
      /\ \A m \in Nodes : Entries(m)' \subseteq Entries(m)
      /\ \A e \in Entries(n)' : e.key # k
  BY DroppedLists DEF Basics, Receive, Drop
<1>5. /\ \A m \in Nodes : inbox[m] \in [Keys -> Nat]
      /\ inbox' = [inbox EXCEPT ![n] = [inbox[n] EXCEPT ![k] = inbox[n][k] - 1]]
      /\ inbox[n][k] \in Nat /\ inbox[n][k] > 0
  BY DEF Basics, TypeOK, Receive, Pending
<1>6. inbox' \in [Nodes -> [Keys -> Nat]]
  <2>1. inbox[n][k] - 1 \in Nat
    BY <1>5
  <2>2. [inbox[n] EXCEPT ![k] = inbox[n][k] - 1] \in [Keys -> Nat]
    BY <1>5, <2>1
  <2> QED BY <1>5, <2>2 DEF Basics, TypeOK
<1>7. \A m \in Nodes, l \in Keys : <<m, l>> # <<n, k>> => inbox'[m][l] = inbox[m][l]
  <2>1. \A m \in Nodes \ {n} : inbox'[m] = inbox[m]
    BY <1>5 DEF Basics, TypeOK
  <2>2. inbox'[n] = [inbox[n] EXCEPT ![k] = inbox[n][k] - 1]
    BY <1>5 DEF Basics, TypeOK
  <2>3. \A l \in Keys \ {k} : inbox'[n][l] = inbox[n][l]
    BY <1>5, <2>2
  <2> QED BY <2>1, <2>3
<1>8. TypeOK' /\ StoreIsLatest'
  BY <1>2, <1>4, <1>6 DEF TypeOK, StoreIsLatest, Basics, Receive, counters, history
<1> QED BY <1>1, <1>3, <1>4, <1>7, <1>8 DEF Basics, Pending

LEMMA SubscribeStep ==
  ASSUME Basics, NEW n \in Nodes, Subscribe(n)
  PROVE  Basics' /\ \A m \in Nodes : Entries(m)' = Entries(m)
<1>1. /\ cache' \in [Nodes -> Seq(EntryOf)] /\ LruBounded'
      /\ \A m \in Nodes : Entries(m)' = Entries(m)
  BY SameLists DEF Basics, Subscribe
<1>2. TypeOK' /\ WritesHaveValues' /\ StoreIsLatest'
  BY <1>1 DEF TypeOK, WritesHaveValues, StoreIsLatest, Basics, Subscribe, counters, history
<1> QED BY <1>1, <1>2 DEF Basics

LEMMA ListenerDiesStep ==
  ASSUME Basics, NEW n \in Nodes, ListenerDies(n)
  PROVE  /\ Basics'
         /\ \A m \in Nodes : Entries(m)' = Entries(m)
         /\ \A m \in Nodes, k \in Keys : Pending(m, k) => Pending(m, k)' \/ <<m, k>> \in missed'
<1>1. /\ cache' \in [Nodes -> Seq(EntryOf)] /\ LruBounded'
      /\ \A m \in Nodes : Entries(m)' = Entries(m)
  BY SameLists DEF Basics, ListenerDies
<1>2. inbox' \in [Nodes -> [Keys -> Nat]] /\ missed' \in SUBSET (Nodes \X Keys)
  BY DEF Basics, TypeOK, ListenerDies
<1>3. TypeOK' /\ WritesHaveValues' /\ StoreIsLatest'
  BY <1>1, <1>2 DEF TypeOK, WritesHaveValues, StoreIsLatest, Basics, ListenerDies
<1>4. \A m \in Nodes, k \in Keys : Pending(m, k) => Pending(m, k)' \/ <<m, k>> \in missed'
  <2> SUFFICES ASSUME NEW m \in Nodes, NEW k \in Keys, inbox[m][k] > 0
               PROVE  inbox'[m][k] > 0 \/ <<m, k>> \in missed'
    BY DEF Pending
  <2>1. CASE m = n
    BY <2>1 DEF ListenerDies
  <2>2. CASE m # n
    <3>1. inbox'[m] = inbox[m]
      BY <2>2 DEF ListenerDies, Basics, TypeOK
    <3> QED BY <3>1
  <2> QED BY <2>1, <2>2
<1> QED BY <1>1, <1>3, <1>4 DEF Basics

LEMMA CallFailsStep ==
  ASSUME Basics, NEW i \in Calls, CallFails(i)
  PROVE  /\ Basics'
         /\ call'[i] = NoCall /\ \A j \in Calls \ {i} : call'[j] = call[j]
         /\ \A m \in Nodes : Entries(m)' = Entries(m)
         /\ call[i].step \in {"put", "publish"} /\ call[i].value # 0 => call[i].key \in unsent'
<1>1. NoCall \in Call \cup {NoCall} /\ NoCall.step = "idle"
  BY DEF NoCall
<1>2. call' = [call EXCEPT ![i] = NoCall]
  BY DEF CallFails
<1>3. /\ call' \in [Calls -> Call \cup {NoCall}] /\ WritesHaveValues'
      /\ call'[i] = NoCall /\ \A j \in Calls \ {i} : call'[j] = call[j]
  BY <1>1, <1>2, NewCalls DEF Basics
<1>4. /\ cache' \in [Nodes -> Seq(EntryOf)] /\ LruBounded'
      /\ \A m \in Nodes : Entries(m)' = Entries(m)
  BY SameLists DEF Basics, CallFails
<1>5. call[i].key \in Keys
  BY BusyCall DEF Basics, CallFails
<1>6. unsent' \in SUBSET Keys
  BY <1>5 DEF CallFails, Basics, TypeOK
<1>7. TypeOK' /\ StoreIsLatest'
  BY <1>3, <1>4, <1>6 DEF TypeOK, StoreIsLatest, Basics, CallFails
<1>8. call[i].step \in {"put", "publish"} /\ call[i].value # 0 => call[i].key \in unsent'
  BY DEF CallFails, UnsentBy
<1> QED BY <1>3, <1>4, <1>7, <1>8 DEF Basics

LEMMA RedisExpiresStep ==
  ASSUME Basics, NEW k \in Keys, RedisExpires(k)
  PROVE  Basics' /\ \A m \in Nodes : Entries(m)' = Entries(m)
<1>1. /\ cache' \in [Nodes -> Seq(EntryOf)] /\ LruBounded'
      /\ \A m \in Nodes : Entries(m)' = Entries(m)
  BY SameLists DEF Basics, RedisExpires
<1>2. store' \in [Keys -> Nat] /\ expires' \in SUBSET Keys
  BY DEF Basics, TypeOK, RedisExpires
<1>3. TypeOK' /\ WritesHaveValues'
  BY <1>1, <1>2 DEF TypeOK, WritesHaveValues, Basics, RedisExpires, counters, history
<1>4. StoreIsLatest'
  BY DEF StoreIsLatest, Basics, TypeOK, RedisExpires, history
<1> QED BY <1>1, <1>3, <1>4 DEF Basics

LEMMA StutterStep ==
  ASSUME Basics, UNCHANGED vars
  PROVE  Basics' /\ \A m \in Nodes : Entries(m)' = Entries(m)
<1>1. /\ cache' \in [Nodes -> Seq(EntryOf)] /\ LruBounded'
      /\ \A m \in Nodes : Entries(m)' = Entries(m)
  BY SameLists DEF Basics, vars
<1>2. TypeOK' /\ WritesHaveValues' /\ StoreIsLatest'
  BY DEF TypeOK, WritesHaveValues, StoreIsLatest, Basics, vars, counters, history
<1> QED BY <1>1, <1>2 DEF Basics

-----------------------------------------------------------------------------
(* Stale copies are explained *)

\* What a step has to keep: a message stays on its way or is lost, a writer that
\* stops working on its put has sent or lost its message, unless <<n, k>> is in X;
\* then the copy of k at n is replaced, and the requests for one are raced.
Keeps(X) ==
  /\ \A n \in Nodes, k \in Keys : <<n, k>> \notin X /\ Pending(n, k) => Pending(n, k)' \/ Lost(n, k)'
  /\ \A n \in Nodes, k \in Keys : Lost(n, k) => Lost(n, k)'
  /\ \A j \in Calls, n \in Nodes, k \in Keys :
       <<n, k>> \notin X /\ Sends(j, n, k) => Sends(j, n, k)' \/ Pending(n, k)' \/ Lost(n, k)'

LEMMA ExplanationLasts ==
  ASSUME NEW X, Keeps(X), NEW n \in Nodes, NEW k \in Keys, NEW S \in SUBSET Calls,
         <<n, k>> \notin X, Explained(n, k, S)
  PROVE  Explained(n, k, S)'
BY DEF Explained, Keeps

LEMMA ExplainedAgain ==
  ASSUME Basics', EntriesExplained, CallsExplained, latest' = latest,
         NEW X, Keeps(X),
         \A n \in Nodes : \A e \in Entries(n)' :
           \/ e \in Entries(n) /\ <<n, e.key>> \notin X
           \/ e.value = latest[e.key] \/ e.raced \/ Explained(n, e.key, Calls)',
         \A i \in Calls : call'[i].step \in {"put", "pttl", "fill"} =>
           \/ /\ call[i].step \in {"put", "pttl", "fill"}
              /\ call'[i].value = call[i].value /\ call'[i].key = call[i].key
              /\ call'[i].node = call[i].node
              /\ call'[i].raced
                 \/ (~call[i].raced /\ <<call[i].node, call[i].key>> \notin X)
           \/ call'[i].value = latest[call'[i].key]
  PROVE  EntriesExplained' /\ CallsExplained'
<1>1. EntriesExplained'
  <2> SUFFICES ASSUME NEW n \in Nodes, NEW e \in Entries(n)'
               PROVE  e.value = latest'[e.key] \/ e.raced \/ Explained(n, e.key, Calls)'
    BY DEF EntriesExplained
  <2>1. e.key \in Keys
    <3>1. cache'[n] \in Seq(EntryOf)
      BY DEF Basics, TypeOK
    <3>2. \A i \in 1..Len(cache'[n]) : cache'[n][i] \in EntryOf
      BY <3>1, ElementOfSeq
    <3> QED BY <3>2 DEF Entries, Elements, EntryOf
  <2>2. CASE e \in Entries(n) /\ <<n, e.key>> \notin X
    <3>1. e.value = latest[e.key] \/ e.raced \/ Explained(n, e.key, Calls)
      BY <2>2 DEF EntriesExplained
    <3> QED BY <3>1, <2>1, <2>2, ExplanationLasts
  <2> QED BY <2>2
<1>2. CallsExplained'
  <2> SUFFICES ASSUME NEW i \in Calls, NEW n \in Nodes, NEW k \in Keys,
                      call'[i].step \in {"put", "pttl", "fill"},
                      call'[i].node = n, call'[i].key = k, ~call'[i].raced,
                      call'[i].value # latest'[k]
               PROVE  Explained(n, k, Calls \ {i})'
    BY DEF CallsExplained
  <2>1. /\ call[i].step \in {"put", "pttl", "fill"} /\ call[i].node = n /\ call[i].key = k
        /\ call[i].value # latest[k] /\ ~call[i].raced /\ <<n, k>> \notin X
    OBVIOUS
  <2>2. Explained(n, k, Calls \ {i})
    BY <2>1 DEF CallsExplained
  <2> QED BY <2>1, <2>2, ExplanationLasts
<1> QED BY <1>1, <1>2

\* A step after which the messages, and the writers with them, are as before.
LEMMA QuietExplained ==
  ASSUME Basics, Basics', EntriesExplained, CallsExplained,
         latest' = latest, inbox' = inbox, unsent' = unsent, missed' = missed,
         \A n \in Nodes : Entries(n)' \subseteq Entries(n),
         \A j \in Calls : \/ call'[j] = call[j]
                          \/ \E n, k : call'[j] = Marked(j, n, k)
                          \/ /\ call[j].step \notin {"put", "publish"}
                             /\ \/ call'[j].step \notin {"put", "pttl", "fill"}
                                \/ call'[j].value = latest[call'[j].key]
                                \/ /\ call[j].step = "pttl"
                                   /\ call'[j].value = call[j].value /\ call'[j].key = call[j].key
                                   /\ call'[j].node = call[j].node
                                   /\ call'[j].raced = call[j].raced
  PROVE  EntriesExplained' /\ CallsExplained'
<1>1. \A j \in Calls :
        (\/ call'[j] = call[j] \/ \E n, k : call'[j] = Marked(j, n, k)) =>
          /\ call'[j].step = call[j].step /\ call'[j].key = call[j].key
          /\ call'[j].node = call[j].node /\ call'[j].value = call[j].value
          /\ call'[j].raced = call[j].raced \/ call'[j].raced
  BY MarkedCall DEF Basics
<1>2. Keeps({})
  <2>1. \A n \in Nodes, k \in Keys : Pending(n, k) => Pending(n, k)'
    BY DEF Pending
  <2>2. \A n \in Nodes, k \in Keys : Lost(n, k) => Lost(n, k)'
    BY DEF Lost
  <2>3. \A j \in Calls, n \in Nodes, k \in Keys : Sends(j, n, k) => Sends(j, n, k)'
    BY <1>1 DEF Sends
  <2> QED BY <2>1, <2>2, <2>3 DEF Keeps
<1>3. \A i \in Calls : call'[i].step \in {"put", "pttl", "fill"} =>
        \/ /\ call[i].step \in {"put", "pttl", "fill"}
           /\ call'[i].value = call[i].value /\ call'[i].key = call[i].key
           /\ call'[i].node = call[i].node
           /\ call'[i].raced
              \/ (~call[i].raced /\ <<call[i].node, call[i].key>> \notin {})
        \/ call'[i].value = latest[call'[i].key]
  <2> SUFFICES ASSUME NEW i \in Calls, call'[i].step \in {"put", "pttl", "fill"},
                      call'[i].value # latest[call'[i].key]
               PROVE  /\ call[i].step \in {"put", "pttl", "fill"}
                      /\ call'[i].value = call[i].value /\ call'[i].key = call[i].key
                      /\ call'[i].node = call[i].node
                      /\ call'[i].raced \/ ~call[i].raced
    OBVIOUS
  <2>1. ~Free(i) => call[i].raced \in BOOLEAN
    BY BusyCall DEF Basics
  <2> QED BY <1>1
<1>4. \A n \in Nodes : \A e \in Entries(n)' : e \in Entries(n) /\ <<n, e.key>> \notin {}
  OBVIOUS
<1> QED BY <1>2, <1>3, <1>4, ExplainedAgain

LEMMA SetExplained ==
  ASSUME Basics, EntriesExplained, CallsExplained, NEW i \in Calls, RedisSet(i)
  PROVE  EntriesExplained' /\ CallsExplained'
<1>1. PICK k : k = call[i].key
  OBVIOUS
<1>2. /\ Basics' /\ k \in Keys /\ call[i].value # 0
      /\ call'[i].step = "put" /\ call'[i].key = k
      /\ call'[i].value = call[i].value
      /\ \A j \in Calls \ {i} : call'[j] = call[j]
      /\ \A m \in Nodes : Entries(m)' = Entries(m)
  BY <1>1, RedisSetStep
<1>3. /\ UNCHANGED <<inbox, unsent, missed>> /\ call[i].step = "set"
      /\ latest' = [latest EXCEPT ![k] = call[i].value] /\ latest \in [Keys -> Nat]
  BY <1>1 DEF RedisSet, Basics, TypeOK
<1>4. Keeps({})
  <2>1. \A j \in Calls, n \in Nodes, l \in Keys : Sends(j, n, l) => Sends(j, n, l)'
    BY <1>2, <1>3 DEF Sends
  <2> QED BY <1>3, <2>1 DEF Keeps, Pending, Lost
<1>a. \A n \in Nodes, l \in Keys, S \in SUBSET Calls : Explained(n, l, S) => Explained(n, l, S)'
  <2>1. PICK X : X = {} /\ Keeps(X)
    BY <1>4
  <2> SUFFICES ASSUME NEW n \in Nodes, NEW l \in Keys, NEW S \in SUBSET Calls, Explained(n, l, S)
               PROVE  Explained(n, l, S)'
    OBVIOUS
  <2>2. <<n, l>> \notin X
    BY <2>1
  <2> QED BY <2>1, <2>2, ExplanationLasts
<1>5. \A n \in Nodes : Sends(i, n, k)'
  BY <1>2 DEF Sends
<1>6. EntriesExplained'
  <2> SUFFICES ASSUME NEW n \in Nodes, NEW e \in Entries(n)
               PROVE  e.value = latest'[e.key] \/ e.raced \/ Explained(n, e.key, Calls)'
    BY <1>2 DEF EntriesExplained
  <2>1. e.key \in Keys
    BY BoundedLists DEF Basics, EntryOf
  <2>2. CASE e.key = k
    BY <2>2, <1>5 DEF Explained
  <2>3. CASE e.key # k
    <3>1. e.value = latest[e.key] \/ e.raced \/ Explained(n, e.key, Calls)
      BY DEF EntriesExplained
    <3>2. latest'[e.key] = latest[e.key]
      BY <2>1, <2>3, <1>3
    <3> QED BY <3>1, <3>2, <2>1, <1>a
  <2> QED BY <2>2, <2>3
<1>7. CallsExplained'
  <2> SUFFICES ASSUME NEW j \in Calls, NEW n \in Nodes, NEW l \in Keys,
                      call'[j].step \in {"put", "pttl", "fill"},
                      call'[j].node = n, call'[j].key = l
               PROVE  \/ call'[j].value = latest'[l] \/ call'[j].raced
                      \/ Explained(n, l, Calls \ {j})'
    BY DEF CallsExplained
  <2>1. CASE j = i
    BY <2>1, <1>2, <1>3
  <2>2. CASE j # i /\ l = k
    BY <2>2, <1>5 DEF Explained
  <2>3. CASE j # i /\ l # k
    <3>1. call'[j] = call[j] /\ latest'[l] = latest[l]
      BY <2>3, <1>2, <1>3
    <3>2. call[j].value = latest[l] \/ call[j].raced \/ Explained(n, l, Calls \ {j})
      BY <3>1 DEF CallsExplained
    <3>3. Calls \ {j} \in SUBSET Calls
      OBVIOUS
    <3> QED BY <3>1, <3>2, <3>3, <1>a
  <2> QED BY <2>1, <2>2, <2>3
<1> QED BY <1>6, <1>7

\* The requests at n for k are raced after they are marked; the others are as before.
LEMMA MarkedRequests ==
  ASSUME TypeOK, NEW n, NEW k, NEW j \in Calls, call'[j] = Marked(j, n, k),
         call'[j].step \in {"put", "pttl", "fill"}
  PROVE  /\ call[j].step \in {"put", "pttl", "fill"}
         /\ call'[j].value = call[j].value /\ call'[j].key = call[j].key
         /\ call'[j].node = call[j].node
         /\ call'[j].raced \/ (~call[j].raced /\ <<call[j].node, call[j].key>> # <<n, k>>)
<1>1. /\ call'[j].step = call[j].step /\ call'[j].key = call[j].key
      /\ call'[j].node = call[j].node /\ call'[j].value = call[j].value
      /\ On(j, n, k) => call'[j].raced
      /\ call'[j] = call[j] \/ call'[j].raced
  BY MarkedCall
<1>2. ~Free(j)
  BY <1>1, BusyCall
<1>3. call[j].raced \in BOOLEAN
  BY <1>2, BusyCall
<1> QED BY <1>1, <1>2, <1>3 DEF On

LEMMA PutExplained ==
  ASSUME Basics, EntriesExplained, CallsExplained, NEW i \in Calls, PutModified(i)
  PROVE  EntriesExplained' /\ CallsExplained'
<1>1. PICK n : n = call[i].node
  OBVIOUS
<1>2. PICK k : k = call[i].key
  OBVIOUS
<1>3. /\ Basics' /\ n \in Nodes /\ k \in Keys
      /\ call'[i].step = "publish" /\ call'[i].key = k /\ call'[i].node = n
      /\ call'[i].value = call[i].value
      /\ \A j \in Calls \ {i} : call'[j] = Marked(j, n, k)
      /\ \A m \in Nodes \ {n} : Entries(m)' = Entries(m)
      /\ \A x \in Entries(n)' :
           \/ x.key = k /\ x.value = call[i].value /\ (x.raced <=> call[i].raced)
           \/ x \in Entries(n) /\ x.key # k
  BY <1>1, <1>2, PutModifiedStep
<1>4. UNCHANGED <<inbox, unsent, missed>> /\ latest' = latest /\ call[i].step = "put"
  BY DEF PutModified, history
<1>5. \A j \in Calls \ {i} : \A m \in Nodes, l \in Keys : Sends(j, m, l) => Sends(j, m, l)'
  BY <1>3, MarkedCall DEF Sends, Basics
<1>6. \A m \in Nodes, l \in Keys : Sends(i, m, l) /\ <<m, l>> # <<n, k>> => Sends(i, m, l)'
  BY <1>1, <1>2, <1>3 DEF Sends
<1>7. Keeps({<<n, k>>})
  BY <1>4, <1>5, <1>6 DEF Keeps, Pending, Lost
<1>8. call[i].value = latest[k] \/ call[i].raced \/ Explained(n, k, Calls)'
  <2>1. call[i].value = latest[k] \/ call[i].raced \/ Explained(n, k, Calls \ {i})
    BY <1>1, <1>2, <1>3, <1>4 DEF CallsExplained
  <2>2. ASSUME Explained(n, k, Calls \ {i}) PROVE Explained(n, k, Calls)'
    BY <2>2, <1>3, <1>4, <1>5 DEF Explained, Pending, Lost
  <2> QED BY <2>1, <2>2
<1>9. \A m \in Nodes : \A e \in Entries(m)' :
        \/ e \in Entries(m) /\ <<m, e.key>> \notin {<<n, k>>}
        \/ e.value = latest[e.key] \/ e.raced \/ Explained(m, e.key, Calls)'
  <2> SUFFICES ASSUME NEW m \in Nodes, NEW e \in Entries(m)'
               PROVE  \/ e \in Entries(m) /\ <<m, e.key>> # <<n, k>>
                      \/ e.value = latest[e.key] \/ e.raced \/ Explained(m, e.key, Calls)'
    OBVIOUS
  <2>1. CASE m # n
    BY <2>1, <1>3
  <2>2. CASE m = n
    <3>1. CASE e.key = k /\ e.value = call[i].value /\ (e.raced <=> call[i].raced)
      BY <3>1, <2>2, <1>8
    <3>2. CASE e \in Entries(n) /\ e.key # k
      BY <3>2, <2>2
    <3> QED BY <3>1, <3>2, <2>2, <1>3
  <2> QED BY <2>1, <2>2
<1>10. \A j \in Calls : call'[j].step \in {"put", "pttl", "fill"} =>
         /\ call[j].step \in {"put", "pttl", "fill"}
         /\ call'[j].value = call[j].value /\ call'[j].key = call[j].key
         /\ call'[j].node = call[j].node
         /\ call'[j].raced
            \/ (~call[j].raced /\ <<call[j].node, call[j].key>> \notin {<<n, k>>})
  BY <1>3, MarkedRequests DEF Basics
<1> QED BY <1>3, <1>4, <1>7, <1>9, <1>10, ExplainedAgain

LEMMA FillExplained ==
  ASSUME Basics, EntriesExplained, CallsExplained, NEW i \in Calls, Fill(i)
  PROVE  EntriesExplained' /\ CallsExplained'
<1>1. PICK n : n = call[i].node
  OBVIOUS
<1>2. PICK k : k = call[i].key
  OBVIOUS
<1>3. /\ Basics' /\ n \in Nodes /\ k \in Keys
      /\ call'[i] = NoCall
      /\ \A j \in Calls \ {i} : call'[j] = Marked(j, n, k)
      /\ \A m \in Nodes \ {n} : Entries(m)' = Entries(m)
      /\ \A x \in Entries(n)' :
           \/ x.key = k /\ x.value = call[i].value /\ (x.raced <=> call[i].raced)
           \/ x \in Entries(n) /\ x.key # k
  BY <1>1, <1>2, FillStep
<1>4. UNCHANGED <<inbox, unsent, missed>> /\ latest' = latest /\ call[i].step = "fill"
  BY DEF Fill, history
<1>5. \A j \in Calls : \A m \in Nodes, l \in Keys : Sends(j, m, l) => Sends(j, m, l)'
  BY <1>3, <1>4, MarkedCall DEF Sends, Basics
<1>6. Keeps({})
  BY <1>4, <1>5 DEF Keeps, Pending, Lost
<1>7. call[i].value = latest[k] \/ call[i].raced \/ Explained(n, k, Calls)'
  <2>1. call[i].value = latest[k] \/ call[i].raced \/ Explained(n, k, Calls \ {i})
    BY <1>1, <1>2, <1>3, <1>4 DEF CallsExplained
  <2>2. ASSUME Explained(n, k, Calls \ {i}) PROVE Explained(n, k, Calls)'
    BY <2>2, <1>3, <1>4, <1>5 DEF Explained, Pending, Lost
  <2> QED BY <2>1, <2>2
<1>8. \A m \in Nodes : \A e \in Entries(m)' :
        \/ e \in Entries(m) /\ <<m, e.key>> \notin {}
        \/ e.value = latest[e.key] \/ e.raced \/ Explained(m, e.key, Calls)'
  <2> SUFFICES ASSUME NEW m \in Nodes, NEW e \in Entries(m)'
               PROVE  \/ e \in Entries(m)
                      \/ e.value = latest[e.key] \/ e.raced \/ Explained(m, e.key, Calls)'
    OBVIOUS
  <2>1. CASE m # n
    BY <2>1, <1>3
  <2>2. CASE m = n
    <3>1. CASE e.key = k /\ e.value = call[i].value /\ (e.raced <=> call[i].raced)
      BY <3>1, <2>2, <1>7
    <3>2. CASE e \in Entries(n) /\ e.key # k
      BY <3>2, <2>2
    <3> QED BY <3>1, <3>2, <2>2, <1>3
  <2> QED BY <2>1, <2>2
<1>9. \A j \in Calls : call'[j].step \in {"put", "pttl", "fill"} =>
        /\ call[j].step \in {"put", "pttl", "fill"}
        /\ call'[j].value = call[j].value /\ call'[j].key = call[j].key
        /\ call'[j].node = call[j].node
        /\ call'[j].raced
           \/ (~call[j].raced /\ <<call[j].node, call[j].key>> \notin {})
  <2>1. call'[i].step = "idle"
    BY <1>3 DEF NoCall
  <2> QED BY <2>1, <1>3, MarkedRequests DEF Basics
<1> QED BY <1>3, <1>4, <1>6, <1>8, <1>9, ExplainedAgain

LEMMA PublishExplained ==
  ASSUME Basics, EntriesExplained, CallsExplained, NEW i \in Calls, PublishInvalidation(i)
  PROVE  EntriesExplained' /\ CallsExplained'
<1>1. PICK n : n = call[i].node
  OBVIOUS
<1>2. PICK k : k = call[i].key
  OBVIOUS
<1>3. /\ Basics' /\ n \in Nodes /\ k \in Keys
      /\ call'[i] = NoCall /\ \A j \in Calls \ {i} : call'[j] = call[j]
      /\ \A m \in Nodes : Entries(m)' = Entries(m)
      /\ \A m \in Nodes, l \in Keys : Pending(m, l) => Pending(m, l)'
      /\ \A m \in Nodes \ {n} : Pending(m, k)' \/ <<m, k>> \in missed'
  BY <1>1, <1>2, PublishStep
<1>4. unsent' = unsent /\ missed \subseteq missed' /\ latest' = latest /\ call[i].step = "publish"
  BY DEF PublishInvalidation
<1>5. \A m \in Nodes, l \in Keys : Sends(i, m, l) => Pending(m, l)' \/ Lost(m, l)'
  BY <1>1, <1>2, <1>3, <1>4 DEF Sends, Lost
<1>6. \A j \in Calls \ {i} : \A m \in Nodes, l \in Keys : Sends(j, m, l) => Sends(j, m, l)'
  BY <1>3 DEF Sends
<1>7. Keeps({})
  BY <1>3, <1>4, <1>5, <1>6 DEF Keeps, Lost
<1>8. \A m \in Nodes : \A e \in Entries(m)' : e \in Entries(m) /\ <<m, e.key>> \notin {}
  BY <1>3
<1>9. \A j \in Calls : call'[j].step \in {"put", "pttl", "fill"} =>
        /\ call[j].step \in {"put", "pttl", "fill"}
        /\ call'[j].value = call[j].value /\ call'[j].key = call[j].key
        /\ call'[j].node = call[j].node
        /\ call'[j].raced
           \/ (~call[j].raced /\ <<call[j].node, call[j].key>> \notin {})
  <2>1. call'[i].step = "idle"
    BY <1>3 DEF NoCall
  <2>2. \A j \in Calls : ~Free(j) => call[j].raced \in BOOLEAN
    BY BusyCall DEF Basics
  <2> QED BY <2>1, <2>2, <1>3
<1> QED BY <1>3, <1>4, <1>7, <1>8, <1>9, ExplainedAgain

LEMMA FailureExplained ==
  ASSUME Basics, EntriesExplained, CallsExplained, NEW i \in Calls, CallFails(i)
  PROVE  EntriesExplained' /\ CallsExplained'
<1>1. /\ Basics'
      /\ call'[i] = NoCall /\ \A j \in Calls \ {i} : call'[j] = call[j]
      /\ \A m \in Nodes : Entries(m)' = Entries(m)
      /\ call[i].step \in {"put", "publish"} /\ call[i].value # 0 => call[i].key \in unsent'
  BY CallFailsStep
<1>2. inbox' = inbox /\ missed' = missed /\ unsent \subseteq unsent' /\ latest' = latest
  BY DEF CallFails
<1>3. \A m \in Nodes, l \in Keys : Sends(i, m, l) => Lost(m, l)'
  BY <1>1 DEF Sends, Lost
<1>4. \A j \in Calls \ {i} : \A m \in Nodes, l \in Keys : Sends(j, m, l) => Sends(j, m, l)'
  BY <1>1 DEF Sends
<1>5. Keeps({})
  BY <1>2, <1>3, <1>4 DEF Keeps, Lost, Pending
<1>6. \A m \in Nodes : \A e \in Entries(m)' : e \in Entries(m) /\ <<m, e.key>> \notin {}
  BY <1>1
<1>7. \A j \in Calls : call'[j].step \in {"put", "pttl", "fill"} =>
        /\ call[j].step \in {"put", "pttl", "fill"}
        /\ call'[j].value = call[j].value /\ call'[j].key = call[j].key
        /\ call'[j].node = call[j].node
        /\ call'[j].raced
           \/ (~call[j].raced /\ <<call[j].node, call[j].key>> \notin {})
  <2>1. call'[i].step = "idle"
    BY <1>1 DEF NoCall
  <2> QED BY <2>1, <1>1
<1> QED BY <1>1, <1>2, <1>5, <1>6, <1>7, ExplainedAgain

LEMMA ReceiveExplained ==
  ASSUME Basics, EntriesExplained, CallsExplained,
         NEW n \in Nodes, NEW k \in Keys, Receive(n, k)
  PROVE  EntriesExplained' /\ CallsExplained'
<1>1. /\ Basics'
      /\ \A j \in Calls : call'[j] = Marked(j, n, k)
      /\ \A m \in Nodes : Entries(m)' \subseteq Entries(m)
      /\ \A e \in Entries(n)' : e.key # k
      /\ \A m \in Nodes, l \in Keys : Pending(m, l) /\ <<m, l>> # <<n, k>> => Pending(m, l)'
  BY ReceiveStep
<1>2. unsent' = unsent /\ missed' = missed /\ latest' = latest
  BY DEF Receive, history
<1>3. \A j \in Calls : \A m \in Nodes, l \in Keys : Sends(j, m, l) => Sends(j, m, l)'
  BY <1>1, MarkedCall DEF Sends, Basics
<1>4. Keeps({<<n, k>>})
  BY <1>1, <1>2, <1>3 DEF Keeps, Lost
<1>5. \A m \in Nodes : \A e \in Entries(m)' : e \in Entries(m) /\ <<m, e.key>> \notin {<<n, k>>}
  BY <1>1
<1>6. \A j \in Calls : call'[j].step \in {"put", "pttl", "fill"} =>
        /\ call[j].step \in {"put", "pttl", "fill"}
        /\ call'[j].value = call[j].value /\ call'[j].key = call[j].key
        /\ call'[j].node = call[j].node
        /\ call'[j].raced
           \/ (~call[j].raced /\ <<call[j].node, call[j].key>> \notin {<<n, k>>})
  BY <1>1, MarkedRequests DEF Basics
<1> QED BY <1>1, <1>2, <1>4, <1>5, <1>6, ExplainedAgain

LEMMA ListenerExplained ==
  ASSUME Basics, EntriesExplained, CallsExplained, NEW n \in Nodes, ListenerDies(n)
  PROVE  EntriesExplained' /\ CallsExplained'
<1>1. /\ Basics'
      /\ \A m \in Nodes : Entries(m)' = Entries(m)
      /\ \A m \in Nodes, k \in Keys : Pending(m, k) => Pending(m, k)' \/ <<m, k>> \in missed'
  BY ListenerDiesStep
<1>2. call' = call /\ unsent' = unsent /\ missed \subseteq missed' /\ latest' = latest
  BY DEF ListenerDies
<1>3. Keeps({})
  BY <1>1, <1>2 DEF Keeps, Lost, Sends
<1>4. \A m \in Nodes : \A e \in Entries(m)' : e \in Entries(m) /\ <<m, e.key>> \notin {}
  BY <1>1
<1>5. \A j \in Calls : call'[j].step \in {"put", "pttl", "fill"} =>
        /\ call[j].step \in {"put", "pttl", "fill"}
        /\ call'[j].value = call[j].value /\ call'[j].key = call[j].key
        /\ call'[j].node = call[j].node
        /\ call'[j].raced
           \/ (~call[j].raced /\ <<call[j].node, call[j].key>> \notin {})
  BY <1>2
<1> QED BY <1>1, <1>2, <1>3, <1>4, <1>5, ExplainedAgain

LEMMA NextExplained ==
  ASSUME Basics, EntriesExplained, CallsExplained, [Next]_vars
  PROVE  Basics' /\ EntriesExplained' /\ CallsExplained'
<1>1. ASSUME NEW i \in Calls, NEW n \in Nodes, NEW k \in Keys, NEW ttl \in BOOLEAN,
             BeginPut(i, n, k, ttl)
      PROVE  Basics' /\ EntriesExplained' /\ CallsExplained'
  <2>1. UNCHANGED <<inbox, unsent, missed, latest>> /\ Free(i)
    BY <1>1 DEF BeginPut, history
  <2>2. call[i].step = "idle"
    BY <2>1, BusyCall DEF Basics
  <2>3. /\ Basics'
        /\ call'[i].step = "set" /\ \A j \in Calls \ {i} : call'[j] = call[j]
        /\ \A m \in Nodes : Entries(m)' = Entries(m)
    BY <1>1, BeginPutStep
  <2> QED BY <2>1, <2>2, <2>3, QuietExplained
<1>2. ASSUME NEW i \in Calls, NEW n \in Nodes, NEW k \in Keys, Miss(i, n, k)
      PROVE  Basics' /\ EntriesExplained' /\ CallsExplained'
  <2>1. UNCHANGED <<inbox, unsent, missed, latest>> /\ Free(i)
    BY <1>2 DEF Miss, history
  <2>2. call[i].step = "idle"
    BY <2>1, BusyCall DEF Basics
  <2>3. /\ Basics'
        /\ call'[i].step = "get" /\ \A j \in Calls \ {i} : call'[j] = call[j]
        /\ \A m \in Nodes : Entries(m)' \subseteq Entries(m)
    BY <1>2, MissStep
  <2> QED BY <2>1, <2>2, <2>3, QuietExplained
<1>3. ASSUME NEW i \in Calls, NEW n \in Nodes, NEW k \in Keys, Invalidate(i, n, k)
      PROVE  Basics' /\ EntriesExplained' /\ CallsExplained'
  <2>1. UNCHANGED <<inbox, unsent, missed, latest>> /\ Free(i)
    BY <1>3 DEF Invalidate, history
  <2>2. call[i].step = "idle"
    BY <2>1, BusyCall DEF Basics
  <2>3. /\ Basics'
        /\ call'[i].step = "publish"
        /\ \A j \in Calls \ {i} : call'[j] = Marked(j, n, k)
        /\ \A m \in Nodes : Entries(m)' \subseteq Entries(m)
    BY <1>3, InvalidateStep
  <2> QED BY <2>1, <2>2, <2>3, QuietExplained
<1>4. ASSUME NEW i \in Calls, RedisGet(i)
      PROVE  Basics' /\ EntriesExplained' /\ CallsExplained'
  <2>1. UNCHANGED <<inbox, unsent, missed, latest>> /\ call[i].step = "get"
    BY <1>4 DEF RedisGet, history
  <2>2. /\ Basics'
        /\ \/ call'[i].step = "idle"
           \/ call'[i].step = "pttl" /\ call'[i].value = latest[call'[i].key]
        /\ \A j \in Calls \ {i} : call'[j] = call[j]
        /\ \A m \in Nodes : Entries(m)' = Entries(m)
    BY <1>4, RedisGetStep
  <2> QED BY <2>1, <2>2, QuietExplained
<1>5. ASSUME NEW i \in Calls, RedisPttl(i)
      PROVE  Basics' /\ EntriesExplained' /\ CallsExplained'
  <2>1. UNCHANGED <<inbox, unsent, missed, latest>> /\ call[i].step = "pttl"
    BY <1>5 DEF RedisPttl, history
  <2>2. /\ Basics'
        /\ call'[i].step = "fill" /\ call'[i].key = call[i].key /\ call'[i].node = call[i].node
        /\ call'[i].value = call[i].value /\ call'[i].raced = call[i].raced
        /\ \A j \in Calls \ {i} : call'[j] = call[j]
        /\ \A m \in Nodes : Entries(m)' = Entries(m)
    BY <1>5, RedisPttlStep
  <2> QED BY <2>1, <2>2, QuietExplained
<1>6. ASSUME NEW n \in Nodes, NEW k \in Keys, Hit(n, k)
      PROVE  Basics' /\ EntriesExplained' /\ CallsExplained'
  <2>1. UNCHANGED <<inbox, unsent, missed, latest, call>>
    BY <1>6 DEF Hit, history
  <2> QED BY <1>6, <2>1, HitStep, QuietExplained
<1>7. ASSUME NEW n \in Nodes, Subscribe(n)
      PROVE  Basics' /\ EntriesExplained' /\ CallsExplained'
  <2>1. UNCHANGED <<inbox, unsent, missed, latest, call>>
    BY <1>7 DEF Subscribe, history
  <2> QED BY <1>7, <2>1, SubscribeStep, QuietExplained
<1>8. ASSUME NEW k \in Keys, RedisExpires(k)
      PROVE  Basics' /\ EntriesExplained' /\ CallsExplained'
  <2>1. UNCHANGED <<inbox, unsent, missed, latest, call>>
    BY <1>8 DEF RedisExpires, history
  <2> QED BY <1>8, <2>1, RedisExpiresStep, QuietExplained
<1>9. ASSUME UNCHANGED vars
      PROVE  Basics' /\ EntriesExplained' /\ CallsExplained'
  <2>1. UNCHANGED <<inbox, unsent, missed, latest, call>>
    BY <1>9 DEF vars, history
  <2> QED BY <1>9, <2>1, StutterStep, QuietExplained
<1>10. ASSUME NEW i \in Calls,
              \/ RedisSet(i) \/ PutModified(i) \/ PublishInvalidation(i)
              \/ Fill(i) \/ CallFails(i)
       PROVE  Basics' /\ EntriesExplained' /\ CallsExplained'
  BY <1>10, SetExplained, PutExplained, PublishExplained, FillExplained, FailureExplained,
     RedisSetStep, PutModifiedStep, PublishStep, FillStep, CallFailsStep
<1>11. ASSUME NEW n \in Nodes, ListenerDies(n) \/ \E k \in Keys : Receive(n, k)
       PROVE  Basics' /\ EntriesExplained' /\ CallsExplained'
  BY <1>11, ListenerExplained, ReceiveExplained, ListenerDiesStep, ReceiveStep
<1> QED
  BY <1>1, <1>2, <1>3, <1>4, <1>5, <1>6, <1>7, <1>8, <1>9, <1>10, <1>11 DEF Next

-----------------------------------------------------------------------------
(* Two owners part *)

Announces(j, n, k) ==
  call[j].step = "publish" /\ call[j].value # 0 /\ call[j].key = k /\ call[j].node = n

\* As Keeps, for the messages that part two owners.
KeepsParting(X) ==
  /\ \A n \in Nodes, k \in Keys : <<n, k>> \notin X /\ Pending(n, k) => Pending(n, k)' \/ Lost(n, k)'
  /\ \A n \in Nodes, k \in Keys : Lost(n, k) => Lost(n, k)'
  /\ \A j \in Calls, n \in Nodes, k \in Keys :
       Announces(j, n, k) =>
         \/ Announces(j, n, k)'
         \/ \A m \in Nodes \ {n} : Pending(m, k)' \/ Lost(m, k)'

LEMMA PartingLasts ==
  ASSUME NEW X, KeepsParting(X), NEW n \in Nodes, NEW m \in Nodes \ {n}, NEW k \in Keys,
         <<n, k>> \notin X, <<m, k>> \notin X, Parting(n, m, k)
  PROVE  Parting(n, m, k)'
<1>1. CASE Pending(n, k) \/ Pending(m, k) \/ Lost(n, k) \/ Lost(m, k)
  BY <1>1 DEF KeepsParting, Parting
<1>2. CASE \E j \in Calls : Announces(j, n, k) \/ Announces(j, m, k)
  <2>1. PICK j \in Calls, o \in {n, m} : Announces(j, o, k)
    BY <1>2
  <2>2. CASE Announces(j, o, k)'
    BY <2>2 DEF Announces, Parting
  <2>3. CASE \A p \in Nodes \ {o} : Pending(p, k)' \/ Lost(p, k)'
    BY <2>3 DEF Parting
  <2> QED BY <2>1, <2>2, <2>3 DEF KeepsParting
<1> QED BY <1>1, <1>2 DEF Parting, Announces

LEMMA OwnersPartAgain ==
  ASSUME Basics', OwnersPart, NEW X, KeepsParting(X),
         \A n \in Nodes : \A e \in Entries(n)' : e.state = "M" =>
           \/ e \in Entries(n) /\ <<n, e.key>> \notin X
           \/ \E j \in Calls : Announces(j, n, e.key)'
  PROVE  OwnersPart'
<1> SUFFICES ASSUME NEW n \in Nodes, NEW m \in Nodes, NEW e \in Entries(n)', NEW f \in Entries(m)',
                    n # m, e.key = f.key, e.state = "M", f.state = "M"
             PROVE  Parting(n, m, e.key)'
  BY DEF OwnersPart
<1>1. e.key \in Keys
  <2>1. cache'[n] \in Seq(EntryOf)
    BY DEF Basics, TypeOK
  <2>2. \A i \in 1..Len(cache'[n]) : cache'[n][i] \in EntryOf
    BY <2>1, ElementOfSeq
  <2> QED BY <2>2 DEF Entries, Elements, EntryOf
<1>2. CASE \E j \in Calls : Announces(j, n, e.key)' \/ Announces(j, m, e.key)'
  BY <1>2 DEF Announces, Parting
<1>3. CASE e \in Entries(n) /\ <<n, e.key>> \notin X /\ f \in Entries(m) /\ <<m, e.key>> \notin X
  <2>1. Parting(n, m, e.key)
    BY <1>3 DEF OwnersPart
  <2> QED BY <2>1, <1>1, <1>3, PartingLasts
<1> QED BY <1>2, <1>3

LEMMA QuietParts ==
  ASSUME Basics, Basics', OwnersPart,
         inbox' = inbox, unsent' = unsent, missed' = missed,
         \A n \in Nodes : \A e \in Entries(n)' : e.state = "M" => e \in Entries(n),
         \A j \in Calls : \/ call'[j] = call[j]
                          \/ \E n, k : call'[j] = Marked(j, n, k)
                          \/ call[j].step # "publish"
  PROVE  OwnersPart'
<1>1. PICK X : X = {}
  OBVIOUS
<1>2. \A j \in Calls : call[j].step = "publish" =>
        /\ call'[j].step = call[j].step /\ call'[j].key = call[j].key
        /\ call'[j].node = call[j].node /\ call'[j].value = call[j].value
  BY MarkedCall DEF Basics
<1>3. KeepsParting(X)
  <2>1. \A j \in Calls, n \in Nodes, k \in Keys : Announces(j, n, k) => Announces(j, n, k)'
    BY <1>2 DEF Announces
  <2> QED BY <2>1 DEF KeepsParting, Pending, Lost
<1>4. \A n \in Nodes : \A e \in Entries(n)' : e.state = "M" => e \in Entries(n) /\ <<n, e.key>> \notin X
  BY <1>1
<1> QED BY <1>3, <1>4, OwnersPartAgain

LEMMA PutParts ==
  ASSUME Basics, OwnersPart, NEW i \in Calls, PutModified(i)
  PROVE  OwnersPart'
<1>0. PICK X : X = {}
  OBVIOUS
<1>1. PICK n : n = call[i].node
  OBVIOUS
<1>2. PICK k : k = call[i].key
  OBVIOUS
<1>3. /\ Basics' /\ n \in Nodes /\ k \in Keys /\ call[i].value # 0
      /\ call'[i].step = "publish" /\ call'[i].key = k /\ call'[i].node = n
      /\ call'[i].value = call[i].value
      /\ \A j \in Calls \ {i} : call'[j] = Marked(j, n, k)
      /\ \A m \in Nodes \ {n} : Entries(m)' = Entries(m)
      /\ \A x \in Entries(n)' : x.key = k \/ x \in Entries(n)
  BY <1>1, <1>2, PutModifiedStep
<1>4. UNCHANGED <<inbox, unsent, missed>> /\ call[i].step = "put"
  BY DEF PutModified, history
<1>5. \A j \in Calls \ {i} : \A m \in Nodes, l \in Keys : Announces(j, m, l) => Announces(j, m, l)'
  BY <1>3, MarkedCall DEF Announces, Basics
<1>6. \A m \in Nodes, l \in Keys : ~Announces(i, m, l)
  BY <1>4 DEF Announces
<1>7. KeepsParting(X)
  BY <1>4, <1>5, <1>6 DEF KeepsParting, Pending, Lost
<1>8. Announces(i, n, k)'
  BY <1>3 DEF Announces
<1>9. \A m \in Nodes : \A e \in Entries(m)' : e.state = "M" =>
        \/ e \in Entries(m) /\ <<m, e.key>> \notin X
        \/ \E j \in Calls : Announces(j, m, e.key)'
  <2> SUFFICES ASSUME NEW m \in Nodes, NEW e \in Entries(m)'
               PROVE  e \in Entries(m) \/ Announces(i, m, e.key)'
    BY <1>0
  <2>1. CASE m = n /\ e.key = k
    BY <2>1, <1>8
  <2>2. CASE ~(m = n /\ e.key = k)
    BY <2>2, <1>3
  <2> QED BY <2>1, <2>2
<1> QED BY <1>3, <1>7, <1>9, OwnersPartAgain

LEMMA PublishParts ==
  ASSUME Basics, OwnersPart, NEW i \in Calls, PublishInvalidation(i)
  PROVE  OwnersPart'
<1>0. PICK X : X = {}
  OBVIOUS
<1>1. PICK n : n = call[i].node
  OBVIOUS
<1>2. PICK k : k = call[i].key
  OBVIOUS
<1>3. /\ Basics' /\ n \in Nodes /\ k \in Keys
      /\ \A j \in Calls \ {i} : call'[j] = call[j]
      /\ \A m \in Nodes : Entries(m)' = Entries(m)
      /\ \A m \in Nodes, l \in Keys : Pending(m, l) => Pending(m, l)'
      /\ \A m \in Nodes \ {n} : Pending(m, k)' \/ <<m, k>> \in missed'
  BY <1>1, <1>2, PublishStep
<1>4. unsent' = unsent /\ missed \subseteq missed'
  BY DEF PublishInvalidation
<1>5. \A m \in Nodes, l \in Keys : Announces(i, m, l) =>
        \A o \in Nodes \ {m} : Pending(o, l)' \/ Lost(o, l)'
  BY <1>1, <1>2, <1>3 DEF Announces, Lost
<1>6. \A j \in Calls \ {i} : \A m \in Nodes, l \in Keys : Announces(j, m, l) => Announces(j, m, l)'
  BY <1>3 DEF Announces
<1>7. KeepsParting(X)
  BY <1>3, <1>4, <1>5, <1>6 DEF KeepsParting, Lost
<1>8. \A m \in Nodes : \A e \in Entries(m)' : e \in Entries(m) /\ <<m, e.key>> \notin X
  BY <1>0, <1>3
<1> QED BY <1>3, <1>7, <1>8, OwnersPartAgain

LEMMA FailureParts ==
  ASSUME Basics, OwnersPart, NEW i \in Calls, CallFails(i)
  PROVE  OwnersPart'
<1>0. PICK X : X = {}
  OBVIOUS
<1>1. /\ Basics'
      /\ \A j \in Calls \ {i} : call'[j] = call[j]
      /\ \A m \in Nodes : Entries(m)' = Entries(m)
      /\ call[i].step \in {"put", "publish"} /\ call[i].value # 0 => call[i].key \in unsent'
  BY CallFailsStep
<1>2. inbox' = inbox /\ missed' = missed /\ unsent \subseteq unsent'
  BY DEF CallFails
<1>3. \A m \in Nodes, l \in Keys : Announces(i, m, l) => \A o \in Nodes : Lost(o, l)'
  BY <1>1 DEF Announces, Lost
<1>4. \A j \in Calls \ {i} : \A m \in Nodes, l \in Keys : Announces(j, m, l) => Announces(j, m, l)'
  BY <1>1 DEF Announces
<1>5. KeepsParting(X)
  BY <1>2, <1>3, <1>4 DEF KeepsParting, Lost, Pending
<1>6. \A m \in Nodes : \A e \in Entries(m)' : e \in Entries(m) /\ <<m, e.key>> \notin X
  BY <1>0, <1>1
<1> QED BY <1>1, <1>5, <1>6, OwnersPartAgain

LEMMA ReceiveParts ==
  ASSUME Basics, OwnersPart, NEW n \in Nodes, NEW k \in Keys, Receive(n, k)
  PROVE  OwnersPart'
<1>0. PICK X : X = {<<n, k>>}
  OBVIOUS
<1>1. /\ Basics'
      /\ \A j \in Calls : call'[j] = Marked(j, n, k)
      /\ \A m \in Nodes : Entries(m)' \subseteq Entries(m)
      /\ \A e \in Entries(n)' : e.key # k
      /\ \A m \in Nodes, l \in Keys : Pending(m, l) /\ <<m, l>> # <<n, k>> => Pending(m, l)'
  BY ReceiveStep
<1>2. unsent' = unsent /\ missed' = missed
  BY DEF Receive, history
<1>3. \A j \in Calls : \A m \in Nodes, l \in Keys : Announces(j, m, l) => Announces(j, m, l)'
  BY <1>1, MarkedCall DEF Announces, Basics
<1>4. KeepsParting(X)
  BY <1>0, <1>1, <1>2, <1>3 DEF KeepsParting, Lost
<1>5. \A m \in Nodes : \A e \in Entries(m)' : e \in Entries(m) /\ <<m, e.key>> \notin X
  BY <1>0, <1>1
<1> QED BY <1>1, <1>4, <1>5, OwnersPartAgain

LEMMA ListenerParts ==
  ASSUME Basics, OwnersPart, NEW n \in Nodes, ListenerDies(n)
  PROVE  OwnersPart'
<1>0. PICK X : X = {}
  OBVIOUS
<1>1. /\ Basics'
      /\ \A m \in Nodes : Entries(m)' = Entries(m)
      /\ \A m \in Nodes, k \in Keys : Pending(m, k) => Pending(m, k)' \/ <<m, k>> \in missed'
  BY ListenerDiesStep
<1>2. call' = call /\ unsent' = unsent /\ missed \subseteq missed'
  BY DEF ListenerDies
<1>3. KeepsParting(X)
  BY <1>1, <1>2 DEF KeepsParting, Lost, Announces
<1>4. \A m \in Nodes : \A e \in Entries(m)' : e \in Entries(m) /\ <<m, e.key>> \notin X
  BY <1>0, <1>1
<1> QED BY <1>1, <1>3, <1>4, OwnersPartAgain

LEMMA NextParts ==
  ASSUME Basics, OwnersPart, [Next]_vars
  PROVE  OwnersPart'
<1>1. ASSUME NEW i \in Calls, NEW n \in Nodes, NEW k \in Keys,
             \/ \E ttl \in BOOLEAN : BeginPut(i, n, k, ttl)
             \/ Miss(i, n, k) \/ Invalidate(i, n, k)
      PROVE  OwnersPart'
  <2>1. UNCHANGED <<inbox, unsent, missed>> /\ Free(i)
    BY <1>1 DEF BeginPut, Miss, Invalidate, history
  <2>2. call[i].step = "idle"
    BY <2>1, BusyCall DEF Basics
  <2>3. /\ Basics'
        /\ \A j \in Calls \ {i} : call'[j] = call[j] \/ call'[j] = Marked(j, n, k)
        /\ \A m \in Nodes : Entries(m)' \subseteq Entries(m)
    BY <1>1, BeginPutStep, MissStep, InvalidateStep
  <2> QED BY <2>1, <2>2, <2>3, QuietParts
<1>2. ASSUME NEW i \in Calls, RedisSet(i) \/ RedisGet(i) \/ RedisPttl(i)
      PROVE  OwnersPart'
  <2>1. UNCHANGED <<inbox, unsent, missed>> /\ call[i].step # "publish"
    BY <1>2 DEF RedisSet, RedisGet, RedisPttl, history
  <2>2. /\ Basics'
        /\ \A j \in Calls \ {i} : call'[j] = call[j]
        /\ \A m \in Nodes : Entries(m)' = Entries(m)
    BY <1>2, RedisSetStep, RedisGetStep, RedisPttlStep
  <2> QED BY <2>1, <2>2, QuietParts
<1>3. ASSUME NEW i \in Calls, Fill(i)
      PROVE  OwnersPart'
  <2>1. PICK n : n = call[i].node
    OBVIOUS
  <2>2. PICK k : k = call[i].key
    OBVIOUS
  <2>3. UNCHANGED <<inbox, unsent, missed>> /\ call[i].step # "publish"
    BY <1>3 DEF Fill, history
  <2>4. /\ Basics'
        /\ \A j \in Calls \ {i} : call'[j] = Marked(j, n, k)
        /\ \A m \in Nodes \ {n} : Entries(m)' = Entries(m)
        /\ \A x \in Entries(n)' : x.state = "S" \/ x \in Entries(n)
    BY <1>3, <2>1, <2>2, FillStep
  <2> QED BY <2>3, <2>4, QuietParts
<1>4. ASSUME \/ \E n \in Nodes, k \in Keys : Hit(n, k)
             \/ \E n \in Nodes : Subscribe(n)
             \/ \E k \in Keys : RedisExpires(k)
             \/ UNCHANGED vars
      PROVE  OwnersPart'
  <2>1. UNCHANGED <<inbox, unsent, missed, call>>
    BY <1>4 DEF Hit, Subscribe, RedisExpires, vars, history
  <2>2. Basics' /\ \A m \in Nodes : Entries(m)' \subseteq Entries(m)
    BY <1>4, HitStep, SubscribeStep, RedisExpiresStep, StutterStep
  <2> QED BY <2>1, <2>2, QuietParts
<1> QED
  BY <1>1, <1>2, <1>3, <1>4, PutParts, PublishParts, FailureParts, ListenerParts, ReceiveParts DEF Next

-----------------------------------------------------------------------------
(* Theorems *)

LEMMA InitCacheInv == Init => CacheInv
<1> SUFFICES ASSUME Init PROVE CacheInv
  OBVIOUS
<1>1. \A n \in Nodes : cache[n] = <<>> /\ Entries(n) = {} /\ Len(cache[n]) = 0
  <2>1. Elements(<<>>) = {} /\ Len(<<>>) = 0
    BY DEF Elements
  <2> QED BY <2>1 DEF Init, Entries
<1>2. TypeOK
  BY EmptySeq DEF Init, TypeOK
<1>3. LruBounded
  <2>1. 0 <= Capacity
    BY CapacityAssumption
  <2>2. 1..0 = {}
    OBVIOUS
  <2>3. \A n \in Nodes : Len(cache[n]) = 0
    BY <1>1
  <2> QED BY <2>1, <2>2, <2>3 DEF LruBounded
<1>4. WritesHaveValues /\ CallsExplained
  BY DEF Init, WritesHaveValues, CallsExplained, NoCall
<1>5. StoreIsLatest
  BY DEF Init, StoreIsLatest
<1>6. EntriesExplained /\ OwnersPart
  BY <1>1 DEF EntriesExplained, OwnersPart
<1> QED BY <1>2, <1>3, <1>4, <1>5, <1>6 DEF CacheInv

LEMMA NextCacheInv == CacheInv /\ [Next]_vars => CacheInv'
BY NextExplained, NextParts DEF CacheInv, Basics

\* The cache keeps its types.
THEOREM CacheTypeOK == Spec => []TypeOK
<1>1. CacheInv => TypeOK
  BY DEF CacheInv
<1> QED BY <1>1, InitCacheInv, NextCacheInv, PTL DEF Spec

\* A node holds one copy of a key and no more than its capacity, however requests mix.
THEOREM CacheLruBounded == Spec => []LruBounded
<1>1. CacheInv => LruBounded
  BY DEF CacheInv
<1> QED BY <1>1, InitCacheInv, NextCacheInv, PTL DEF Spec

\* A copy that is not the last write was put by a request during which the copy had
\* changed, or its invalidation is still to come, or was lost.
THEOREM CacheStaleIsExplained == Spec => []StaleIsExplained
<1>1. CacheInv => StaleIsExplained
  <2> SUFFICES ASSUME CacheInv, NEW n \in Nodes, NEW e \in Entries(n),
                      e.value # latest[e.key], ~e.raced, Explained(n, e.key, Calls)
               PROVE  \/ Pending(n, e.key) \/ InFlight(e.key)
                      \/ e.key \in unsent \/ <<n, e.key>> \in missed
    BY DEF CacheInv, EntriesExplained, StaleIsExplained
  <2>1. CASE Pending(n, e.key) \/ Lost(n, e.key)
    BY <2>1 DEF Lost
  <2>2. CASE \E j \in Calls : Sends(j, n, e.key)
    <3>1. PICK j \in Calls : Sends(j, n, e.key)
      BY <2>2
    <3>2. ~Free(j)
      BY <3>1, BusyCall DEF Sends, CacheInv
    <3> QED BY <3>1, <3>2 DEF InFlight, UnsentBy, Sends
  <2> QED BY <2>1, <2>2 DEF Explained
<1> QED BY <1>1, InitCacheInv, NextCacheInv, PTL DEF Spec

\* Once the requests have ended and the messages have arrived, with none lost, no two
\* nodes hold a key in M.
THEOREM CacheSingleModified == Spec => []SingleModified
<1>1. CacheInv => SingleModified
  <2> SUFFICES ASSUME CacheInv, Quiet, NEW n \in Nodes, NEW m \in Nodes,
                      NEW e \in Entries(n), NEW f \in Entries(m),
                      n # m, e.key = f.key, e.state = "M", f.state = "M"
               PROVE  FALSE
    BY DEF SingleModified
  <2>1. e.key \in Keys
    BY BoundedLists DEF CacheInv, EntryOf
  <2>2. Parting(n, m, e.key)
    BY DEF CacheInv, OwnersPart
  <2>3. \A j \in Calls : call[j].step = "idle"
    BY BusyCall DEF CacheInv, Quiet
  <2>4. ~Pending(n, e.key) /\ ~Pending(m, e.key) /\ ~Lost(n, e.key) /\ ~Lost(m, e.key)
    BY <2>1 DEF Quiet, Lost
  <2> QED BY <2>2, <2>3, <2>4 DEF Parting
<1> QED BY <1>1, InitCacheInv, NextCacheInv, PTL DEF Spec
=============================================================================
