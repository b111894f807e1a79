-------------------------- MODULE ShardQueueProofs --------------------------
(***************************************************************************)
(* Proofs about ShardQueue, for any number of owners, messages, consumers, *)
(* attempts and faults.  Four invariants, each preserved by every step:    *)
(* the types, with what the place of a call in the code says of it         *)
(* (TypeInv); what Redis holds of a message that nobody acked (DurableInv); *)
(* of a message whose acks no other call met, what each has done so far   *)
(* and that nothing brings the message back (FinalInv); and that consumers *)
(* read only what was pushed (ReadsAreStored).  The four together give that *)
(* every step is one of AtLeastOnce, or none of its steps.                 *)
(***************************************************************************)
EXTENDS ShardQueue, FiniteSetTheorems, FunctionTheorems, SequenceTheorems, TLAPS

-----------------------------------------------------------------------------
(* Lists *)

\* The places of the positions that are kept are the numbers up to their count.
LEMMA PlacesAreAll ==
  ASSUME NEW n \in Nat, NEW kept \in SUBSET (1..n)
  PROVE  /\ IsFiniteSet(kept) /\ Cardinality(kept) \in Nat
         /\ \A i \in kept : Place(kept, i) \in 1..Cardinality(kept)
         /\ \A i, j \in kept : Place(kept, i) = Place(kept, j) => i = j
         /\ \A p \in 1..Cardinality(kept) : \E i \in kept : Place(kept, i) = p
<1> DEFINE UpTo(i) == {k \in kept : k <= i}
           N == Cardinality(kept)
           f == [i \in kept |-> Place(kept, i)]
<1>1. IsFiniteSet(kept) /\ N \in Nat
  <2>1. IsFiniteSet(1..n)
    BY FS_Interval
  <2>2. IsFiniteSet(kept)
    BY <2>1, FS_Subset
  <2> QED BY <2>2, FS_CardinalityType
<1>2. \A i \in kept : IsFiniteSet(UpTo(i)) /\ Place(kept, i) \in 1..N
  <2> SUFFICES ASSUME NEW i \in kept PROVE IsFiniteSet(UpTo(i)) /\ Place(kept, i) \in 1..N
    OBVIOUS
  <2>1. UpTo(i) \in SUBSET kept /\ i \in UpTo(i)
    OBVIOUS
  <2>2. IsFiniteSet(UpTo(i)) /\ Cardinality(UpTo(i)) <= N
    BY <1>1, <2>1, FS_Subset
  <2>3. Cardinality(UpTo(i)) \in Nat /\ Cardinality(UpTo(i)) # 0
    BY <2>1, <2>2, FS_CardinalityType, FS_EmptySet
  <2> QED BY <1>1, <2>2, <2>3 DEF Place
<1>3. \A i, j \in kept : Place(kept, i) = Place(kept, j) => i = j
  <2>1. ASSUME NEW i \in kept, NEW j \in kept, i <= j, Place(kept, i) = Place(kept, j)
        PROVE  i = j
    <3>1. UpTo(i) \in SUBSET UpTo(j)
      <4>1. kept \subseteq Int
        OBVIOUS
      <4>2. \A k \in kept : k <= i => k <= j
        BY <4>1, <2>1
      <4> QED BY <4>2
    <3>2. IsFiniteSet(UpTo(j)) /\ Cardinality(UpTo(i)) = Cardinality(UpTo(j))
      BY <2>1, <1>2 DEF Place
    <3>3. UpTo(i) = UpTo(j)
      BY <3>1, <3>2, FS_Subset
    <3>4. j \in UpTo(i)
      BY <3>3
    <3> QED BY <3>4, <2>1
  <2>2. \A i, j \in kept : i <= j \/ j <= i
    OBVIOUS
  <2> QED BY <2>1, <2>2
<1>4. f \in Injection(kept, 1..N)
  BY <1>2, <1>3 DEF Injection, IsInjective
<1>5. IsFiniteSet(1..N) /\ Cardinality(1..N) = N
  <2>1. IsFiniteSet(1..N) /\ Cardinality(1..N) = IF 1 > N THEN 0 ELSE N - 1 + 1
    BY <1>1, FS_Interval
  <2> QED BY <2>1, <1>1
<1>6. f \in Surjection(kept, 1..N)
  BY <1>4, <1>5, FS_Injection
<1>7. \A p \in 1..N : \E i \in kept : Place(kept, i) = p
  BY <1>6 DEF Surjection
<1> QED BY <1>1, <1>2, <1>3, <1>7

\* LREM takes out m, and nothing else.
LEMMA WithoutElements ==
  ASSUME NEW q \in Seq(Msgs), NEW m
  PROVE  Without(q, m) \in Seq(Msgs) /\ Elements(Without(q, m)) = Elements(q) \ {m}
<1> DEFINE kept == {i \in 1..Len(q) : q[i] # m}
           N == Cardinality(kept)
           At(j) == CHOOSE i \in kept : Place(kept, i) = j
           r == [j \in 1..N |-> q[At(j)]]
<1>1. Len(q) \in Nat /\ \A i \in 1..Len(q) : q[i] \in Msgs
  BY LenProperties, ElementOfSeq
<1>2. /\ N \in Nat
      /\ \A i \in kept : Place(kept, i) \in 1..N
      /\ \A i, j \in kept : Place(kept, i) = Place(kept, j) => i = j
      /\ \A p \in 1..N : \E i \in kept : Place(kept, i) = p
  <2>1. kept \in SUBSET (1..Len(q))
    OBVIOUS
  <2> HIDE DEF kept
  <2> QED BY <1>1, <2>1, PlacesAreAll
<1>3. \A j \in 1..N : At(j) \in kept
  BY <1>2
<1>4. \A i \in kept : At(Place(kept, i)) = i
  BY <1>2
<1>5. Without(q, m) = r
  BY DEF Without
<1>6. r \in Seq(Msgs) /\ Len(r) = N
  <2>1. \A j \in 1..N : q[At(j)] \in Msgs
    BY <1>1, <1>3
  <2> HIDE DEF N, At
  <2>2. r \in [1..N -> Msgs]
    BY <2>1
  <2>3. r \in Seq(Msgs)
    BY <1>2, <2>2, SeqDef
  <2>4. DOMAIN r = 1..N /\ DOMAIN r = 1..Len(r) /\ Len(r) \in Nat
    BY <2>2, <2>3, LenProperties
  <2>5. Len(r) = N
    <3> HIDE DEF r
    <3>1. 1..N = 1..Len(r)
      BY <2>4
    <3> QED BY <3>1, <2>4, <1>2
  <2> QED BY <2>3, <2>5
<1>7. \A j \in 1..N : r[j] \in Elements(q) \ {m}
  BY <1>3 DEF Elements
<1>8. \A i \in kept : \E j \in 1..N : r[j] = q[i]
  BY <1>2, <1>4
<1> HIDE DEF r
<1>9. Elements(r) \subseteq Elements(q) \ {m}
  BY <1>6, <1>7 DEF Elements
<1>10. Elements(q) \ {m} \subseteq Elements(r)
  BY <1>6, <1>8 DEF Elements
<1> QED BY <1>5, <1>6, <1>9, <1>10

\* LPUSH adds m; RPOP takes the last element and leaves the others.
LEMMA PushElements ==
  ASSUME NEW q \in Seq(Msgs), NEW m \in Msgs
  PROVE  <<m>> \o q \in Seq(Msgs) /\ Elements(<<m>> \o q) = Elements(q) \cup {m}
<1> DEFINE r == <<m>> \o q
<1>1. <<m>> \in Seq(Msgs) /\ Len(<<m>>) = 1 /\ <<m>>[1] = m /\ Len(q) \in Nat
  BY LenProperties
<1>a. /\ r \in Seq(Msgs) /\ Len(r) = Len(<<m>>) + Len(q)
      /\ \A i \in 1..(Len(<<m>>) + Len(q)) :
           r[i] = IF i <= Len(<<m>>) THEN <<m>>[i] ELSE q[i - Len(<<m>>)]
  BY <1>1, ConcatProperties
<1> HIDE DEF r
<1>2. 1 \in 1..Len(r) /\ r[1] = m
  BY <1>1, <1>a
<1>3. \A i \in 1..Len(r) : i = 1 \/ (i - 1 \in 1..Len(q) /\ r[i] = q[i - 1])
  BY <1>1, <1>a
<1>4. \A i \in 1..Len(q) : i + 1 \in 1..Len(r) /\ r[i + 1] = q[i]
  BY <1>1, <1>a
<1>5. Elements(r) \subseteq Elements(q) \cup {m}
  BY <1>3, <1>2 DEF Elements
<1>6. Elements(q) \cup {m} \subseteq Elements(r)
  BY <1>2, <1>4 DEF Elements
<1> QED BY <1>a, <1>5, <1>6 DEF r

LEMMA PopElements ==
  ASSUME NEW q \in Seq(Msgs), q # <<>>
  PROVE  /\ SubSeq(q, 1, Len(q) - 1) \in Seq(Msgs)
         /\ Elements(q) = Elements(SubSeq(q, 1, Len(q) - 1)) \cup {q[Len(q)]}
         /\ q[Len(q)] \in Msgs
<1> DEFINE r == SubSeq(q, 1, Len(q) - 1)
<1>1. Len(q) \in Nat \ {0} /\ \A i \in 1..Len(q) : q[i] \in Msgs
  BY EmptySeq, ElementOfSeq
<1>2. r \in Seq(Msgs) /\ Len(r) = Len(q) - 1 /\ \A i \in 1..(Len(q) - 1) : r[i] = q[i]
  <2>1. \A i \in 1..(Len(q) - 1) : q[i] \in Msgs
    BY <1>1
  <2>2. /\ r \in Seq(Msgs) /\ Len(r) = IF 1 <= Len(q) - 1 THEN Len(q) - 1 - 1 + 1 ELSE 0
        /\ \A i \in 1..(Len(q) - 1 - 1 + 1) : r[i] = q[1 + i - 1]
    BY <1>1, <2>1, SubSeqProperties
  <2> HIDE DEF r
  <2>3. Len(r) = Len(q) - 1
    <3>1. PICK n \in Nat \ {0} : n = Len(q)
      BY <1>1
    <3>2. (IF 1 <= n - 1 THEN n - 1 - 1 + 1 ELSE 0) = n - 1
      OBVIOUS
    <3> QED BY <3>1, <3>2, <2>2
  <2>4. \A i \in 1..(Len(q) - 1) : i \in 1..(Len(q) - 1 - 1 + 1) /\ 1 + i - 1 = i
    BY <1>1
  <2> QED BY <2>2, <2>3, <2>4
<1> HIDE DEF r
<1>3. Elements(q) = Elements(r) \cup {q[Len(q)]}
  BY <1>1, <1>2 DEF Elements
<1> QED BY <1>1, <1>2, <1>3 DEF r

LEMMA NoElements == Elements(<<>>) = {}
BY DEF Elements

-----------------------------------------------------------------------------
(* Types *)

\* A call has a message exactly between its first command and its last.
Takes ==
  {t \in Take : /\ t.step = "pop" <=> t.msg = NoMsg
                /\ t.step # "pop" => t.owner \in Owner}
Requeues == {r \in Requeue : r.step = "lrem" <=> r.msg = NoMsg}
Acks ==
  {a \in Ack : /\ a.step \in {"inflight", "ready", "vis", "srem", "scard"} => a.owner \in Owner
               /\ a.step = "members" => "id" \in AckKinds
               /\ a.step \notin {"idle", "members"} => a.kind \in AckKinds}

CallTypes ==
  /\ con \in [Consumers -> Takes]
  /\ orphans \in SUBSET {t \in Takes : t.owner \in Owner}
  /\ worker \in [Owner -> Requeues]
  /\ ack \in [Msgs -> [Ackers -> Acks]]

DataTypes ==
  /\ ready \in [Owner -> Seq(Msgs)]
  /\ inflight \in [Owner -> SUBSET Msgs]
  /\ vis \in [Owner -> SUBSET Msgs]
  /\ due \in [Owner -> SUBSET Msgs]
  /\ body \in SUBSET Msgs
  /\ own \in [Msgs -> SUBSET Owner] /\ listed \in BOOLEAN

PublishTypes ==
  /\ pub \in [Msgs -> [owner : Owner \cup {Idle}, try : Nat]]
  /\ handlers \in SUBSET Handler

HistoryTypes ==
  /\ faults \in Nat
  /\ stored \in [Owner -> SUBSET Msgs]
  /\ delivered \in SUBSET Delivery
  /\ begun \in SUBSET Msgs
  /\ acked \in SUBSET (AckKinds \X Msgs)
  /\ tainted \in SUBSET Msgs

TypeInv == CallTypes /\ DataTypes /\ PublishTypes /\ HistoryTypes

LEMMA OwnerFacts ==
  /\ Owner \subseteq Nat /\ Idle \notin Owner /\ 1 \in Owner
  /\ \A o \in Owner : o < R => o + 1 \in Owner
  /\ \A o \in Owner : o # R => o + 1 \in Owner
BY RAssumption DEF Owner, Idle

LEMMA HandlerTypes ==
  /\ \A m \in Msgs, o \in Owner, n \in Nat : NewHandler(m, o, n) \in Handler
  /\ \A h \in Handler, s \in {"hset", "sadd", "lpush"} : [h EXCEPT !.step = s] \in Handler
BY DEF NewHandler, Handler

LEMMA TakeTypes ==
  /\ NoTake \in Takes /\ \A o \in Owner : [NoTake EXCEPT !.owner = o] \in Takes
  /\ \A t \in Takes : t.owner \in Owner => Fallback(t) \in Takes
  /\ \A t \in Takes, m \in Msgs : t.owner \in Owner => [t EXCEPT !.step = "zadd", !.msg = m] \in Takes
  /\ \A t \in Takes : t.step = "zadd" => [t EXCEPT !.step = "hget"] \in Takes
  /\ \A t \in Takes : t.step # "pop" => t.msg \in Msgs /\ t.owner \in Owner /\ WithItem(t) \in Takes
  /\ \A t \in Takes : [t EXCEPT !.out = {}] \in Takes /\ [t EXCEPT !.out = {}].owner = t.owner
  /\ \A t \in Takes : WithItem(t).owner = t.owner /\ t.out \in SUBSET Delivery
<1> USE DEF Takes, Take
<1>1. NoTake \in Takes /\ \A o \in Owner : [NoTake EXCEPT !.owner = o] \in Takes
  BY DEF NoTake
<1>2. \A t \in Takes : t.owner \in Owner => Fallback(t) \in Takes
  BY <1>1, OwnerFacts DEF Fallback
<1>3. \A t \in Takes, m \in Msgs : t.owner \in Owner => [t EXCEPT !.step = "zadd", !.msg = m] \in Takes
  BY NoMsgAssumption
<1>4. \A t \in Takes : t.step = "zadd" => [t EXCEPT !.step = "hget"] \in Takes
  OBVIOUS
<1>5. \A t \in Takes : t.step # "pop" => t.msg \in Msgs /\ t.owner \in Owner /\ WithItem(t) \in Takes
  <2> SUFFICES ASSUME NEW t \in Takes, t.step # "pop"
               PROVE  t.msg \in Msgs /\ t.owner \in Owner /\ WithItem(t) \in Takes
    OBVIOUS
  <2>1. t.msg \in Msgs /\ t.owner \in Owner
    OBVIOUS
  <2>2. [msg |-> t.msg, payload |-> t.msg \in body] \in Delivery
    BY <2>1 DEF Delivery
  <2>3. t.count + 1 \in Nat
    OBVIOUS
  <2> QED BY <2>1, <2>2, <2>3 DEF WithItem
<1>6. \A t \in Takes : [t EXCEPT !.out = {}] \in Takes /\ [t EXCEPT !.out = {}].owner = t.owner
  OBVIOUS
<1>7. \A t \in Takes : WithItem(t).owner = t.owner /\ t.out \in SUBSET Delivery
  BY DEF WithItem
<1> QED BY <1>1, <1>2, <1>3, <1>4, <1>5, <1>6, <1>7

LEMMA RequeueTypes ==
  /\ NoRequeue \in Requeues
  /\ \A r \in Requeues, S \in SUBSET Msgs : [r EXCEPT !.todo = S] \in Requeues
  /\ \A r \in Requeues : r.step = "lpush" => r.msg \in Msgs /\ [r EXCEPT !.step = "zrem"] \in Requeues
  /\ \A r \in Requeues : [r EXCEPT !.msg = NoMsg, !.step = "lrem"] \in Requeues
  /\ \A S \in SUBSET Msgs, m \in Msgs : [todo |-> S, msg |-> m, step |-> "lpush"] \in Requeues
BY NoMsgAssumption DEF NoRequeue, Requeues, Requeue

LEMMA AckTypes ==
  /\ NoAck \in Acks
  /\ \A S \in SUBSET Owner, first \in Owner, kind \in AckKinds :
       [step |-> "inflight", kind |-> kind, owner |-> first, todo |-> S, removed |-> FALSE] \in Acks
  /\ \A a \in Acks, o \in Owner, S \in SUBSET Owner : a.step \notin {"idle", "members"} =>
       [a EXCEPT !.step = "inflight", !.owner = o, !.todo = S] \in Acks
  /\ "id" \in AckKinds => [NoAck EXCEPT !.step = "members"] \in Acks
  /\ \A a \in Acks, s \in {"ready", "vis", "srem", "scard"}, b \in BOOLEAN :
       a.step \in {"inflight", "ready", "vis", "srem", "scard"} =>
         /\ [a EXCEPT !.step = s, !.removed = b] \in Acks
         /\ [a EXCEPT !.step = s] \in Acks
  /\ \A a \in Acks, s \in {"body", "owners"} : a.step \notin {"idle", "members"} => [a EXCEPT !.step = s] \in Acks
<1> USE DEF Acks, Ack, AckSteps
<1>1. NoAck \in Acks
  BY DEF NoAck
<1>2. \A S \in SUBSET Owner, first \in Owner, kind \in AckKinds :
       [step |-> "inflight", kind |-> kind, owner |-> first, todo |-> S, removed |-> FALSE] \in Acks
  OBVIOUS
<1>3. \A a \in Acks, o \in Owner, S \in SUBSET Owner : a.step \notin {"idle", "members"} =>
       [a EXCEPT !.step = "inflight", !.owner = o, !.todo = S] \in Acks
  OBVIOUS
<1>4. "id" \in AckKinds => [NoAck EXCEPT !.step = "members"] \in Acks
  BY DEF NoAck
<1>5. \A a \in Acks, s \in {"ready", "vis", "srem", "scard"}, b \in BOOLEAN :
       a.step \in {"inflight", "ready", "vis", "srem", "scard"} =>
         /\ [a EXCEPT !.step = s, !.removed = b] \in Acks
         /\ [a EXCEPT !.step = s] \in Acks
  OBVIOUS
<1>6. \A a \in Acks, s \in {"body", "owners"} : a.step \notin {"idle", "members"} => [a EXCEPT !.step = s] \in Acks
  OBVIOUS
<1> QED BY <1>1, <1>2, <1>3, <1>4, <1>5, <1>6

\* A step of one ack is a step of that ack only.
LEMMA GoesThere ==
  ASSUME ack \in [Msgs -> [Ackers -> Acks]], NEW m \in Msgs, NEW k \in Ackers, NEW b, Goes(m, k, b)
  PROVE  /\ ack'[m][k] = b
         /\ \A j \in Ackers : j # k => ack'[m][j] = ack[m][j]
         /\ \A x \in Msgs : x # m => ack'[x] = ack[x]
BY DEF Goes

LEMMA AckGoes ==
  ASSUME NEW m \in Msgs, NEW k \in Ackers,
         AckStep(m, k) \/ AbandonAck(m, k) \/ \E kind, o : BeginAck(m, k, kind, o)
  PROVE  \E b : Goes(m, k, b)
BY AckKindsAssumption DEF AckStep, AckMembers, AckInflight, AckReady, AckVis, AckSrem, AckScard, AckBody, AckOwners, Acked,
   AbandonAck, BeginAck, First

LEMMA InitTypes == Init => TypeInv
<1> SUFFICES ASSUME Init PROVE TypeInv
  OBVIOUS
<1>1. CallTypes
  BY TakeTypes, RequeueTypes, AckTypes DEF Init, CallTypes
<1>2. DataTypes
  BY EmptySeq DEF Init, DataTypes
<1>3. PublishTypes /\ HistoryTypes
  BY DEF Init, PublishTypes, HistoryTypes
<1> QED BY <1>1, <1>2, <1>3 DEF TypeInv

LEMMA NextTypes == TypeInv /\ [Next]_vars => TypeInv'
<1> SUFFICES ASSUME TypeInv, [Next]_vars PROVE TypeInv'
  OBVIOUS
<1> USE DEF CallTypes, DataTypes, PublishTypes, HistoryTypes
<1>typesp. TypeInv' <=> CallTypes' /\ DataTypes' /\ PublishTypes' /\ HistoryTypes'
  BY DEF TypeInv
<1>a. CallTypes /\ DataTypes /\ PublishTypes /\ HistoryTypes
  BY DEF TypeInv
<1>con. ASSUME NEW w \in Consumers, NEW t \in Takes, con' = [con EXCEPT ![w] = t],
               UNCHANGED <<orphans, worker, ack>>
        PROVE  CallTypes'
  BY <1>con, <1>a
<1>ack. ASSUME NEW m \in Msgs, NEW k \in Ackers, NEW b \in Acks, Goes(m, k, b),
               UNCHANGED <<con, orphans, worker>>
        PROVE  CallTypes'
  BY <1>ack, <1>a DEF Goes
<1>pub. ASSUME NEW m \in Msgs, NEW o \in Owner \cup {Idle}, NEW n \in Nat,
               pub' = [pub EXCEPT ![m] = [owner |-> o, try |-> n]]
        PROVE  pub' \in [Msgs -> [owner : Owner \cup {Idle}, try : Nat]]
  BY <1>pub, <1>a
<1>publish. ASSUME NEW m \in Msgs, Publish(m) PROVE TypeInv'
  <2>1. PublishTypes'
    BY <1>publish, <1>a, OwnerFacts, HandlerTypes DEF Publish
  <2> QED BY <1>publish, <1>a, <1>typesp, <2>1 DEF Publish, history
<1>late. ASSUME NEW m \in Msgs, PublishTimeout(m) PROVE TypeInv'
  <2>1. pub[m].owner \in Owner /\ pub[m].try \in Nat /\ pub[m].try + 1 \in Nat
    BY <1>late, <1>a DEF PublishTimeout
  <2>2. NewHandler(m, pub[m].owner, pub[m].try + 1) \in Handler
    BY <2>1, HandlerTypes
  <2>3. handlers' \in SUBSET Handler
    BY <1>late, <1>a, <2>2 DEF PublishTimeout
  <2>4. pub' \in [Msgs -> [owner : Owner \cup {Idle}, try : Nat]]
    <3>1. \/ pub' = [pub EXCEPT ![m].try = @ + 1]
          \/ pub' = [pub EXCEPT ![m].owner = Idle]
      BY <1>late DEF PublishTimeout
    <3>2. \/ pub' = [pub EXCEPT ![m] = [owner |-> pub[m].owner, try |-> pub[m].try + 1]]
          \/ pub' = [pub EXCEPT ![m] = [owner |-> Idle, try |-> pub[m].try]]
      <4>1. pub[m] = [owner |-> pub[m].owner, try |-> pub[m].try]
        BY <1>a
      <4> QED BY <3>1, <4>1, <1>a
    <3> QED BY <3>2, <2>1, <1>pub
  <2>5. CallTypes' /\ DataTypes'
    BY <1>late, <1>a DEF PublishTimeout, redis
  <2>6. HistoryTypes'
    BY <1>late, <1>a DEF PublishTimeout, Fault, history
  <2> QED BY <1>typesp, <2>3, <2>4, <2>5, <2>6
<1>handler. ASSUME NEW h \in handlers, PublishBody(h) \/ PublishOwner(h) PROVE TypeInv'
  <2>1. PublishTypes'
    <3>1. h \in Handler /\ \E s \in {"hset", "sadd", "lpush"} : To(h, s)
      BY <1>handler, <1>a DEF PublishBody, PublishOwner
    <3>2. handlers' \in SUBSET Handler
      BY <3>1, <1>a, HandlerTypes DEF To
    <3> QED BY <1>handler, <3>2, <1>a DEF PublishBody, PublishOwner
  <2>2. DataTypes'
    <3>1. h.msg \in Msgs /\ h.owner \in Owner
      BY <1>a DEF Handler
    <3>2. CASE PublishBody(h)
      BY <3>1, <3>2, <1>a DEF PublishBody
    <3>3. CASE PublishOwner(h)
      BY <3>1, <3>3, <1>a DEF PublishOwner, OwnersWith
    <3> QED BY <3>2, <3>3, <1>handler
  <2> QED BY <1>handler, <1>a, <1>typesp, <2>1, <2>2 DEF PublishBody, PublishOwner, history
<1>ready. ASSUME NEW h \in handlers, PublishReady(h) PROVE TypeInv'
  <2>0. h.msg \in Msgs /\ h.owner \in Owner
    BY <1>a DEF Handler
  <2>1. PublishTypes'
    <3>1. h.owner # R => NewHandler(h.msg, h.owner + 1, 1) \in Handler /\ h.owner + 1 \in Owner
      BY <2>0, OwnerFacts, HandlerTypes
    <3>2. handlers' \in SUBSET Handler
      BY <1>ready, <1>a, <3>1 DEF PublishReady
    <3>3. pub' \in [Msgs -> [owner : Owner \cup {Idle}, try : Nat]]
      <4>1. \/ UNCHANGED pub
            \/ pub' = [pub EXCEPT ![h.msg] = [owner |-> IF h.owner = R THEN Idle ELSE h.owner + 1, try |-> 1]]
        BY <1>ready DEF PublishReady
      <4>2. (IF h.owner = R THEN Idle ELSE h.owner + 1) \in Owner \cup {Idle}
        BY <3>1
      <4> QED BY <4>1, <4>2, <1>a, <1>pub, <2>0
    <3> QED BY <3>2, <3>3
  <2>2. DataTypes'
    BY <1>ready, <1>a, <2>0, PushElements DEF PublishReady, Push
  <2> QED BY <1>ready, <1>a, <1>typesp, <2>0, <2>1, <2>2 DEF PublishReady
<1>consume. ASSUME NEW w \in Consumers, Consume(w) PROVE TypeInv'
  <2>1. CallTypes'
    BY <1>consume, <1>a, OwnerFacts, TakeTypes DEF Consume
  <2> QED BY <1>consume, <1>a, <1>typesp, <2>1 DEF Consume, redis, history
<1>poplast. ASSUME NEW o \in Owner, ready[o] # <<>>, PopLast(o)
            PROVE  DataTypes' /\ PublishTypes' /\ HistoryTypes' /\ Last(o) \in Msgs
  <2>1. DataTypes' /\ Last(o) \in Msgs
    BY <1>poplast, <1>a, PopElements DEF PopLast, Last, InflightWith
  <2> QED BY <1>poplast, <1>a, <2>1 DEF PopLast, Taint
<1>pop. ASSUME NEW w \in Consumers, Pop(w) PROVE TypeInv'
  <2>1. CASE ready[con[w].owner] = <<>>
    <3>0. con[w] \in Takes /\ con[w].owner \in Owner
      BY <1>pop, <1>a DEF Pop, Takes, Take
    <3>1. CallTypes'
      <4>1. con' = [con EXCEPT ![w] = NoTake] \/ con' = [con EXCEPT ![w] = Fallback(con[w])]
        BY <1>pop, <2>1 DEF Pop, Return
      <4>2. NoTake \in Takes /\ Fallback(con[w]) \in Takes
        BY <3>0, TakeTypes
      <4> QED BY <1>pop, <1>con, <2>1, <4>1, <4>2 DEF Pop
    <3>2. con[w].out \in SUBSET Delivery
      BY <1>a, TakeTypes
    <3> QED BY <1>pop, <1>a, <1>typesp, <2>1, <3>1, <3>2 DEF Pop, Return, redis, history
  <2>2. CASE ready[con[w].owner] # <<>>
    <3>1. con[w].owner \in Owner /\ con[w] \in Takes
      BY <1>pop, <1>a DEF Pop, Takes, Take
    <3>2. PopLast(con[w].owner) /\ con' = [con EXCEPT ![w] = Taken(con[w])] /\ UNCHANGED orphans
      BY <1>pop, <2>2 DEF Pop
    <3>3. Taken(con[w]) \in Takes
      BY <3>1, <3>2, <2>2, <1>poplast, TakeTypes DEF Taken
    <3>4. CallTypes'
      BY <3>2, <3>3, <1>a DEF PopLast
    <3> QED BY <3>1, <3>2, <3>4, <2>2, <1>poplast, <1>typesp
  <2> QED BY <2>1, <2>2
<1>due. ASSUME NEW o \in Owner, NEW m \in Msgs, Deadline(o, m) PROVE DataTypes' /\ PublishTypes' /\ HistoryTypes'
  BY <1>due, <1>a DEF Deadline, history
<1>deadline. ASSUME NEW w \in Consumers, SetDeadline(w) PROVE TypeInv'
  <2>1. con[w] \in Takes /\ con[w].owner \in Owner /\ con[w].msg \in Msgs
    BY <1>deadline, <1>a, TakeTypes DEF SetDeadline
  <2>2. CallTypes'
    <3>1. con' = [con EXCEPT ![w] = [con[w] EXCEPT !.step = "hget"]] /\ con[w].step = "zadd"
      BY <1>deadline, <1>a DEF SetDeadline
    <3>2. con' \in [Consumers -> Takes]
      BY <3>1, <2>1, <1>a, TakeTypes
    <3> QED BY <1>deadline, <1>a, <3>2 DEF SetDeadline, Deadline
  <2> QED BY <1>deadline, <1>due, <1>typesp, <2>1, <2>2 DEF SetDeadline
<1>read. ASSUME NEW w \in Consumers, ReadPayload(w) PROVE TypeInv'
  <2>1. WithItem(con[w]) \in Takes /\ WithItem(con[w]).out \in SUBSET Delivery
    BY <1>read, <1>a, TakeTypes DEF ReadPayload
  <2>2. CallTypes'
    <3>1. con' = [con EXCEPT ![w] = NoTake] \/ con' = [con EXCEPT ![w] = WithItem(con[w])]
      BY <1>read DEF ReadPayload, Return
    <3> QED BY <1>read, <1>con, <2>1, <3>1, TakeTypes DEF ReadPayload
  <2> QED BY <1>read, <1>a, <1>typesp, <2>1, <2>2 DEF ReadPayload, Return, redis, history
<1>timeout. ASSUME NEW w \in Consumers, ConsumeTimeout(w) PROVE TypeInv'
  <2>1. con[w] \in Takes /\ con[w].owner \in Owner
    BY <1>timeout, <1>a DEF ConsumeTimeout, Takes, Take
  <2>2. CallTypes'
    BY <1>timeout, <1>a, <2>1, TakeTypes DEF ConsumeTimeout
  <2> QED BY <1>timeout, <1>a, <1>typesp, <2>2 DEF ConsumeTimeout, Fault, redis, history
<1>orphan. ASSUME NEW t \in orphans, OrphanStep(t) PROVE TypeInv'
  <2>0. t \in Takes /\ t.owner \in Owner
    BY <1>a
  <2>1. CASE t.step = "pop" /\ ready[t.owner] # <<>> /\ PopLast(t.owner)
             /\ orphans' = (orphans \ {t}) \cup {Taken(t)} /\ UNCHANGED con
    <3>1. Taken(t) \in Takes /\ Taken(t).owner = t.owner
      BY <2>0, <2>1, <1>poplast, TakeTypes DEF Taken, Takes, Take
    <3>2. CallTypes'
      BY <2>0, <2>1, <3>1, <1>a DEF PopLast
    <3> QED BY <2>0, <2>1, <3>2, <1>poplast, <1>typesp
  <2>2. CASE t.step # "pop" /\ Deadline(t.owner, t.msg) /\ UNCHANGED con
             /\ orphans' \subseteq orphans \cup {[WithItem(t) EXCEPT !.out = {}]}
    <3>1. t.msg \in Msgs /\ [WithItem(t) EXCEPT !.out = {}] \in Takes
          /\ [WithItem(t) EXCEPT !.out = {}].owner = t.owner
      BY <2>0, <2>2, TakeTypes
    <3>2. CallTypes'
      BY <2>0, <2>2, <3>1, <1>a DEF Deadline
    <3> QED BY <2>0, <2>2, <3>1, <3>2, <1>due, <1>typesp
  <2>3. CASE /\ t.step = "hget" /\ orphans' \subseteq orphans \cup {[WithItem(t) EXCEPT !.out = {}]}
             /\ UNCHANGED <<redis, pub, handlers, con, worker, ack, faults, history>>
    <3>1. [WithItem(t) EXCEPT !.out = {}] \in Takes /\ [WithItem(t) EXCEPT !.out = {}].owner = t.owner
      BY <2>0, <2>3, TakeTypes
    <3> QED BY <2>0, <2>3, <3>1, <1>a, <1>typesp DEF redis, history
  <2>4. CASE orphans' \subseteq orphans /\ UNCHANGED <<redis, pub, handlers, con, worker, ack, faults, history>>
    BY <2>4, <1>a, <1>typesp DEF redis, history
  <2> QED BY <1>orphan, <2>1, <2>2, <2>3, <2>4 DEF OrphanStep
<1>expire. ASSUME NEW o \in Owner, NEW m \in Msgs, Expire(o, m) PROVE TypeInv'
  BY <1>expire, <1>a, <1>typesp DEF Expire, tasks, history
<1>scan. ASSUME NEW o \in Owner, Scan(o) PROVE TypeInv'
  <2>1. CallTypes'
    BY <1>scan, <1>a, RequeueTypes DEF Scan
  <2> QED BY <1>scan, <1>a, <1>typesp, <2>1 DEF Scan, Taint, redis
<1>lrem. ASSUME NEW o \in Owner, NEW m \in Msgs, RequeueLrem(o, m) PROVE TypeInv'
  <2>1. worker[o].todo \ {m} \in SUBSET Msgs
    BY <1>a DEF Requeues, Requeue
  <2>2. CallTypes'
    BY <1>lrem, <1>a, <2>1, RequeueTypes DEF RequeueLrem
  <2> QED BY <1>lrem, <1>a, <1>typesp, <2>2 DEF RequeueLrem, history
<1>lpush. ASSUME NEW o \in Owner, RequeueLpush(o) PROVE TypeInv'
  <2>1. worker[o].msg \in Msgs
    BY <1>lpush, <1>a, RequeueTypes DEF RequeueLpush
  <2>2. CallTypes'
    BY <1>lpush, <1>a, RequeueTypes DEF RequeueLpush
  <2>3. DataTypes'
    BY <1>lpush, <1>a, <2>1, PushElements DEF RequeueLpush, Push
  <2> QED BY <1>lpush, <1>a, <1>typesp, <2>2, <2>3 DEF RequeueLpush, history
<1>zrem. ASSUME NEW o \in Owner, RequeueZrem(o) PROVE TypeInv'
  <2>1. CallTypes'
    BY <1>zrem, <1>a, RequeueTypes DEF RequeueZrem
  <2> QED BY <1>zrem, <1>a, <1>typesp, <2>1 DEF RequeueZrem, Zrem, history
<1>begin. ASSUME NEW m \in Msgs, NEW k \in Ackers, NEW kind, NEW o \in Owner \cup {Idle},
                 BeginAck(m, k, kind, o), kind = "owner" => o \in Owner
          PROVE  TypeInv'
  <2>1. CallTypes'
    <3>1. CASE First(m, k, kind, own[m]) \/ (o \in Owner /\ First(m, k, kind, {o}))
      <4>1. PICK S \in SUBSET Owner, first \in Owner :
              Goes(m, k, [step |-> "inflight", kind |-> kind, owner |-> first, todo |-> S, removed |-> FALSE])
        <5>1. PICK owners \in SUBSET Owner : First(m, k, kind, owners)
          BY <3>1, <1>a
        <5> QED BY <5>1 DEF First
      <4> QED BY <1>begin, <1>ack, <4>1, AckTypes DEF BeginAck
    <3>2. CASE kind = "id" /\ Goes(m, k, [NoAck EXCEPT !.step = "members"])
      BY <1>begin, <1>ack, <3>2, AckTypes DEF BeginAck
    <3> QED BY <1>begin, <3>1, <3>2, AckKindsAssumption DEF BeginAck
  <2> QED BY <1>begin, <1>a, <1>typesp, <2>1 DEF BeginAck, redis
<1>members. ASSUME NEW m \in Msgs, NEW k \in Ackers, AckMembers(m, k) PROVE TypeInv'
  <2>1. "id" \in AckKinds
    BY <1>members, <1>a DEF AckMembers, Acks
  <2>2. CallTypes'
    <3>1. CASE Goes(m, k, NoAck)
      BY <1>members, <1>ack, <3>1, AckTypes DEF AckMembers
    <3>2. CASE First(m, k, "id", own[m])
      <4>1. PICK first \in Owner :
              Goes(m, k, [step |-> "inflight", kind |-> "id", owner |-> first,
                          todo |-> own[m] \ {first}, removed |-> FALSE])
        BY <3>2, <1>a DEF First
      <4>2. own[m] \ {first} \in SUBSET Owner
        BY <1>a
      <4> QED BY <1>members, <1>ack, <2>1, <4>1, <4>2, AckTypes DEF AckMembers
    <3> QED BY <1>members, <3>1, <3>2 DEF AckMembers
  <2> QED BY <1>members, <1>a, <1>typesp, <2>2 DEF AckMembers, redis, history
<1>of. ASSUME NEW m \in Msgs, NEW k \in Ackers
       PROVE  /\ ack[m][k] \in Acks /\ ack[m][k].removed \in BOOLEAN /\ ack[m][k].todo \in SUBSET Owner
              /\ ack[m][k].step \in {"inflight", "ready", "vis", "srem", "scard"} => ack[m][k].owner \in Owner
              /\ ack[m][k].step \in {"srem", "scard", "body", "owners"} => ack[m][k].kind \in AckKinds
  BY <1>a DEF Acks, Ack
<1>inflight. ASSUME NEW m \in Msgs, NEW k \in Ackers, AckInflight(m, k) PROVE TypeInv'
  <2>1. PICK b \in Acks : Goes(m, k, b)
    <3>1. (ack[m][k].removed \/ m \in inflight[ack[m][k].owner]) \in BOOLEAN
      OBVIOUS
    <3> QED BY <1>inflight, <1>of, <3>1, AckTypes DEF AckInflight
  <2>2. CallTypes'
    BY <1>inflight, <1>ack, <2>1 DEF AckInflight
  <2> QED BY <1>inflight, <1>a, <1>typesp, <2>2 DEF AckInflight, history
<1>remove. ASSUME NEW m \in Msgs, NEW k \in Ackers, AckReady(m, k) PROVE TypeInv'
  <2>1. ack[m][k].owner \in Owner
    BY <1>remove, <1>of DEF AckReady
  <2>2. PICK b \in Acks : Goes(m, k, b)
    <3>1. (ack[m][k].removed \/ m \in Elements(ready[ack[m][k].owner])) \in BOOLEAN
      OBVIOUS
    <3> QED BY <1>remove, <1>of, <3>1, AckTypes DEF AckReady
  <2>3. CallTypes'
    BY <1>remove, <1>ack, <2>2 DEF AckReady
  <2>4. DataTypes'
    BY <1>remove, <1>a, <2>1, WithoutElements DEF AckReady, ReadyAfterAck
  <2> QED BY <1>remove, <1>a, <1>typesp, <2>3, <2>4 DEF AckReady, history
<1>vis. ASSUME NEW m \in Msgs, NEW k \in Ackers, AckVis(m, k) PROVE TypeInv'
  <2>1. PICK b \in Acks : Goes(m, k, b)
    <3>1. CASE ack[m][k].todo # {}
      BY <1>vis, <1>of, <3>1, AckTypes DEF AckVis
    <3>2. CASE ack[m][k].todo = {}
      BY <1>vis, <1>of, <3>2, AckTypes DEF AckVis, AfterOwner
    <3> QED BY <3>1, <3>2
  <2>2. CallTypes'
    BY <1>vis, <1>ack, <2>1 DEF AckVis
  <2> QED BY <1>vis, <1>a, <1>typesp, <2>2 DEF AckVis, Zrem, history
<1>end. ASSUME NEW m \in Msgs, NEW k \in Ackers,
               AckSrem(m, k) \/ AckScard(m, k) \/ AckBody(m, k) \/ AckOwners(m, k)
        PROVE  TypeInv'
  <2>1. PICK b \in Acks : Goes(m, k, b)
    <3>1. CASE AckSrem(m, k) \/ AckBody(m, k)
      BY <1>of, <3>1, AckTypes DEF AckSrem, AckBody
    <3>2. CASE AckScard(m, k)
      BY <1>of, <3>2, AckTypes DEF AckScard, Acked
    <3>3. CASE AckOwners(m, k)
      BY <3>3, AckTypes DEF AckOwners, Acked
    <3> QED BY <1>end, <3>1, <3>2, <3>3
  <2>2. CallTypes'
    BY <1>end, <1>ack, <2>1 DEF AckSrem, AckScard, AckBody, AckOwners
  <2>3. DataTypes'
    <3>1. CASE AckSrem(m, k) \/ AckOwners(m, k)
      <4>1. own' \in [Msgs -> SUBSET Owner]
        <5>1. own \in [Msgs -> SUBSET Owner] /\ own[m] \ {ack[m][k].owner} \in SUBSET Owner
          BY <1>a
        <5>2. \/ own' = [own EXCEPT ![m] = own[m] \ {ack[m][k].owner}]
              \/ own' = [own EXCEPT ![m] = {}]
          BY <3>1 DEF AckSrem, AckOwners
        <5> QED BY <5>1, <5>2
      <4> QED BY <3>1, <4>1, <1>a DEF AckSrem, AckOwners
    <3>2. CASE AckScard(m, k) \/ AckBody(m, k)
      BY <3>2, <1>a DEF AckScard, AckBody, redis
    <3> QED BY <1>end, <3>1, <3>2
  <2>4. PublishTypes' /\ HistoryTypes'
    BY <1>end, <1>a, <1>of DEF AckSrem, AckScard, AckBody, AckOwners, Acked, history
  <2> QED BY <1>typesp, <2>2, <2>3, <2>4
<1>crash. ASSUME NEW o \in Owner, Crash(o) PROVE TypeInv'
  <2>1. CallTypes'
    BY <1>crash, <1>a, TakeTypes, RequeueTypes DEF Crash
  <2> QED BY <1>crash, <1>a, <1>typesp, <2>1 DEF Crash, Fault, redis, history
<1>fails. ASSUME NEW o \in Owner, RequeueFails(o) PROVE TypeInv'
  <2>1. CallTypes'
    BY <1>fails, <1>a, RequeueTypes DEF RequeueFails
  <2> QED BY <1>fails, <1>a, <1>typesp, <2>1 DEF RequeueFails, Fault, redis, history
<1>abandon. ASSUME NEW m \in Msgs, NEW k \in Ackers, AbandonAck(m, k) PROVE TypeInv'
  <2>1. CallTypes'
    BY <1>abandon, <1>ack, AckTypes DEF AbandonAck
  <2> QED BY <1>abandon, <1>a, <1>typesp, <2>1 DEF AbandonAck, Fault, redis, history
<1>stutter. ASSUME UNCHANGED vars PROVE TypeInv'
  BY <1>stutter, <1>a, <1>typesp DEF vars, redis, tasks, history
<1> HIDE DEF CallTypes, DataTypes, PublishTypes, HistoryTypes
<1> QED
  BY <1>publish, <1>late, <1>handler, <1>ready, <1>consume, <1>pop, <1>deadline, <1>read, <1>timeout, <1>orphan, <1>expire,
     <1>scan, <1>lrem, <1>lpush, <1>zrem, <1>begin, <1>members, <1>inflight, <1>remove, <1>vis, <1>end, <1>crash,
     <1>fails, <1>abandon, <1>stutter DEF Next, PublishStep, TakeStep, RequeueStep, AckStep

\* Every variable keeps its type, every call the shape its place in the code gives it.
THEOREM QueueTypeOK == Spec => []TypeOK
<1>1. TypeInv => TypeOK
  BY DEF TypeInv, CallTypes, DataTypes, PublishTypes, HistoryTypes, TypeOK, Takes, Requeues, Acks
<1> QED BY <1>1, InitTypes, NextTypes, PTL DEF Spec

-----------------------------------------------------------------------------
(* What is in Redis *)

\* Calls that work on a message which nobody acked yet find it written in the
\* order of the code: the body, then the owner, then the list.
Written ==
  \A h \in handlers : h.msg \notin begun =>
    /\ h.step # "hset" => h.msg \in body
    /\ h.step = "lpush" => h.owner \in own[h.msg]
StoredWhole == \A o \in Owner : \A m \in stored[o] \ begun : m \in body /\ o \in own[m]

AckingIsBegun == \A m \in Msgs : Acking(m) => m \in begun

\* Nothing appears at an owner that was not pushed there.
KnownCopies == \A o \in Owner : Copies(o) \subseteq stored[o] /\ due[o] \subseteq vis[o]
KnownTakes ==
  /\ \A w \in Consumers : con[w].step # "pop" => con[w].msg \in stored[con[w].owner]
  /\ \A t \in orphans : t.step # "pop" => t.msg \in stored[t.owner]
KnownRequeues ==
  \A o \in Owner :
    /\ worker[o].todo \subseteq stored[o] /\ worker[o].msg \notin worker[o].todo
    /\ worker[o].msg # NoMsg => worker[o].msg \in stored[o]

\* Until it has pushed a message, the worker leaves it in vis.
SafeRequeues ==
  \A o \in Owner :
    /\ \A m \in worker[o].todo \ begun : m \in vis[o]
    /\ worker[o].step = "lpush" /\ worker[o].msg \notin begun => worker[o].msg \in vis[o]
    /\ worker[o].step = "zrem" /\ worker[o].msg \notin begun =>
         worker[o].msg \in Elements(ready[o]) \cup inflight[o]

ReadPayloads == \A w \in Consumers : \A d \in con[w].out : ~d.payload => d.msg \in begun

DurableInv ==
  /\ Written /\ StoredWhole /\ AckingIsBegun
  /\ KnownCopies /\ KnownTakes /\ KnownRequeues
  /\ SafeRequeues /\ NothingIsLost
  /\ ReadPayloads /\ PayloadUntilAck

LEMMA EmptyCopies == Init => \A o \in Owner : Copies(o) = {}
BY NoElements DEF Init, Copies

LEMMA InitDurable == Init => DurableInv
BY EmptyCopies DEF Init, DurableInv, Written, StoredWhole, AckingIsBegun, Acking, KnownCopies, KnownTakes, KnownRequeues, SafeRequeues,
   NothingIsLost, ReadPayloads, PayloadUntilAck, NoTake, NoRequeue, NoAck

LEMMA NextDurable == TypeInv /\ DurableInv /\ [Next]_vars => DurableInv'
<1> SUFFICES ASSUME TypeInv, DurableInv, [Next]_vars PROVE DurableInv'
  OBVIOUS
<1> USE DEF DurableInv
<1>a. CallTypes /\ DataTypes /\ PublishTypes /\ HistoryTypes
  BY DEF TypeInv
<1>publish. ASSUME NEW m \in Msgs, Publish(m) \/ PublishTimeout(m) PROVE DurableInv'
  <2>1. Written'
    BY <1>publish DEF Publish, PublishTimeout, Written, NewHandler, redis, history
  <2>2. StoredWhole' /\ AckingIsBegun' /\ KnownTakes' /\ KnownRequeues' /\ ReadPayloads' /\ PayloadUntilAck'
    BY <1>publish DEF Publish, PublishTimeout, StoredWhole, AckingIsBegun, Acking, KnownTakes, KnownRequeues, ReadPayloads,
       PayloadUntilAck, redis, history
  <2>3. KnownCopies' /\ NothingIsLost' /\ SafeRequeues'
    BY <1>publish DEF Publish, PublishTimeout, KnownCopies, NothingIsLost, SafeRequeues, Copies, redis, history
  <2> QED BY <2>1, <2>2, <2>3
<1>handler. ASSUME NEW h \in handlers, PublishBody(h) \/ PublishOwner(h) PROVE DurableInv'
  <2>1. h.msg \in Msgs /\ h.owner \in Owner
    BY <1>a DEF PublishTypes, Handler
  <2>2. body \subseteq body' /\ \A m \in Msgs : own[m] \subseteq own'[m]
    BY <1>handler, <1>a, <2>1 DEF PublishBody, PublishOwner, OwnersWith, DataTypes
  <2>3. Written'
    <3>1. CASE PublishBody(h)
      <4>1. \A g \in handlers' : g \in handlers \/ (g = [h EXCEPT !.step = "sadd"] /\ g.step = "sadd" /\ g.msg = h.msg)
        BY <3>1, <1>a DEF PublishBody, To, PublishTypes, Handler
      <4> QED BY <3>1, <4>1 DEF PublishBody, Written, history
    <3>2. CASE PublishOwner(h)
      <4>1. \A g \in handlers' : g \in handlers \/ (g.step = "lpush" /\ g.msg = h.msg /\ g.owner = h.owner)
        BY <3>2, <1>a DEF PublishOwner, To, PublishTypes, Handler
      <4>2. h.owner \in own'[h.msg] /\ \A g \in handlers : g.msg \in Msgs
        BY <3>2, <1>a, <2>1 DEF PublishOwner, OwnersWith, DataTypes, PublishTypes, Handler
      <4>3. \A g \in handlers : g.owner \in own[g.msg] => g.owner \in own'[g.msg]
        BY <4>2, <2>2
      <4> QED BY <3>2, <4>1, <4>2, <4>3 DEF PublishOwner, Written, history
    <3> QED BY <1>handler, <3>1, <3>2
  <2>4. StoredWhole'
    BY <1>handler, <1>a, <2>2 DEF PublishBody, PublishOwner, StoredWhole, history, HistoryTypes
  <2>5. AckingIsBegun' /\ KnownTakes' /\ KnownRequeues' /\ ReadPayloads' /\ PayloadUntilAck'
    BY <1>handler DEF PublishBody, PublishOwner, AckingIsBegun, Acking, KnownTakes, KnownRequeues, ReadPayloads, PayloadUntilAck, history
  <2>6. KnownCopies' /\ NothingIsLost' /\ SafeRequeues'
    BY <1>handler DEF PublishBody, PublishOwner, KnownCopies, NothingIsLost, SafeRequeues, Copies, history
  <2> QED BY <2>3, <2>4, <2>5, <2>6
<1>ready. ASSUME NEW h \in handlers, PublishReady(h) PROVE DurableInv'
  <2>1. h.msg \in Msgs /\ h.owner \in Owner /\ h.step = "lpush"
    BY <1>ready, <1>a DEF PublishReady, PublishTypes, Handler
  <2>2. /\ \A o \in Owner : Elements(ready'[o]) = Elements(ready[o]) \cup (IF o = h.owner THEN {h.msg} ELSE {})
        /\ \A o \in Owner : stored'[o] = stored[o] \cup (IF o = h.owner THEN {h.msg} ELSE {})
    BY <1>ready, <1>a, <2>1, PushElements DEF PublishReady, Push, DataTypes, HistoryTypes
  <2>3. \A o \in Owner : Copies(o)' = Copies(o) \cup (IF o = h.owner THEN {h.msg} ELSE {})
    BY <1>ready, <2>2 DEF PublishReady, Copies
  <2>4. Written'
    BY <1>ready DEF PublishReady, Written, NewHandler
  <2>5. StoredWhole'
    BY <1>ready, <2>1, <2>2 DEF PublishReady, StoredWhole, Written
  <2>6. AckingIsBegun' /\ ReadPayloads' /\ PayloadUntilAck'
    BY <1>ready DEF PublishReady, AckingIsBegun, Acking, ReadPayloads, PayloadUntilAck
  <2>7. KnownTakes'
    BY <1>ready, <1>a, <2>2 DEF PublishReady, KnownTakes, CallTypes, Takes
  <2>8. KnownRequeues'
    BY <1>ready, <2>2 DEF PublishReady, KnownRequeues
  <2>9. KnownCopies' /\ NothingIsLost'
    BY <1>ready, <2>2, <2>3 DEF PublishReady, KnownCopies, NothingIsLost
  <2>10. SafeRequeues'
    BY <1>ready, <2>2 DEF PublishReady, SafeRequeues
  <2> QED BY <2>4, <2>5, <2>6, <2>7, <2>8, <2>9, <2>10
\* Steps that change neither the lists nor what is written.
<1>same. ASSUME UNCHANGED <<redis, handlers, worker, ack, stored, begun>>
         PROVE  Written' /\ StoredWhole' /\ AckingIsBegun' /\ KnownCopies' /\ KnownRequeues' /\ NothingIsLost' /\ SafeRequeues'
  BY <1>same DEF redis, Written, StoredWhole, AckingIsBegun, Acking, KnownCopies, KnownRequeues, NothingIsLost, SafeRequeues, Copies
\* consuming
<1>consume. ASSUME NEW w \in Consumers, Consume(w) PROVE DurableInv'
  <2>1. KnownTakes' /\ ReadPayloads' /\ PayloadUntilAck'
    BY <1>consume, <1>a DEF Consume, KnownTakes, ReadPayloads, PayloadUntilAck, NoTake, CallTypes, history
  <2> QED BY <1>consume, <1>same, <2>1 DEF Consume, history
<1>poplast. ASSUME NEW o \in Owner, ready[o] # <<>>, PopLast(o)
            PROVE  /\ Written' /\ StoredWhole' /\ AckingIsBegun' /\ KnownCopies' /\ KnownRequeues' /\ NothingIsLost'
                   /\ SafeRequeues' /\ PayloadUntilAck' /\ Last(o) \in stored[o]
  <2>1. /\ Elements(ready[o]) = Elements(ready'[o]) \cup {Last(o)}
        /\ \A p \in Owner : p # o => ready'[p] = ready[p]
        /\ \A p \in Owner : inflight'[p] = inflight[p] \cup (IF p = o THEN {Last(o)} ELSE {})
    BY <1>poplast, <1>a, PopElements DEF PopLast, InflightWith, Last, DataTypes
  <2>2. \A p \in Owner : /\ Copies(p)' = Copies(p)
                         /\ Elements(ready'[p]) \cup inflight'[p] = Elements(ready[p]) \cup inflight[p]
    BY <1>poplast, <2>1 DEF PopLast, Copies
  <2>3. Last(o) \in stored[o]
    BY <2>1 DEF Copies, KnownCopies
  <2>4. Written' /\ StoredWhole' /\ AckingIsBegun' /\ KnownRequeues' /\ PayloadUntilAck'
    BY <1>poplast DEF PopLast, Written, StoredWhole, AckingIsBegun, Acking, KnownRequeues, PayloadUntilAck
  <2>5. KnownCopies' /\ NothingIsLost' /\ SafeRequeues'
    BY <1>poplast, <2>2 DEF PopLast, KnownCopies, NothingIsLost, SafeRequeues
  <2> QED BY <2>3, <2>4, <2>5
<1>pop. ASSUME NEW w \in Consumers, Pop(w) PROVE DurableInv'
  <2>1. con[w] \in Takes /\ con[w].owner \in Owner
    BY <1>pop, <1>a DEF Pop, CallTypes, Takes, Take
  <2>2. CASE ready[con[w].owner] = <<>>
    <3>1. con' = [con EXCEPT ![w] = NoTake] \/ con' = [con EXCEPT ![w] = Fallback(con[w])]
      BY <1>pop, <2>2 DEF Pop, Return
    <3>2. \A v \in Consumers : con'[v] = con[v] \/ (con'[v].step = "pop" /\ con'[v].out = {})
      BY <3>1, <1>a DEF NoTake, Fallback, CallTypes
    <3>3. KnownTakes' /\ ReadPayloads' /\ PayloadUntilAck'
      BY <1>pop, <2>2, <3>2 DEF Pop, Return, KnownTakes, ReadPayloads, PayloadUntilAck, history
    <3> QED BY <1>pop, <2>2, <1>same, <3>3 DEF Pop, Return, history
  <2>3. CASE ready[con[w].owner] # <<>>
    <3>1. PopLast(con[w].owner) /\ con' = [con EXCEPT ![w] = Taken(con[w])] /\ UNCHANGED orphans
      BY <1>pop, <2>3 DEF Pop
    <3>2. \A v \in Consumers : con'[v] = con[v] \/ (v = w /\ con'[v].msg = Last(con[w].owner)
                                                    /\ con'[v].owner = con[w].owner /\ con'[v].out = con[w].out)
      BY <2>1, <3>1, <1>a DEF Taken, CallTypes, Takes, Take
    <3>3. KnownTakes' /\ ReadPayloads'
      BY <2>1, <2>3, <3>1, <3>2, <1>poplast DEF KnownTakes, ReadPayloads, PopLast
    <3> QED BY <2>1, <2>3, <3>1, <3>3, <1>poplast
  <2> QED BY <2>2, <2>3
<1>due. ASSUME NEW o \in Owner, NEW m \in stored[o], Deadline(o, m)
        PROVE  /\ Written' /\ StoredWhole' /\ AckingIsBegun' /\ KnownCopies' /\ KnownRequeues' /\ NothingIsLost'
               /\ SafeRequeues' /\ PayloadUntilAck'
  <2>1. \A p \in Owner : /\ vis'[p] = vis[p] \cup (IF p = o THEN {m} ELSE {})
                         /\ due'[p] = due[p] \ (IF p = o THEN {m} ELSE {})
    BY <1>due, <1>a DEF Deadline, DataTypes
  <2>2. \A p \in Owner : Copies(p)' = Copies(p) \cup (IF p = o THEN {m} ELSE {})
    BY <1>due, <2>1 DEF Deadline, Copies
  <2>3. Written' /\ StoredWhole' /\ AckingIsBegun' /\ KnownRequeues' /\ PayloadUntilAck'
    BY <1>due DEF Deadline, Written, StoredWhole, AckingIsBegun, Acking, KnownRequeues, PayloadUntilAck, history
  <2>4. KnownCopies' /\ NothingIsLost' /\ SafeRequeues'
    BY <1>due, <2>1, <2>2 DEF Deadline, KnownCopies, NothingIsLost, SafeRequeues, history
  <2> QED BY <2>3, <2>4
<1>deadline. ASSUME NEW w \in Consumers, SetDeadline(w) PROVE DurableInv'
  <2>1. con[w] \in Takes /\ con[w].owner \in Owner /\ con[w].msg \in stored[con[w].owner]
    BY <1>deadline, <1>a DEF SetDeadline, CallTypes, Takes, KnownTakes
  <2>2. \A v \in Consumers : con'[v].msg = con[v].msg /\ con'[v].owner = con[v].owner /\ con'[v].out = con[v].out
                             /\ (con'[v].step # "pop" => con[v].step # "pop")
    BY <1>deadline, <1>a DEF SetDeadline, CallTypes, Takes, Take
  <2>3. KnownTakes' /\ ReadPayloads'
    BY <1>deadline, <2>2 DEF SetDeadline, Deadline, KnownTakes, ReadPayloads, history
  <2> QED BY <1>deadline, <2>1, <2>3, <1>due DEF SetDeadline
<1>read. ASSUME NEW w \in Consumers, ReadPayload(w) PROVE DurableInv'
  <2>1. con[w] \in Takes /\ con[w].owner \in Owner /\ con[w].msg \in stored[con[w].owner]
    BY <1>read, <1>a DEF ReadPayload, CallTypes, Takes, KnownTakes
  <2>2. con[w].msg \in begun \/ con[w].msg \in body
    BY <2>1 DEF StoredWhole
  <2>3. \A d \in WithItem(con[w]).out : ~d.payload => d.msg \in begun
    <3>1. WithItem(con[w]).out = con[w].out \cup {[msg |-> con[w].msg, payload |-> con[w].msg \in body]}
      BY <2>1 DEF WithItem, Takes, Take
    <3>2. ASSUME NEW d, d = [msg |-> con[w].msg, payload |-> con[w].msg \in body], ~d.payload
          PROVE  d.msg \in begun
      <4>1. d.msg = con[w].msg /\ d.payload = (con[w].msg \in body)
        BY <3>2
      <4>2. con[w].msg \notin body
        BY <4>1, <3>2
      <4> QED BY <4>1, <4>2, <2>2
    <3>3. \A d \in con[w].out : ~d.payload => d.msg \in begun
      BY DEF ReadPayloads
    <3> QED BY <3>1, <3>2, <3>3
  <2>4. con' = [con EXCEPT ![w] = NoTake] \/ con' = [con EXCEPT ![w] = WithItem(con[w])]
    BY <1>read DEF ReadPayload, Return
  <2>5. NoTake.step = "pop" /\ NoTake.out = {} /\ WithItem(con[w]).step = "pop"
    BY <2>1 DEF NoTake, WithItem, Takes, Take
  <2>6. KnownTakes' /\ ReadPayloads'
    BY <1>read, <1>a, <2>3, <2>4, <2>5 DEF ReadPayload, Return, KnownTakes, ReadPayloads, CallTypes, history
  <2>7. PayloadUntilAck'
    BY <1>read, <2>3 DEF ReadPayload, Return, PayloadUntilAck, history
  <2> QED BY <1>read, <1>same, <2>6, <2>7 DEF ReadPayload, Return, history
<1>timeout. ASSUME NEW w \in Consumers, ConsumeTimeout(w) PROVE DurableInv'
  <2>1. \A v \in Consumers : con'[v] = con[v] \/ (con'[v].step = "pop" /\ con'[v].out = {})
    BY <1>timeout, <1>a DEF ConsumeTimeout, Fallback, NoTake, CallTypes
  <2>2. \A t \in orphans' : t \in orphans \/ (t.step = con[w].step /\ t.msg = con[w].msg /\ t.owner = con[w].owner)
    BY <1>timeout, <1>a DEF ConsumeTimeout, CallTypes, Takes, Take
  <2>3. KnownTakes' /\ ReadPayloads' /\ PayloadUntilAck'
    BY <1>timeout, <2>1, <2>2 DEF ConsumeTimeout, KnownTakes, ReadPayloads, PayloadUntilAck, history
  <2> QED BY <1>timeout, <1>same, <2>3 DEF ConsumeTimeout, history
<1>orphan. ASSUME NEW t \in orphans, OrphanStep(t) PROVE DurableInv'
  <2>0. t \in Takes /\ t.owner \in Owner /\ (t.step # "pop" => t.msg \in stored[t.owner])
    BY <1>a DEF CallTypes, KnownTakes
  <2>w. \A x \in {[WithItem(t) EXCEPT !.out = {}]} : x.step = "pop"
    BY <2>0 DEF WithItem, Takes, Take
  <2>1. CASE t.step = "pop" /\ ready[t.owner] # <<>> /\ PopLast(t.owner)
             /\ orphans' = (orphans \ {t}) \cup {Taken(t)} /\ UNCHANGED con
    <3>1. Taken(t).msg = Last(t.owner) /\ Taken(t).owner = t.owner
      BY <2>0 DEF Taken, Takes, Take
    <3>2. KnownTakes' /\ ReadPayloads'
      BY <2>0, <2>1, <3>1, <1>poplast DEF KnownTakes, ReadPayloads, PopLast
    <3> QED BY <2>0, <2>1, <3>2, <1>poplast
  <2>2. CASE t.step # "pop" /\ Deadline(t.owner, t.msg) /\ UNCHANGED con
             /\ orphans' \subseteq orphans \cup {[WithItem(t) EXCEPT !.out = {}]}
    <3>1. KnownTakes' /\ ReadPayloads'
      BY <2>2, <2>w DEF KnownTakes, ReadPayloads, Deadline, history
    <3> QED BY <2>0, <2>2, <3>1, <1>due
  <2>3. CASE /\ orphans' \subseteq orphans \cup {[WithItem(t) EXCEPT !.out = {}]}
             /\ UNCHANGED <<redis, pub, handlers, con, worker, ack, faults, history>>
    <3>1. KnownTakes' /\ ReadPayloads' /\ PayloadUntilAck'
      BY <2>3, <2>w DEF KnownTakes, ReadPayloads, PayloadUntilAck, history
    <3> QED BY <2>3, <3>1, <1>same DEF history
  <2> QED BY <1>orphan, <2>1, <2>2, <2>3 DEF OrphanStep
<1>expire. ASSUME NEW o \in Owner, NEW m \in Msgs, Expire(o, m) PROVE DurableInv'
  <2>1. KnownCopies' /\ NothingIsLost' /\ SafeRequeues'
    BY <1>expire, <1>a DEF Expire, KnownCopies, NothingIsLost, SafeRequeues, Copies, tasks, history, DataTypes
  <2>2. Written' /\ StoredWhole' /\ AckingIsBegun' /\ KnownTakes' /\ KnownRequeues' /\ ReadPayloads' /\ PayloadUntilAck'
    BY <1>expire DEF Expire, Written, StoredWhole, AckingIsBegun, Acking, KnownTakes, KnownRequeues, ReadPayloads,
       PayloadUntilAck, tasks, history
  <2> QED BY <2>1, <2>2
\* requeuing
<1>scan. ASSUME NEW o \in Owner, Scan(o) PROVE DurableInv'
  <2>1. \A p \in Owner : worker'[p] = worker[p] \/ (p = o /\ worker'[p].todo = due[p] /\ worker'[p].msg = NoMsg
                                                   /\ worker'[p].step = "lrem")
    BY <1>scan, <1>a DEF Scan, NoRequeue, CallTypes
  <2>2. due[o] \subseteq vis[o] /\ vis[o] \subseteq stored[o] /\ NoMsg \notin due[o]
    BY <1>a, NoMsgAssumption DEF KnownCopies, Copies, DataTypes
  <2>3. KnownRequeues' /\ SafeRequeues'
    <3>1. UNCHANGED <<ready, inflight, vis, stored, begun>>
      BY <1>scan DEF Scan, redis
    <3>2. KnownRequeues'
      BY <2>1, <2>2, <3>1 DEF KnownRequeues
    <3>3. SafeRequeues'
      BY <2>1, <2>2, <3>1 DEF SafeRequeues
    <3> QED BY <3>2, <3>3
  <2>4. Written' /\ StoredWhole' /\ AckingIsBegun' /\ KnownTakes' /\ ReadPayloads' /\ PayloadUntilAck'
    BY <1>scan DEF Scan, Written, StoredWhole, AckingIsBegun, Acking, KnownTakes, ReadPayloads, PayloadUntilAck, redis
  <2>5. KnownCopies' /\ NothingIsLost'
    BY <1>scan DEF Scan, KnownCopies, NothingIsLost, Copies, redis
  <2> QED BY <2>3, <2>4, <2>5
<1>lrem. ASSUME NEW o \in Owner, NEW m \in Msgs, RequeueLrem(o, m) PROVE DurableInv'
  <2>1. m \in stored[o] /\ m # NoMsg /\ (m \notin begun => m \in vis[o])
    BY <1>lrem, NoMsgAssumption DEF RequeueLrem, KnownRequeues, SafeRequeues
  <2>2. \A p \in Owner : worker'[p] = worker[p] \/ (p = o /\ worker'[p].todo = worker[p].todo \ {m} /\ worker'[p].msg = m
                                                   /\ worker'[p].step = "lpush")
    BY <1>lrem, <1>a DEF RequeueLrem, CallTypes
  <2>3. \A p \in Owner : inflight'[p] = inflight[p] \ (IF p = o THEN {m} ELSE {})
    BY <1>lrem, <1>a DEF RequeueLrem, DataTypes
  <2>4. \A p \in Owner : /\ Copies(p)' \subseteq Copies(p)
                         /\ \A x \in Copies(p) : x \in Copies(p)' \/ (p = o /\ x = m /\ x \notin vis[p])
    BY <1>lrem, <2>3 DEF RequeueLrem, Copies
  <2>5. KnownRequeues'
    BY <1>lrem, <2>1, <2>2 DEF RequeueLrem, KnownRequeues, history
  <2>6. SafeRequeues'
    <3>1. worker[o].step = "lrem"
      BY <1>lrem, <1>a DEF RequeueLrem, CallTypes, Requeues
    <3>2. ASSUME NEW p \in Owner, p # o PROVE worker'[p] = worker[p] /\ inflight'[p] = inflight[p]
      BY <3>2, <2>2, <2>3
    <3> QED BY <1>lrem, <2>1, <2>2, <3>1, <3>2 DEF RequeueLrem, SafeRequeues, history
  <2>7. KnownCopies' /\ NothingIsLost'
    BY <1>lrem, <2>1, <2>4 DEF RequeueLrem, KnownCopies, NothingIsLost, history
  <2>8. Written' /\ StoredWhole' /\ AckingIsBegun' /\ KnownTakes' /\ ReadPayloads' /\ PayloadUntilAck'
    BY <1>lrem DEF RequeueLrem, Written, StoredWhole, AckingIsBegun, Acking, KnownTakes, ReadPayloads, PayloadUntilAck, history
  <2> QED BY <2>5, <2>6, <2>7, <2>8
<1>lpush. ASSUME NEW o \in Owner, RequeueLpush(o) PROVE DurableInv'
  <2>1. worker[o].msg \in Msgs /\ worker[o].msg \in stored[o] /\ worker[o].msg # NoMsg
    BY <1>lpush, <1>a, RequeueTypes, NoMsgAssumption DEF RequeueLpush, CallTypes, KnownRequeues
  <2>2. \A p \in Owner : /\ worker'[p].todo = worker[p].todo /\ worker'[p].msg = worker[p].msg
                         /\ worker'[p] = worker[p] \/ (p = o /\ worker'[p].step = "zrem")
    BY <1>lpush, <1>a DEF RequeueLpush, CallTypes, Requeues, Requeue
  <2>3. \A p \in Owner : Elements(ready'[p]) = Elements(ready[p]) \cup (IF p = o THEN {worker[o].msg} ELSE {})
    BY <1>lpush, <1>a, <2>1, PushElements DEF RequeueLpush, Push, DataTypes
  <2>4. \A p \in Owner : Copies(p)' = Copies(p) \cup (IF p = o THEN {worker[o].msg} ELSE {})
    BY <1>lpush, <2>3 DEF RequeueLpush, Copies
  <2>5. KnownRequeues' /\ SafeRequeues'
    <3>1. UNCHANGED <<inflight, vis, stored, begun>>
      BY <1>lpush DEF RequeueLpush, history
    <3>2. KnownRequeues'
      BY <2>2, <3>1 DEF KnownRequeues
    <3>3. SafeRequeues'
      BY <2>2, <2>3, <3>1 DEF SafeRequeues
    <3> QED BY <3>2, <3>3
  <2>6. KnownCopies' /\ NothingIsLost'
    BY <1>lpush, <2>1, <2>4 DEF RequeueLpush, KnownCopies, NothingIsLost, history
  <2>7. Written' /\ StoredWhole' /\ AckingIsBegun' /\ KnownTakes' /\ ReadPayloads' /\ PayloadUntilAck'
    BY <1>lpush DEF RequeueLpush, Written, StoredWhole, AckingIsBegun, Acking, KnownTakes, ReadPayloads, PayloadUntilAck, history
  <2> QED BY <2>5, <2>6, <2>7
<1>zrem. ASSUME NEW o \in Owner, RequeueZrem(o) PROVE DurableInv'
  <2>1. worker[o].msg \notin worker[o].todo
        /\ (worker[o].msg \notin begun => worker[o].msg \in Elements(ready[o]) \cup inflight[o])
    BY <1>zrem DEF RequeueZrem, KnownRequeues, SafeRequeues
  <2>2. \A p \in Owner : worker'[p] = worker[p] \/ (p = o /\ worker'[p].todo = worker[p].todo /\ worker'[p].msg = NoMsg
                                                   /\ worker'[p].step = "lrem")
    BY <1>zrem, <1>a DEF RequeueZrem, CallTypes, Requeues, Requeue
  <2>3. \A p \in Owner : /\ vis'[p] = vis[p] \ (IF p = o THEN {worker[o].msg} ELSE {})
                         /\ due'[p] = due[p] \ (IF p = o THEN {worker[o].msg} ELSE {})
    BY <1>zrem, <1>a DEF RequeueZrem, Zrem, DataTypes
  <2>4. \A p \in Owner : /\ Copies(p)' \subseteq Copies(p)
                         /\ \A x \in Copies(p) : x \in begun \/ x \in Copies(p)'
    BY <1>zrem, <2>1, <2>3 DEF RequeueZrem, Copies
  <2>5. KnownRequeues'
    <3>1. NoMsg \notin worker[o].todo
      BY <1>a, NoMsgAssumption DEF CallTypes, Requeues, Requeue
    <3> QED BY <1>zrem, <2>2, <3>1 DEF RequeueZrem, KnownRequeues, history
  <2>6. SafeRequeues'
    <3>1. ASSUME NEW p \in Owner, p # o PROVE worker'[p] = worker[p] /\ vis'[p] = vis[p]
      BY <3>1, <2>2, <2>3
    <3>2. /\ worker'[o].step = "lrem" /\ worker'[o].todo = worker[o].todo
          /\ vis'[o] = vis[o] \ {worker[o].msg}
      BY <1>zrem, <1>a, <2>3 DEF RequeueZrem, CallTypes, Requeues, Requeue
    <3> QED BY <1>zrem, <2>1, <3>1, <3>2 DEF RequeueZrem, SafeRequeues, history
  <2>7. KnownCopies' /\ NothingIsLost'
    BY <1>zrem, <2>3, <2>4 DEF RequeueZrem, KnownCopies, NothingIsLost, history
  <2>8. Written' /\ StoredWhole' /\ AckingIsBegun' /\ KnownTakes' /\ ReadPayloads' /\ PayloadUntilAck'
    BY <1>zrem DEF RequeueZrem, Written, StoredWhole, AckingIsBegun, Acking, KnownTakes, ReadPayloads, PayloadUntilAck, history
  <2> QED BY <2>5, <2>6, <2>7, <2>8
\* acks
<1>ack. ASSUME NEW m \in Msgs, m \in begun', \A x \in Msgs : x # m => ack'[x] = ack[x],
               begun \subseteq begun'
        PROVE  AckingIsBegun'
  BY <1>ack DEF AckingIsBegun, Acking
<1>goes. ASSUME NEW m \in Msgs, NEW k \in Ackers,
                AckStep(m, k) \/ AbandonAck(m, k) \/ \E kind, o : BeginAck(m, k, kind, o)
         PROVE  \A x \in Msgs : x # m => ack'[x] = ack[x]
  BY <1>goes, <1>a, AckGoes, GoesThere DEF CallTypes
<1>begin. ASSUME NEW m \in Msgs, NEW k \in Ackers, NEW kind, NEW o, BeginAck(m, k, kind, o) PROVE DurableInv'
  <2>1. begun' = begun \cup {m} /\ \A x \in Msgs : x # m => ack'[x] = ack[x]
    BY <1>begin, <1>goes DEF BeginAck
  <2>2. Written' /\ StoredWhole' /\ KnownTakes' /\ KnownRequeues' /\ ReadPayloads' /\ PayloadUntilAck'
    BY <1>begin, <2>1 DEF BeginAck, Written, StoredWhole, KnownTakes, KnownRequeues, ReadPayloads, PayloadUntilAck, redis
  <2>3. KnownCopies' /\ NothingIsLost' /\ SafeRequeues'
    BY <1>begin, <2>1 DEF BeginAck, KnownCopies, NothingIsLost, SafeRequeues, Copies, redis
  <2> QED BY <2>1, <2>2, <2>3, <1>ack
<1>others. ASSUME NEW m \in Msgs, NEW k \in Ackers, AckStep(m, k) \/ AbandonAck(m, k)
           PROVE  /\ m \in begun /\ begun' = begun /\ \A x \in Msgs : x # m => ack'[x] = ack[x]
                  /\ AckingIsBegun' /\ KnownTakes' /\ KnownRequeues' /\ ReadPayloads' /\ PayloadUntilAck'
  <2>1. \A x \in Msgs : x # m => ack'[x] = ack[x]
    BY <1>others, <1>goes
  <2>2. ack[m][k].step # "idle"
    BY <1>others DEF AckStep, AbandonAck, AckMembers, AckInflight, AckReady, AckVis, AckSrem, AckScard, AckBody, AckOwners
  <2>3. m \in begun
    BY <2>2 DEF AckingIsBegun, Acking
  <2>4. UNCHANGED <<con, orphans, worker, stored, delivered, begun>>
    BY <1>others DEF AckStep, AbandonAck, AckMembers, AckInflight, AckReady, AckVis, AckSrem, AckScard, AckBody, AckOwners,
       Acked, history
  <2>5. KnownTakes' /\ KnownRequeues' /\ ReadPayloads' /\ PayloadUntilAck'
    BY <2>4 DEF KnownTakes, KnownRequeues, ReadPayloads, PayloadUntilAck
  <2> QED BY <2>1, <2>3, <2>4, <2>5, <1>ack
<1>quiet. ASSUME NEW m \in Msgs, NEW k \in Ackers, AckMembers(m, k) \/ AckScard(m, k) \/ AbandonAck(m, k) PROVE DurableInv'
  <2>1. UNCHANGED <<redis, handlers, worker, stored, begun>>
    BY <1>quiet DEF AckMembers, AckScard, AbandonAck, Acked, history
  <2>2. Written' /\ StoredWhole' /\ KnownCopies' /\ NothingIsLost' /\ SafeRequeues'
    BY <2>1 DEF redis, Written, StoredWhole, KnownCopies, NothingIsLost, SafeRequeues, Copies
  <2> QED BY <1>quiet, <2>2, <1>others DEF AckStep
<1>remove. ASSUME NEW m \in Msgs, NEW k \in Ackers, AckInflight(m, k) \/ AckReady(m, k) \/ AckVis(m, k) PROVE DurableInv'
  <2>1. ack[m][k].owner \in Owner
    <3>1. ack[m][k] \in Acks
      BY <1>a DEF CallTypes
    <3>2. ack[m][k].step \in {"inflight", "ready", "vis"}
      BY <1>remove DEF AckInflight, AckReady, AckVis
    <3> QED BY <3>1, <3>2 DEF Acks
  <2>2. UNCHANGED <<body, own, handlers, worker, stored, begun>> /\ m \in begun
    BY <1>remove, <1>others DEF AckStep, AckInflight, AckReady, AckVis, history
  <2>3. \A p \in Owner : /\ Elements(ready[p]) \ {m} \subseteq Elements(ready'[p]) /\ Elements(ready'[p]) \subseteq Elements(ready[p])
                         /\ inflight[p] \ {m} \subseteq inflight'[p] /\ inflight'[p] \subseteq inflight[p]
                         /\ vis[p] \ {m} \subseteq vis'[p] /\ vis'[p] \subseteq vis[p]
                         /\ due'[p] \subseteq vis'[p]
    <3>1. CASE AckInflight(m, k)
      BY <3>1, <2>1, <1>a DEF AckInflight, DataTypes, KnownCopies
    <3>2. CASE AckReady(m, k)
      BY <3>2, <2>1, <1>a, WithoutElements DEF AckReady, ReadyAfterAck, DataTypes, KnownCopies
    <3>3. CASE AckVis(m, k)
      BY <3>3, <2>1, <1>a DEF AckVis, Zrem, DataTypes, KnownCopies
    <3> QED BY <1>remove, <3>1, <3>2, <3>3
  <2>4. \A p \in Owner : Copies(p) \ {m} \subseteq Copies(p)' /\ Copies(p)' \subseteq Copies(p)
    BY <2>3 DEF Copies
  <2>5. Written' /\ StoredWhole'
    BY <2>2 DEF Written, StoredWhole
  <2>6. KnownCopies' /\ NothingIsLost' /\ SafeRequeues'
    BY <2>2, <2>3, <2>4 DEF KnownCopies, NothingIsLost, SafeRequeues
  <2> QED BY <1>remove, <2>5, <2>6, <1>others DEF AckStep
<1>forget. ASSUME NEW m \in Msgs, NEW k \in Ackers, AckSrem(m, k) \/ AckBody(m, k) \/ AckOwners(m, k) PROVE DurableInv'
  <2>1. UNCHANGED <<ready, inflight, vis, due, handlers, worker, stored, begun>> /\ m \in begun
    BY <1>forget, <1>others DEF AckStep, AckSrem, AckBody, AckOwners, Acked, history
  <2>2. body \ {m} \subseteq body' /\ \A x \in Msgs : x # m => own'[x] = own[x]
    BY <1>forget, <1>a DEF AckSrem, AckBody, AckOwners, DataTypes
  <2>3. Written' /\ StoredWhole'
    BY <2>1, <2>2, <1>a DEF Written, StoredWhole, PublishTypes, Handler, HistoryTypes
  <2>4. KnownCopies' /\ NothingIsLost' /\ SafeRequeues'
    BY <2>1 DEF KnownCopies, NothingIsLost, SafeRequeues, Copies
  <2> QED BY <1>forget, <2>3, <2>4, <1>others DEF AckStep
\* crashes
<1>crash. ASSUME NEW o \in Owner, Crash(o) PROVE DurableInv'
  <2>1. \A w \in Consumers : con'[w] = con[w] \/ (con'[w].step = "pop" /\ con'[w].out = {})
    BY <1>crash DEF Crash, Fallback, NoTake
  <2>2. \A p \in Owner : worker'[p] = worker[p] \/ worker'[p] = NoRequeue
    BY <1>crash, <1>a DEF Crash, CallTypes
  <2>3. orphans' \subseteq orphans /\ handlers' \subseteq handlers
    BY <1>crash DEF Crash
  <2>4. Written' /\ StoredWhole' /\ AckingIsBegun'
    BY <1>crash, <2>3 DEF Crash, Written, StoredWhole, AckingIsBegun, Acking, redis, history
  <2>5. KnownTakes' /\ ReadPayloads' /\ PayloadUntilAck'
    BY <1>crash, <2>1, <2>3 DEF Crash, KnownTakes, ReadPayloads, PayloadUntilAck, history
  <2>6. KnownRequeues' /\ SafeRequeues'
    BY <1>crash, <2>2 DEF Crash, KnownRequeues, SafeRequeues, NoRequeue, redis, history
  <2>7. KnownCopies' /\ NothingIsLost'
    BY <1>crash DEF Crash, KnownCopies, NothingIsLost, Copies, redis, history
  <2> QED BY <2>4, <2>5, <2>6, <2>7
<1>fails. ASSUME NEW o \in Owner, RequeueFails(o) PROVE DurableInv'
  <2>1. \A p \in Owner : worker'[p] = worker[p] \/ worker'[p] = NoRequeue
    BY <1>fails, <1>a DEF RequeueFails, CallTypes
  <2>2. KnownRequeues' /\ SafeRequeues'
    BY <1>fails, <2>1 DEF RequeueFails, KnownRequeues, SafeRequeues, NoRequeue, redis, history
  <2>3. Written' /\ StoredWhole' /\ AckingIsBegun' /\ KnownTakes' /\ ReadPayloads' /\ PayloadUntilAck'
    BY <1>fails DEF RequeueFails, Written, StoredWhole, AckingIsBegun, Acking, KnownTakes, ReadPayloads, PayloadUntilAck,
       redis, history
  <2>4. KnownCopies' /\ NothingIsLost'
    BY <1>fails DEF RequeueFails, KnownCopies, NothingIsLost, Copies, redis, history
  <2> QED BY <2>2, <2>3, <2>4
<1>stutter. ASSUME UNCHANGED vars PROVE DurableInv'
  <2>1. KnownTakes' /\ ReadPayloads' /\ PayloadUntilAck'
    BY <1>stutter DEF vars, tasks, history, KnownTakes, ReadPayloads, PayloadUntilAck
  <2> QED BY <1>stutter, <1>same, <2>1 DEF vars, tasks, history
<1> HIDE DEF DurableInv
<1> QED
  BY <1>publish, <1>handler, <1>ready, <1>consume, <1>pop, <1>deadline, <1>read, <1>timeout, <1>orphan, <1>expire,
     <1>scan, <1>lrem, <1>lpush, <1>zrem, <1>begin, <1>quiet, <1>remove, <1>forget, <1>crash, <1>fails,
     <1>stutter DEF Next, PublishStep, TakeStep, RequeueStep, AckStep

\* Nothing is lost from Redis, whoever stops in the middle of its commands.
THEOREM QueueNothingIsLost == Spec => []NothingIsLost
<1>1. DurableInv => NothingIsLost
  BY DEF DurableInv
<1> QED BY <1>1, InitTypes, NextTypes, InitDurable, NextDurable, PTL DEF Spec

\* A message is delivered without its payload only after somebody began to ack it.
THEOREM QueuePayloadUntilAck == Spec => []PayloadUntilAck
<1>1. DurableInv => PayloadUntilAck
  BY DEF DurableInv
<1> QED BY <1>1, InitTypes, NextTypes, InitDurable, NextDurable, PTL DEF Spec

\* The first ack of a message looks at every owner that has it.
THEOREM QueueAckFindsEveryOwner == Spec => []AckFindsEveryOwner
<1>1. DurableInv => AckFindsEveryOwner
  BY DEF DurableInv, StoredWhole, AckFindsEveryOwner
<1> QED BY <1>1, InitTypes, NextTypes, InitDurable, NextDurable, PTL DEF Spec

-----------------------------------------------------------------------------
(* Acks *)

\* Whatever is known of a message, its publish call has begun, which it does once.
Known(m) ==
  \/ m \in begun \/ pub[m].owner \in Owner
  \/ \E h \in handlers : h.msg = m
  \/ \E o \in Owner : m \in stored[o]
  \/ \E w \in Consumers : \E d \in con[w].out : d.msg = m
  \/ \E d \in delivered : d.msg = m
PublishedOnce == \A m \in Msgs : Known(m) => pub[m].try # 0

Busy(m) == Publishing(m) \/ Taking(m) \/ Requeuing(m)
Gone(m) == \A o \in Owner : m \notin Copies(o)
Answered(m) == <<"any", m>> \in acked \/ <<"id", m>> \in acked

WrittenFor(m) ==
  \A h \in handlers : h.msg = m =>
    /\ h.step # "hset" => m \in body
    /\ h.step = "lpush" => h.owner \in own[m]

\* m is at owner o, in a list or in the hands of a call.
Working(m, o) ==
  \/ \E w \in Consumers : con[w].msg = m /\ con[w].owner = o
  \/ \E t \in orphans : t.msg = m /\ t.owner = o
  \/ m \in worker[o].todo \/ worker[o].msg = m
WholeFor(m) == \A o \in Owner : m \in Copies(o) \/ Working(m, o) => o \in own[m] /\ m \in body

\* What the ack of one acker has removed so far.
ProgressOf(m, k) ==
  LET a == ack[m][k] IN
  /\ a.step \in {"inflight", "ready", "vis"} =>
       IF a.kind = "owner" THEN a.todo = {}
       ELSE \A o \in Owner : m \in Copies(o) => o \in a.todo \cup {a.owner}
  /\ a.step \in {"ready", "vis"} => m \notin inflight[a.owner]
  /\ a.step = "vis" => m \notin Elements(ready[a.owner])
  /\ a.step \in {"srem", "scard"} => a.kind = "owner" /\ m \notin Copies(a.owner)
  /\ a.step \in {"body", "owners"} => Gone(m)
Progress(m) == \A k \in Ackers : ProgressOf(m, k)

\* A message whose acks, however many overlap, no other call met.
AckedAlone(m) ==
  /\ Acking(m) => ~Busy(m)
  /\ WrittenFor(m) /\ WholeFor(m) /\ Progress(m)
  /\ Answered(m) => Gone(m) /\ ~Busy(m) /\ m \in begun

FinalInv == PublishedOnce /\ \A m \in Msgs \ tainted : AckedAlone(m)

LEMMA InitFinal == Init => FinalInv
<1> SUFFICES ASSUME Init PROVE FinalInv
  OBVIOUS
<1>1. PublishedOnce
  BY OwnerFacts DEF Init, PublishedOnce, Known, NoTake
<1>2. ASSUME NEW m \in Msgs PROVE AckedAlone(m)
  <2>1. WrittenFor(m) /\ ~Acking(m) /\ Progress(m) /\ ~Answered(m)
    BY DEF Init, WrittenFor, Acking, Progress, ProgressOf, Answered, NoAck
  <2>2. WholeFor(m)
    BY EmptyCopies, NoMsgAssumption DEF Init, WholeFor, Working, NoTake, NoRequeue
  <2> QED BY <2>1, <2>2 DEF AckedAlone
<1> QED BY <1>1, <1>2 DEF FinalInv

\* Whoever starts to work on a message has found it somewhere.
LEMMA NextPublished ==
  ASSUME TypeInv, DurableInv, PublishedOnce, [Next]_vars PROVE PublishedOnce'
<1> SUFFICES ASSUME NEW m \in Msgs PROVE Known(m)' => pub'[m].try # 0
  BY DEF PublishedOnce
<1>a. CallTypes /\ DataTypes /\ PublishTypes /\ HistoryTypes
  BY DEF TypeInv
<1>b. Known(m) => pub[m].try # 0
  BY DEF PublishedOnce
\* It is enough that nothing is known that was not, and that the publish call is the same.
<1>same. ASSUME UNCHANGED pub, Known(m)' => Known(m) PROVE Known(m)' => pub'[m].try # 0
  BY <1>same, <1>b
<1>publish. ASSUME NEW x \in Msgs, Publish(x) PROVE Known(m)' => pub'[m].try # 0
  <2>1. CASE x = m
    BY <2>1, <1>publish, <1>a DEF Publish, PublishTypes
  <2>2. CASE x # m
    <3>1. pub'[m] = pub[m]
      BY <2>2, <1>publish, <1>a DEF Publish, PublishTypes
    <3>2. \A h \in handlers' : h.msg = m => h \in handlers
      BY <2>2, <1>publish DEF Publish, NewHandler
    <3>3. Known(m)' => Known(m)
      BY <3>1, <3>2, <1>publish DEF Publish, Known, history
    <3> QED BY <3>1, <3>3, <1>b
  <2> QED BY <2>1, <2>2
<1>late. ASSUME NEW x \in Msgs, PublishTimeout(x) PROVE Known(m)' => pub'[m].try # 0
  <2>1. pub[x].owner \in Owner /\ pub[x].try \in Nat
    BY <1>late, <1>a DEF PublishTimeout, PublishTypes
  <2>2. CASE x = m
    <3>1. pub[m].try # 0
      BY <2>1, <2>2, <1>b DEF Known
    <3>2. pub'[m].try = pub[m].try + 1 \/ pub'[m].try = pub[m].try
      BY <2>2, <1>late, <1>a DEF PublishTimeout, PublishTypes
    <3> QED BY <3>1, <3>2, <2>1, <2>2
  <2>3. CASE x # m
    <3>1. pub'[m] = pub[m]
      BY <2>3, <1>late, <1>a DEF PublishTimeout, PublishTypes
    <3>2. \A h \in handlers' : h.msg = m => h \in handlers
      BY <2>3, <1>late DEF PublishTimeout, NewHandler
    <3>3. Known(m)' => Known(m)
      BY <3>1, <3>2, <1>late DEF PublishTimeout, Known, history
    <3> QED BY <3>1, <3>3, <1>b
  <2> QED BY <2>2, <2>3
<1>ready. ASSUME NEW h \in handlers, PublishReady(h) PROVE Known(m)' => pub'[m].try # 0
  <2>0. h.msg \in Msgs /\ h.owner \in Owner
    BY <1>a DEF PublishTypes, Handler
  <2>1. CASE h.msg = m
    <3>1. pub[m].try # 0
      BY <2>1, <1>b DEF Known
    <3> QED BY <3>1, <2>1, <1>ready, <1>a DEF PublishReady, PublishTypes
  <2>2. CASE h.msg # m
    <3>1. pub'[m] = pub[m]
      BY <2>2, <1>ready, <1>a DEF PublishReady, PublishTypes
    <3>2. \A g \in handlers' : g.msg = m => g \in handlers
      BY <2>2, <1>ready DEF PublishReady, NewHandler
    <3>3. \A o \in Owner : m \in stored'[o] => m \in stored[o]
      BY <2>0, <2>2, <1>ready, <1>a DEF PublishReady, HistoryTypes
    <3>4. Known(m)' => Known(m)
      BY <3>1, <3>2, <3>3, <1>ready DEF PublishReady, Known
    <3> QED BY <3>1, <3>4, <1>b
  <2> QED BY <2>1, <2>2
<1>handler. ASSUME NEW h \in handlers, PublishBody(h) \/ PublishOwner(h) PROVE Known(m)' => pub'[m].try # 0
  <2>1. \A g \in handlers' : \E f \in handlers : f.msg = g.msg
    BY <1>handler, <1>a DEF PublishBody, PublishOwner, To, PublishTypes, Handler
  <2>2. UNCHANGED <<pub, begun, stored, con, delivered>>
    BY <1>handler DEF PublishBody, PublishOwner, history
  <2>3. Known(m)' => Known(m)
    BY <2>1, <2>2 DEF Known
  <2> QED BY <2>2, <2>3, <1>same
\* What a consumer reads was stored.
<1>take. ASSUME UNCHANGED <<pub, begun, stored, handlers>>,
                \A v \in Consumers : \A d \in con'[v].out : Known(d.msg),
                \A d \in delivered' : Known(d.msg)
         PROVE  Known(m)' => pub'[m].try # 0
  <2>1. Known(m)' => Known(m)
    BY <1>take DEF Known
  <2> QED BY <2>1, <1>take, <1>same
<1>out. (\A v \in Consumers : \A d \in con[v].out : Known(d.msg)) /\ (\A d \in delivered : Known(d.msg))
  BY DEF Known
<1>step. ASSUME NEW w \in Consumers, TakeStep(w) PROVE Known(m)' => pub'[m].try # 0
  <2>1. UNCHANGED <<pub, begun, stored, handlers>>
    BY <1>step DEF TakeStep, Pop, PopLast, SetDeadline, Deadline, ReadPayload, Return, redis, history
  <2>2. CASE Pop(w) \/ SetDeadline(w)
    <3>1. \A v \in Consumers : con'[v].out = con[v].out \/ con'[v].out = {}
      <4>1. /\ NoTake.out = {} /\ Fallback(con[w]).out = {} /\ Taken(con[w]).out = con[w].out
            /\ [con[w] EXCEPT !.step = "hget"].out = con[w].out
        BY <1>a DEF NoTake, Fallback, Taken, CallTypes, Takes, Take
      <4>2. \/ con' = [con EXCEPT ![w] = NoTake] \/ con' = [con EXCEPT ![w] = Fallback(con[w])]
            \/ con' = [con EXCEPT ![w] = Taken(con[w])]
            \/ con' = [con EXCEPT ![w] = [con[w] EXCEPT !.step = "hget"]]
        BY <2>2, <1>a DEF Pop, SetDeadline, Return, CallTypes
      <4>3. con \in [Consumers -> Takes]
        BY <1>a DEF CallTypes
      <4> HIDE DEF NoTake, Fallback, Taken
      <4> QED BY <4>1, <4>2, <4>3
    <3>2. delivered' = delivered \/ delivered' = delivered \cup con[w].out
      BY <2>2 DEF Pop, PopLast, SetDeadline, Deadline, Return, history
    <3>3. \A v \in Consumers : \A d \in con'[v].out : Known(d.msg)
      BY <3>1, <1>out
    <3>4. \A d \in delivered' : Known(d.msg)
      BY <3>2, <1>out
    <3> QED BY <2>1, <3>3, <3>4, <1>take
  <2>3. CASE ReadPayload(w)
    <3>1. con[w] \in Takes /\ con[w].step = "hget"
      BY <2>3, <1>a DEF ReadPayload, CallTypes
    <3>2. con[w].owner \in Owner /\ con[w].msg \in stored[con[w].owner]
      BY <3>1 DEF DurableInv, KnownTakes, Takes
    <3>3. \A d \in WithItem(con[w]).out : d \in con[w].out \/ d.msg = con[w].msg
      BY <3>1 DEF WithItem, Takes, Take
    <3>4. Known(con[w].msg)
      BY <3>2 DEF Known
    <3>5. \A d \in WithItem(con[w]).out : Known(d.msg)
      BY <3>3, <3>4, <1>out
    <3>6. \A v \in Consumers : con'[v].out = con[v].out \/ con'[v].out = {} \/ con'[v].out = WithItem(con[w]).out
      BY <2>3, <1>a DEF ReadPayload, Return, NoTake, CallTypes
    <3>7. delivered' = delivered \/ delivered' = delivered \cup WithItem(con[w]).out
      BY <2>3 DEF ReadPayload, Return, history
    <3>8. \A v \in Consumers : \A d \in con'[v].out : Known(d.msg)
      BY <3>5, <3>6, <1>out
    <3>9. \A d \in delivered' : Known(d.msg)
      BY <3>5, <3>7, <1>out
    <3> QED BY <2>1, <3>8, <3>9, <1>take
  <2> QED BY <1>step, <2>2, <2>3 DEF TakeStep
<1>begin. ASSUME NEW x \in Msgs, NEW k \in Ackers, NEW kind, NEW o, BeginAck(x, k, kind, o)
          PROVE  Known(m)' => pub'[m].try # 0
  <2>1. \A y \in begun' : y \in begun \/ \E d \in delivered : d.msg = y
    BY <1>begin DEF BeginAck
  <2>2. UNCHANGED <<pub, handlers, stored, con, delivered>>
    BY <1>begin DEF BeginAck, redis
  <2>3. Known(m)' => Known(m)
    BY <2>1, <2>2 DEF Known
  <2> QED BY <2>2, <2>3, <1>same
<1>fewer. ASSUME UNCHANGED <<pub, begun, stored, delivered>>, handlers' \subseteq handlers,
                 \A v \in Consumers : con'[v].out = con[v].out \/ con'[v].out = {}
          PROVE  Known(m)' => pub'[m].try # 0
  <2>1. Known(m)' => Known(m)
    BY <1>fewer DEF Known
  <2> QED BY <2>1, <1>fewer, <1>same
<1>consume. ASSUME NEW w \in Consumers, Consume(w) \/ ConsumeTimeout(w) PROVE Known(m)' => pub'[m].try # 0
  <2>1. \A v \in Consumers : con'[v].out = con[v].out \/ con'[v].out = {}
    BY <1>consume, <1>a DEF Consume, ConsumeTimeout, Fallback, NoTake, CallTypes
  <2> QED BY <2>1, <1>consume, <1>fewer DEF Consume, ConsumeTimeout, history
<1>crash. ASSUME NEW o \in Owner, Crash(o) PROVE Known(m)' => pub'[m].try # 0
  <2>1. \A v \in Consumers : con'[v].out = con[v].out \/ con'[v].out = {}
    BY <1>crash DEF Crash, Fallback, NoTake
  <2> QED BY <2>1, <1>crash, <1>fewer DEF Crash, history
<1>rest. ASSUME UNCHANGED <<pub, begun, stored, delivered, handlers, con>> PROVE Known(m)' => pub'[m].try # 0
  BY <1>rest, <1>fewer
<1>fails. ASSUME NEW o \in Owner, RequeueFails(o) PROVE Known(m)' => pub'[m].try # 0
  BY <1>fails, <1>rest DEF RequeueFails, history
<1>orphan. ASSUME NEW t \in orphans, OrphanStep(t) PROVE Known(m)' => pub'[m].try # 0
  BY <1>orphan, <1>rest DEF OrphanStep, PopLast, Deadline, history
<1>requeue. ASSUME NEW o \in Owner, RequeueStep(o) \/ \E x \in Msgs : Expire(o, x) PROVE Known(m)' => pub'[m].try # 0
  BY <1>requeue, <1>rest DEF RequeueStep, Scan, RequeueLrem, RequeueLpush, RequeueZrem, Expire, tasks, history
<1>ack. ASSUME NEW x \in Msgs, NEW k \in Ackers, AckStep(x, k) \/ AbandonAck(x, k)
        PROVE  Known(m)' => pub'[m].try # 0
  <2>1. UNCHANGED <<pub, begun, stored, delivered, handlers, con>>
    BY <1>ack DEF AckStep, AbandonAck, AckMembers, AckInflight, AckReady, AckVis, AckSrem, AckScard, AckBody, AckOwners, Acked, history
  <2> QED BY <2>1, <1>rest
<1>stutter. ASSUME UNCHANGED vars PROVE Known(m)' => pub'[m].try # 0
  BY <1>stutter, <1>rest DEF vars, tasks, history
<1> HIDE DEF Known
<1> QED
  BY <1>publish, <1>late, <1>ready, <1>handler, <1>step, <1>begin, <1>consume, <1>crash, <1>fails, <1>orphan, <1>requeue,
     <1>ack, <1>stutter DEF Next, PublishStep

\* Who is busy with a message works on it at some owner, or publishes it.
LEMMA BusyIsWorking ==
  ASSUME TypeInv, NEW m \in Msgs
  PROVE  Busy(m) <=> Publishing(m) \/ \E o \in Owner : Working(m, o)
<1>1. \A w \in Consumers : con[w].msg = m => con[w].owner \in Owner
  BY NoMsgAssumption DEF TypeInv, CallTypes, Takes
<1>2. \A t \in orphans : t.owner \in Owner
  BY DEF TypeInv, CallTypes
<1> QED BY <1>1, <1>2 DEF Busy, Taking, Requeuing, Working

\* Removals, the acks' own among them, undo nothing that an ack has done.
LEMMA ProgressKept ==
  ASSUME TypeInv, NEW m \in Msgs, NEW k \in Ackers, ProgressOf(m, k), ack'[m][k] = ack[m][k],
         \A o \in Owner : /\ m \in inflight'[o] => m \in inflight[o]
                          /\ m \in vis'[o] => m \in vis[o]
                          /\ m \in Elements(ready'[o]) => m \in Elements(ready[o])
  PROVE  ProgressOf(m, k)'
<1>1. \A o \in Owner : m \in Copies(o)' => m \in Copies(o)
  BY DEF Copies
<1>2. Gone(m) => Gone(m)'
  BY <1>1 DEF Gone
<1>3. ack[m][k].step \in {"inflight", "ready", "vis", "srem", "scard"} => ack[m][k].owner \in Owner
  BY DEF TypeInv, CallTypes, Acks
<1> QED BY <1>1, <1>2, <1>3 DEF ProgressOf

\* A step that leaves the acks of m alone and brings neither a copy of it nor a call.
LEMMA AloneIfLess ==
  ASSUME TypeInv, TypeInv', NEW m \in Msgs, AckedAlone(m),
         ack'[m] = ack[m], m \in body => m \in body', own[m] \subseteq own'[m], begun \subseteq begun',
         \A o \in Owner : /\ m \in inflight'[o] => m \in inflight[o]
                          /\ m \in vis'[o] => m \in vis[o]
                          /\ m \in Elements(ready'[o]) => m \in Elements(ready[o])
                          /\ Working(m, o)' => Working(m, o),
         Answered(m)' => Answered(m),
         Publishing(m)' => Publishing(m), WrittenFor(m)'
  PROVE  AckedAlone(m)'
<1>1. \A o \in Owner : m \in Copies(o)' => m \in Copies(o)
  BY DEF Copies
<1>2. Busy(m)' => Busy(m)
  <2>1. \A w \in Consumers : con'[w].msg = m => con'[w].owner \in Owner
    BY NoMsgAssumption DEF TypeInv, CallTypes, Takes
  <2>2. \A t \in orphans' : t.owner \in Owner
    BY DEF TypeInv, CallTypes
  <2>3. Busy(m)' => Publishing(m)' \/ \E o \in Owner : Working(m, o)'
    BY <2>1, <2>2 DEF Busy, Taking, Requeuing, Working
  <2> QED BY <2>3, BusyIsWorking
<1>3. Gone(m) => Gone(m)'
  BY <1>1 DEF Gone
<1>4. WholeFor(m)'
  BY <1>1 DEF AckedAlone, WholeFor
<1>5. Progress(m)'
  BY ProgressKept DEF AckedAlone, Progress
<1>6. (Acking(m)' => ~Busy(m)') /\ (Answered(m)' => Gone(m)' /\ ~Busy(m)' /\ m \in begun')
  BY <1>2, <1>3 DEF AckedAlone, Acking
<1> QED BY <1>4, <1>5, <1>6 DEF AckedAlone

\* A step of a call that works on m: there is no ack of m, nor was there one.
LEMMA AloneIfNotAcked ==
  ASSUME NEW m \in Msgs, ~Acking(m)', ~Answered(m)', WrittenFor(m)', WholeFor(m)'
  PROVE  AckedAlone(m)'
BY DEF AckedAlone, Acking, Progress, ProgressOf

LEMMA NextAlone ==
  ASSUME TypeInv, TypeInv', DurableInv, PublishedOnce, [Next]_vars,
         NEW m \in Msgs, m \notin tainted', m \notin tainted, AckedAlone(m)
  PROVE  AckedAlone(m)'
<1>a. CallTypes /\ DataTypes /\ PublishTypes /\ HistoryTypes /\ m # NoMsg
  BY NoMsgAssumption DEF TypeInv
<1>b. /\ Acking(m) => ~Busy(m)
      /\ WrittenFor(m) /\ WholeFor(m) /\ Progress(m)
      /\ Answered(m) => Gone(m) /\ ~Busy(m) /\ m \in begun
  BY DEF AckedAlone
\* Whoever works on m meets no ack.
<1>busy. Busy(m) => ~Acking(m) /\ ~Answered(m)
  BY <1>b
<1>less. ASSUME ack'[m] = ack[m], UNCHANGED <<begun, acked>>, m \in body => m \in body', own[m] \subseteq own'[m],
                \A o \in Owner : /\ m \in inflight'[o] => m \in inflight[o]
                                 /\ m \in vis'[o] => m \in vis[o]
                                 /\ m \in Elements(ready'[o]) => m \in Elements(ready[o])
                                 /\ Working(m, o)' => Working(m, o),
                Publishing(m)' => Publishing(m), WrittenFor(m)'
         PROVE  AckedAlone(m)'
  <2>1. Answered(m)' => Answered(m)
    BY <1>less DEF Answered
  <2> QED BY <1>less, <2>1, AloneIfLess
<1>more. ASSUME ack'[m] = ack[m], UNCHANGED acked, ~Acking(m), ~Answered(m), WrittenFor(m)', WholeFor(m)'
         PROVE  AckedAlone(m)'
  <2>1. ~Acking(m)' /\ ~Answered(m)'
    BY <1>more DEF Acking, Answered
  <2> QED BY <1>more, <2>1, AloneIfNotAcked
\* publishing
<1>publish. ASSUME NEW x \in Msgs, Publish(x) PROVE AckedAlone(m)'
  <2>1. UNCHANGED <<ready, inflight, vis, body, own, con, orphans, worker, ack, begun, acked>>
    BY <1>publish DEF Publish, history
  <2>2. WrittenFor(m)'
    BY <1>publish, <2>1, <1>b DEF Publish, NewHandler, WrittenFor
  <2>3. \A o \in Owner : Working(m, o)' <=> Working(m, o)
    BY <2>1 DEF Working
  <2>4. CASE x = m
    <3>1. pub[m].try = 0
      BY <2>4, <1>publish DEF Publish
    <3>2. ~Known(m)
      BY <3>1 DEF PublishedOnce
    <3>3. ~Acking(m) /\ ~Answered(m)
      BY <3>2, <1>b DEF Known, DurableInv, AckingIsBegun
    <3>4. WholeFor(m)'
      BY <2>1, <2>3, <1>b DEF WholeFor, Copies
    <3> QED BY <2>1, <2>2, <3>3, <3>4, <1>more
  <2>5. CASE x # m
    <3>1. Publishing(m)' => Publishing(m)
      BY <2>5, <1>publish, <1>a DEF Publish, NewHandler, Publishing, PublishTypes
    <3> QED BY <2>1, <2>2, <2>3, <3>1, <1>less
  <2> QED BY <2>4, <2>5
<1>late. ASSUME NEW x \in Msgs, PublishTimeout(x) PROVE AckedAlone(m)'
  <2>1. UNCHANGED <<ready, inflight, vis, body, own, con, orphans, worker, ack, begun, acked>>
    BY <1>late DEF PublishTimeout, redis, history
  <2>2. WrittenFor(m)'
    BY <1>late, <2>1, <1>b DEF PublishTimeout, NewHandler, WrittenFor
  <2>3. \A o \in Owner : Working(m, o)' <=> Working(m, o)
    BY <2>1 DEF Working
  <2>4. Publishing(m)' => Publishing(m)
    <3>1. CASE x = m
      BY <3>1, <1>late, <1>a DEF PublishTimeout, Publishing, PublishTypes
    <3>2. CASE x # m
      BY <3>2, <1>late, <1>a DEF PublishTimeout, NewHandler, Publishing, PublishTypes
    <3> QED BY <3>1, <3>2
  <2> QED BY <2>1, <2>2, <2>3, <2>4, <1>less
<1>handler. ASSUME NEW h \in handlers, PublishBody(h) \/ PublishOwner(h) PROVE AckedAlone(m)'
  <2>0. h \in Handler /\ h.msg \in Msgs /\ h.owner \in Owner
    BY <1>a DEF PublishTypes, Handler
  <2>1. UNCHANGED <<ready, inflight, vis, pub, con, orphans, worker, ack, begun, acked>>
    BY <1>handler DEF PublishBody, PublishOwner, history
  <2>2. body \subseteq body' /\ \A y \in Msgs : own[y] \subseteq own'[y]
    BY <1>handler, <1>a, <2>0 DEF PublishBody, PublishOwner, OwnersWith, DataTypes
  <2>3. \A g \in handlers' : g \in handlers \/ (g.msg = h.msg /\ g.owner = h.owner /\ g.step \in {"sadd", "lpush"})
    BY <1>handler, <2>0 DEF PublishBody, PublishOwner, To, Handler
  <2>4. WrittenFor(m)'
    <3>1. ASSUME NEW g \in handlers', g \in handlers, g.msg = m
          PROVE  /\ g.step # "hset" => m \in body'
                 /\ g.step = "lpush" => g.owner \in own'[m]
      BY <3>1, <2>2, <1>b DEF WrittenFor
    <3>2. ASSUME NEW g \in handlers', g \notin handlers, g.msg = m
          PROVE  /\ g.step # "hset" => m \in body'
                 /\ g.step = "lpush" => g.owner \in own'[m]
      <4>1. h.msg = m /\ g.owner = h.owner
        BY <3>2, <2>3
      <4>2. CASE PublishBody(h)
        <5>1. g = [h EXCEPT !.step = "sadd"] /\ m \in body'
          BY <3>2, <4>1, <4>2 DEF PublishBody, To
        <5> QED BY <5>1, <2>0 DEF Handler
      <4>3. CASE PublishOwner(h)
        <5>1. h.owner \in own'[m] /\ m \in body
          BY <4>1, <4>3, <1>a, <2>0, <1>b DEF PublishOwner, OwnersWith, DataTypes, WrittenFor
        <5> QED BY <5>1, <4>1, <2>2
      <4> QED BY <1>handler, <4>2, <4>3
    <3> QED BY <3>1, <3>2 DEF WrittenFor
  <2>5. \A o \in Owner : Working(m, o)' <=> Working(m, o)
    BY <2>1 DEF Working
  <2>6. Publishing(m)' => Publishing(m)
    BY <2>1, <2>3 DEF Publishing
  <2> QED BY <2>1, <2>2, <2>4, <2>5, <2>6, <1>less
<1>ready. ASSUME NEW h \in handlers, PublishReady(h) PROVE AckedAlone(m)'
  <2>0. h.msg \in Msgs /\ h.owner \in Owner /\ h.step = "lpush"
    BY <1>ready, <1>a DEF PublishReady, PublishTypes, Handler
  <2>1. UNCHANGED <<inflight, vis, body, own, con, orphans, worker, ack, begun, acked>>
    BY <1>ready DEF PublishReady
  <2>2. \A o \in Owner : Elements(ready'[o]) = Elements(ready[o]) \cup (IF o = h.owner THEN {h.msg} ELSE {})
    BY <1>ready, <1>a, <2>0, PushElements DEF PublishReady, Push, DataTypes
  <2>3. \A o \in Owner : Working(m, o)' <=> Working(m, o)
    BY <2>1 DEF Working
  <2>4. WrittenFor(m)'
    BY <1>ready, <2>1, <1>b DEF PublishReady, NewHandler, WrittenFor
  <2>5. CASE h.msg = m
    <3>1. Busy(m) /\ m \in body /\ h.owner \in own[m]
      BY <2>0, <2>5, <1>b DEF Busy, Publishing, WrittenFor
    <3>2. WholeFor(m)'
      BY <2>1, <2>2, <2>3, <3>1, <1>b DEF WholeFor, Copies
    <3> QED BY <2>1, <2>4, <3>1, <3>2, <1>busy, <1>more
  <2>6. CASE h.msg # m
    <3>1. pub'[m] = pub[m] /\ \A g \in handlers' : g.msg = m => g \in handlers
      BY <2>0, <2>6, <1>ready, <1>a DEF PublishReady, NewHandler, PublishTypes
    <3>2. Publishing(m)' => Publishing(m)
      BY <3>1 DEF Publishing
    <3> QED BY <2>1, <2>2, <2>3, <2>4, <2>6, <3>2, <1>less
  <2> QED BY <2>5, <2>6
\* consuming: the calls change, m stays where it is
<1>calls. ASSUME UNCHANGED <<redis, pub, handlers, worker, ack, begun, acked>>,
                 \A v \in Consumers : con'[v].msg = m => \E o \in Owner : con'[v].owner = o /\ Working(m, o),
                 \A t \in orphans' : t.msg = m => \E o \in Owner : t.owner = o /\ Working(m, o)
          PROVE  AckedAlone(m)'
  <2>1. \A o \in Owner : Working(m, o)' => Working(m, o)
    BY <1>calls DEF Working
  <2>2. Publishing(m)' => Publishing(m)
    BY <1>calls DEF Publishing
  <2>3. WrittenFor(m)'
    BY <1>calls, <1>b DEF WrittenFor, redis
  <2> QED BY <1>calls, <2>1, <2>2, <2>3, <1>less DEF redis
<1>w. \A v \in Consumers : con[v].msg = m => \E o \in Owner : con[v].owner = o /\ Working(m, o)
  BY <1>a DEF Working, CallTypes, Takes
<1>t. \A t \in orphans : t.msg = m => \E o \in Owner : t.owner = o /\ Working(m, o)
  BY <1>a DEF Working, CallTypes
<1>consume. ASSUME NEW w \in Consumers, Consume(w) PROVE AckedAlone(m)'
  <2>1. \A v \in Consumers : con'[v] = con[v] \/ con'[v].msg = NoMsg
    BY <1>consume, <1>a DEF Consume, NoTake, CallTypes
  <2> QED BY <1>consume, <2>1, <1>a, <1>w, <1>t, <1>calls DEF Consume, history
\* m is taken from the end of the list, or stays in it
<1>poplast. ASSUME NEW o \in Owner, ready[o] # <<>>, PopLast(o),
                   \A v \in Consumers : con'[v].msg = m =>
                     con'[v] = con[v] \/ (con'[v].msg = Last(o) /\ con'[v].owner = o),
                   \A t \in orphans' : t.msg = m => t \in orphans \/ (t.msg = Last(o) /\ t.owner = o)
            PROVE  AckedAlone(m)'
  <2>1. UNCHANGED <<vis, body, own, pub, handlers, worker, ack, begun, acked>>
    BY <1>poplast DEF PopLast
  <2>2. /\ Elements(ready[o]) = Elements(ready'[o]) \cup {Last(o)}
        /\ \A p \in Owner : p # o => ready'[p] = ready[p]
        /\ \A p \in Owner : inflight'[p] = inflight[p] \cup (IF p = o THEN {Last(o)} ELSE {})
    BY <1>poplast, <1>a, PopElements DEF PopLast, InflightWith, Last, DataTypes
  <2>3. \A p \in Owner : Copies(p)' = Copies(p)
    BY <2>1, <2>2 DEF Copies
  <2>4. WrittenFor(m)' /\ (Publishing(m)' => Publishing(m))
    BY <2>1, <1>b DEF WrittenFor, Publishing
  <2>5. CASE Last(o) = m
    <3>1. m \in Copies(o)
      BY <2>2, <2>5 DEF Copies
    <3>2. ~Acking(m)
      BY <1>poplast, <2>5 DEF PopLast, Taint
    <3>3. ~Answered(m)
      BY <3>1, <1>b DEF Gone
    <3>4. \A p \in Owner : Working(m, p)' => Working(m, p) \/ p = o
      BY <1>poplast, <2>1 DEF Working
    <3>5. WholeFor(m)'
      BY <2>1, <2>3, <3>1, <3>4, <1>b DEF WholeFor
    <3> QED BY <2>1, <2>4, <3>2, <3>3, <3>5, <1>more
  <2>6. CASE Last(o) # m
    <3>1. \A p \in Owner : Working(m, p)' => Working(m, p)
      BY <1>poplast, <2>1, <2>6 DEF Working
    <3>2. \A p \in Owner : /\ m \in inflight'[p] => m \in inflight[p]
                           /\ m \in Elements(ready'[p]) => m \in Elements(ready[p])
      BY <2>2, <2>6
    <3> QED BY <2>1, <2>4, <3>1, <3>2, <1>less
  <2> QED BY <2>5, <2>6
<1>pop. ASSUME NEW w \in Consumers, Pop(w) PROVE AckedAlone(m)'
  <2>0. con[w] \in Takes /\ con[w].owner \in Owner
    BY <1>pop, <1>a DEF Pop, CallTypes, Takes, Take
  <2>1. CASE ready[con[w].owner] = <<>>
    <3>1. con' = [con EXCEPT ![w] = NoTake] \/ con' = [con EXCEPT ![w] = Fallback(con[w])]
      BY <1>pop, <2>1 DEF Pop, Return
    <3>2. \A v \in Consumers : con'[v] = con[v] \/ con'[v].msg = NoMsg
      BY <3>1, <1>a DEF NoTake, Fallback, CallTypes
    <3>3. UNCHANGED <<redis, pub, handlers, worker, ack, begun, acked, orphans>>
      BY <1>pop, <2>1 DEF Pop, Return, history
    <3> QED BY <3>2, <3>3, <1>a, <1>w, <1>t, <1>calls
  <2>2. CASE ready[con[w].owner] # <<>>
    <3>1. PopLast(con[w].owner) /\ con' = [con EXCEPT ![w] = Taken(con[w])] /\ UNCHANGED orphans
      BY <1>pop, <2>2 DEF Pop
    <3>2. \A v \in Consumers : con'[v] = con[v] \/ (con'[v].msg = Last(con[w].owner) /\ con'[v].owner = con[w].owner)
      BY <2>0, <3>1, <1>a DEF Taken, CallTypes, Takes, Take
    <3> QED BY <2>0, <2>2, <3>1, <3>2, <1>poplast
  <2> QED BY <2>1, <2>2
<1>due. ASSUME NEW o \in Owner, NEW x \in Msgs, Deadline(o, x), x = m => Working(m, o),
               \A v \in Consumers : con'[v].msg = m => \E p \in Owner : con'[v].owner = p /\ Working(m, p),
               \A t \in orphans' : t.msg = m => \E p \in Owner : t.owner = p /\ Working(m, p)
        PROVE  AckedAlone(m)'
  <2>1. UNCHANGED <<ready, inflight, body, own, pub, handlers, worker, ack, begun, acked>>
    BY <1>due DEF Deadline, history
  <2>2. \A p \in Owner : vis'[p] = vis[p] \cup (IF p = o THEN {x} ELSE {})
    BY <1>due, <1>a DEF Deadline, DataTypes
  <2>3. \A p \in Owner : Working(m, p)' => Working(m, p)
    BY <1>due, <2>1 DEF Working
  <2>4. WrittenFor(m)' /\ (Publishing(m)' => Publishing(m))
    BY <2>1, <1>b DEF WrittenFor, Publishing
  <2>5. CASE x = m
    <3>1. Busy(m)
      BY <1>due, <2>5, BusyIsWorking
    <3>2. WholeFor(m)'
      BY <1>due, <2>1, <2>2, <2>3, <2>5, <1>b DEF WholeFor, Copies
    <3> QED BY <2>1, <2>4, <3>1, <3>2, <1>busy, <1>more
  <2>6. CASE x # m
    BY <2>1, <2>2, <2>3, <2>4, <2>6, <1>less
  <2> QED BY <2>5, <2>6
<1>deadline. ASSUME NEW w \in Consumers, SetDeadline(w) PROVE AckedAlone(m)'
  <2>1. con[w] \in Takes /\ con[w].owner \in Owner /\ con[w].msg \in Msgs
    BY <1>deadline, <1>a, TakeTypes DEF SetDeadline, CallTypes
  <2>2. \A v \in Consumers : con'[v].msg = con[v].msg /\ con'[v].owner = con[v].owner
    BY <1>deadline, <1>a DEF SetDeadline, CallTypes, Takes, Take
  <2>3. con[w].msg = m => Working(m, con[w].owner)
    BY DEF Working
  <2> QED BY <1>deadline, <2>1, <2>2, <2>3, <1>w, <1>t, <1>due DEF SetDeadline
<1>read. ASSUME NEW w \in Consumers, ReadPayload(w) PROVE AckedAlone(m)'
  <2>1. con' = [con EXCEPT ![w] = NoTake] \/ con' = [con EXCEPT ![w] = WithItem(con[w])]
    BY <1>read DEF ReadPayload, Return
  <2>2. NoTake.msg = NoMsg /\ WithItem(con[w]).msg = NoMsg
    BY <1>a DEF NoTake, WithItem, CallTypes, Takes, Take
  <2>3. \A v \in Consumers : con'[v] = con[v] \/ con'[v].msg = NoMsg
    BY <2>1, <2>2, <1>a DEF CallTypes
  <2>4. UNCHANGED <<redis, pub, handlers, worker, ack, begun, acked, orphans>>
    BY <1>read DEF ReadPayload, Return, history
  <2> QED BY <2>3, <2>4, <1>a, <1>w, <1>t, <1>calls
<1>timeout. ASSUME NEW w \in Consumers, ConsumeTimeout(w) PROVE AckedAlone(m)'
  <2>1. \A v \in Consumers : con'[v] = con[v] \/ con'[v].msg = NoMsg
    BY <1>timeout, <1>a DEF ConsumeTimeout, Fallback, NoTake, CallTypes
  <2>2. \A t \in orphans' : t \in orphans \/ (t.msg = con[w].msg /\ t.owner = con[w].owner)
    BY <1>timeout, <1>a DEF ConsumeTimeout, CallTypes, Takes, Take
  <2>3. UNCHANGED <<redis, pub, handlers, worker, ack, begun, acked>>
    BY <1>timeout DEF ConsumeTimeout, history
  <2> QED BY <2>1, <2>2, <2>3, <1>a, <1>w, <1>t, <1>calls
<1>orphan. ASSUME NEW t \in orphans, OrphanStep(t) PROVE AckedAlone(m)'
  <2>0. t \in Takes /\ t.owner \in Owner /\ (t.step # "pop" => t.msg \in Msgs)
    BY <1>a, TakeTypes DEF CallTypes
  <2>w. [WithItem(t) EXCEPT !.out = {}].msg = NoMsg
    BY <2>0 DEF WithItem, Takes, Take
  <2>1. CASE t.step = "pop" /\ ready[t.owner] # <<>> /\ PopLast(t.owner)
             /\ orphans' = (orphans \ {t}) \cup {Taken(t)} /\ UNCHANGED con
    <3>1. Taken(t).msg = Last(t.owner) /\ Taken(t).owner = t.owner
      BY <2>0 DEF Taken, Takes, Take
    <3> QED BY <2>0, <2>1, <3>1, <1>poplast
  <2>2. CASE t.step # "pop" /\ Deadline(t.owner, t.msg) /\ UNCHANGED con
             /\ orphans' \subseteq orphans \cup {[WithItem(t) EXCEPT !.out = {}]}
    <3>1. t.msg = m => Working(m, t.owner)
      BY DEF Working
    <3>2. \A u \in orphans' : u.msg = m => u \in orphans
      BY <2>2, <2>w, <1>a
    <3> QED BY <2>0, <2>2, <3>1, <3>2, <1>w, <1>t, <1>due
  <2>3. CASE /\ orphans' \subseteq orphans \cup {[WithItem(t) EXCEPT !.out = {}]}
             /\ UNCHANGED <<redis, pub, handlers, con, worker, ack, faults, history>>
    <3>1. \A u \in orphans' : u.msg = m => u \in orphans
      BY <2>3, <2>w, <1>a
    <3> QED BY <2>3, <3>1, <1>w, <1>t, <1>calls DEF history
  <2> QED BY <1>orphan, <2>1, <2>2, <2>3 DEF OrphanStep
<1>expire. ASSUME NEW o \in Owner, NEW x \in Msgs, Expire(o, x) PROVE AckedAlone(m)'
  <2>1. UNCHANGED <<ready, inflight, vis, body, own, tasks, begun, acked>>
    BY <1>expire DEF Expire, history
  <2>2. WrittenFor(m)' /\ (Publishing(m)' => Publishing(m)) /\ \A p \in Owner : Working(m, p)' => Working(m, p)
    BY <2>1, <1>b DEF tasks, WrittenFor, Publishing, Working
  <2> QED BY <2>1, <2>2, <1>less DEF tasks
\* requeuing
<1>worker. ASSUME UNCHANGED <<body, own, pub, handlers, con, orphans, ack, begun, acked>>
           PROVE  /\ WrittenFor(m)' /\ (Publishing(m)' => Publishing(m))
                  /\ \A p \in Owner : Working(m, p)' => Working(m, p) \/ m \in worker'[p].todo \/ m = worker'[p].msg
                  /\ \A p \in Owner : worker'[p] = worker[p] /\ Working(m, p)' => Working(m, p)
                  /\ \A p \in Owner : m \in worker[p].todo \/ m = worker[p].msg => Working(m, p)
  BY <1>worker, <1>b DEF WrittenFor, Publishing, Working
<1>scan. ASSUME NEW o \in Owner, Scan(o) PROVE AckedAlone(m)'
  <2>1. UNCHANGED <<ready, inflight, vis, body, own, pub, handlers, con, orphans, ack, begun, acked>>
    BY <1>scan DEF Scan, redis
  <2>2. \A p \in Owner : worker'[p] = worker[p] \/ (p = o /\ worker'[p].todo = due[p] /\ worker'[p].msg = NoMsg)
    BY <1>scan, <1>a DEF Scan, NoRequeue, CallTypes
  <2>3. CASE m \in due[o]
    <3>1. ~Acking(m)
      BY <1>scan, <2>3 DEF Scan, Taint
    <3>2. m \in Copies(o)
      BY <2>3 DEF DurableInv, KnownCopies, Copies
    <3>3. ~Answered(m)
      BY <3>2, <1>b DEF Gone
    <3>4. \A p \in Owner : Working(m, p)' => Working(m, p) \/ p = o
      BY <2>1, <2>2, <1>worker
    <3>5. WholeFor(m)'
      BY <2>1, <3>2, <3>4, <1>b DEF WholeFor, Copies
    <3> QED BY <2>1, <3>1, <3>3, <3>5, <1>worker, <1>more
  <2>4. CASE m \notin due[o]
    <3>1. \A p \in Owner : Working(m, p)' => Working(m, p)
      BY <2>1, <2>2, <2>4, <1>a, <1>worker
    <3> QED BY <2>1, <3>1, <1>worker, <1>less
  <2> QED BY <2>3, <2>4
<1>lrem. ASSUME NEW o \in Owner, NEW x \in Msgs, RequeueLrem(o, x) PROVE AckedAlone(m)'
  <2>1. UNCHANGED <<ready, vis, body, own, pub, handlers, con, orphans, ack, begun, acked>>
    BY <1>lrem DEF RequeueLrem, history
  <2>2. \A p \in Owner : worker'[p] = worker[p] \/ (worker'[p].todo \subseteq worker[p].todo /\ worker'[p].msg \in worker[p].todo)
    BY <1>lrem, <1>a DEF RequeueLrem, CallTypes
  <2>3. \A p \in Owner : inflight'[p] \subseteq inflight[p]
    BY <1>lrem, <1>a DEF RequeueLrem, DataTypes
  <2>4. \A p \in Owner : Working(m, p)' => Working(m, p)
    BY <2>1, <2>2, <1>worker
  <2> QED BY <2>1, <2>3, <2>4, <1>worker, <1>less
<1>lpush. ASSUME NEW o \in Owner, RequeueLpush(o) PROVE AckedAlone(m)'
  <2>1. UNCHANGED <<inflight, vis, body, own, pub, handlers, con, orphans, ack, begun, acked>>
    BY <1>lpush DEF RequeueLpush, history
  <2>2. \A p \in Owner : worker'[p].todo = worker[p].todo /\ worker'[p].msg = worker[p].msg
    BY <1>lpush, <1>a DEF RequeueLpush, CallTypes, Requeues, Requeue
  <2>3. worker[o].msg \in Msgs
    BY <1>lpush, <1>a, RequeueTypes DEF RequeueLpush, CallTypes
  <2>4. \A p \in Owner : Elements(ready'[p]) = Elements(ready[p]) \cup (IF p = o THEN {worker[o].msg} ELSE {})
    BY <1>lpush, <1>a, <2>3, PushElements DEF RequeueLpush, Push, DataTypes
  <2>5. \A p \in Owner : Working(m, p)' => Working(m, p)
    BY <2>1, <2>2, <1>worker
  <2>6. CASE worker[o].msg = m
    <3>1. Working(m, o) /\ Busy(m)
      BY <2>1, <2>6, <1>worker, BusyIsWorking DEF Working
    <3>2. WholeFor(m)'
      BY <2>1, <2>4, <2>5, <2>6, <3>1, <1>b DEF WholeFor, Copies
    <3> QED BY <2>1, <3>1, <3>2, <1>worker, <1>busy, <1>more
  <2>7. CASE worker[o].msg # m
    BY <2>1, <2>4, <2>5, <2>7, <1>worker, <1>less
  <2> QED BY <2>6, <2>7
<1>zrem. ASSUME NEW o \in Owner, RequeueZrem(o) PROVE AckedAlone(m)'
  <2>1. UNCHANGED <<ready, inflight, body, own, pub, handlers, con, orphans, ack, begun, acked>>
    BY <1>zrem DEF RequeueZrem, history
  <2>2. \A p \in Owner : worker'[p] = worker[p] \/ (worker'[p].todo = worker[p].todo /\ worker'[p].msg = NoMsg)
    BY <1>zrem, <1>a DEF RequeueZrem, CallTypes, Requeues, Requeue
  <2>3. \A p \in Owner : vis'[p] \subseteq vis[p]
    BY <1>zrem, <1>a DEF RequeueZrem, Zrem, DataTypes
  <2>4. \A p \in Owner : Working(m, p)' => Working(m, p)
    BY <2>1, <2>2, <1>a, <1>worker
  <2> QED BY <2>1, <2>3, <2>4, <1>worker, <1>less
\* acks of another message
<1>lists. ASSUME NEW x \in Msgs, NEW k \in Ackers, AckStep(x, k)
          PROVE  /\ \A p \in Owner : /\ m \in inflight'[p] => m \in inflight[p]
                                     /\ m \in vis'[p] => m \in vis[p]
                                     /\ m \in Elements(ready'[p]) => m \in Elements(ready[p])
                 /\ UNCHANGED <<pub, handlers, con, orphans, worker, begun>>
  <2>1. ack[x][k].step \in {"inflight", "ready", "vis"} => ack[x][k].owner \in Owner
    BY <1>a DEF CallTypes, Acks
  <2>2. CASE AckInflight(x, k)
    BY <2>1, <2>2, <1>a DEF AckInflight, DataTypes, history
  <2>3. CASE AckReady(x, k)
    BY <2>1, <2>3, <1>a, WithoutElements DEF AckReady, ReadyAfterAck, DataTypes, history
  <2>4. CASE AckVis(x, k)
    BY <2>1, <2>4, <1>a DEF AckVis, Zrem, DataTypes, history
  <2>5. CASE AckMembers(x, k) \/ AckSrem(x, k) \/ AckScard(x, k) \/ AckBody(x, k) \/ AckOwners(x, k)
    BY <2>5 DEF AckMembers, AckSrem, AckScard, AckBody, AckOwners, Acked, redis, history
  <2> QED BY <1>lists, <2>2, <2>3, <2>4, <2>5 DEF AckStep
<1>idle. ASSUME UNCHANGED <<pub, handlers, con, orphans, worker>>
         PROVE  /\ Busy(m)' => Busy(m)
                /\ \A p \in Owner : Working(m, p)' => Working(m, p)
                /\ Publishing(m)' => Publishing(m)
  BY <1>idle DEF Busy, Publishing, Taking, Requeuing, Working
<1>other. ASSUME NEW x \in Msgs, x # m, NEW k \in Ackers,
                 AckStep(x, k) \/ AbandonAck(x, k) \/ \E kind, o : BeginAck(x, k, kind, o)
          PROVE  AckedAlone(m)'
  <2>1. ack'[m] = ack[m]
    BY <1>other, <1>a, AckGoes, GoesThere DEF CallTypes
  <2>2. (m \in body => m \in body') /\ own'[m] = own[m]
    BY <1>other, <1>a DEF AckStep, AckMembers, AckInflight, AckReady, AckVis, AckSrem, AckScard, AckBody,
       AckOwners, AbandonAck, BeginAck, redis, DataTypes
  <2>3. Answered(m)' => Answered(m)
    <3>1. acked' = acked \/ acked' = acked \cup {<<ack[x][k].kind, x>>}
      BY <1>other DEF AckStep, AckMembers, AckInflight, AckReady, AckVis, AckSrem, AckScard, AckBody,
         AckOwners, Acked, AbandonAck, BeginAck, history
    <3> QED BY <3>1, <1>other DEF Answered
  <2>4. /\ UNCHANGED <<pub, handlers, con, orphans, worker>> /\ begun \subseteq begun'
        /\ \A p \in Owner : /\ m \in inflight'[p] => m \in inflight[p]
                            /\ m \in vis'[p] => m \in vis[p]
                            /\ m \in Elements(ready'[p]) => m \in Elements(ready[p])
    BY <1>other, <1>lists DEF AbandonAck, BeginAck, redis, history
  <2>5. WrittenFor(m)'
    BY <2>2, <2>4, <1>b DEF WrittenFor
  <2> QED BY <2>1, <2>2, <2>3, <2>4, <2>5, <1>idle, AloneIfLess
\* the acks of m: nothing else is busy with it
<1>mine. ASSUME NEW k \in Ackers, NEW b, Goes(m, k, b), ProgressOf(m, k)', ~Busy(m), m \in begun',
                UNCHANGED <<pub, handlers, con, orphans, worker>>,
                \A p \in Owner : /\ m \in inflight'[p] => m \in inflight[p]
                                 /\ m \in vis'[p] => m \in vis[p]
                                 /\ m \in Elements(ready'[p]) => m \in Elements(ready[p]),
                \A p \in Owner : m \in Copies(p)' => p \in own'[m] /\ m \in body',
                Answered(m)' => Gone(m)'
         PROVE  AckedAlone(m)'
  <2>1. ~Busy(m)' /\ \A p \in Owner : ~Working(m, p)'
    BY <1>mine, <1>idle, BusyIsWorking
  <2>2. WrittenFor(m)'
    BY <1>mine DEF WrittenFor, Busy, Publishing
  <2>3. WholeFor(m)'
    BY <1>mine, <2>1 DEF WholeFor
  <2>4. Progress(m)'
    <3>1. ASSUME NEW j \in Ackers, j # k PROVE ProgressOf(m, j)'
      <4>1. ack'[m][j] = ack[m][j]
        BY <1>mine, <1>a, <3>1, GoesThere DEF CallTypes
      <4> QED BY <1>mine, <1>b, <4>1, ProgressKept DEF Progress
    <3> QED BY <1>mine, <3>1 DEF Progress
  <2> QED BY <1>mine, <2>1, <2>2, <2>3, <2>4 DEF AckedAlone
<1>there. ASSUME NEW k \in Ackers, NEW b, Goes(m, k, b) PROVE ack'[m][k] = b
  BY <1>there, <1>a, GoesThere DEF CallTypes
<1>of. ASSUME NEW k \in Ackers PROVE ack[m][k] \in Acks /\ ack[m][k] \in Ack /\ ProgressOf(m, k)
  BY <1>a, <1>b DEF CallTypes, Acks, Progress
<1>acking. Acking(m) => ~Busy(m) /\ m \in begun
  BY <1>b DEF DurableInv, AckingIsBegun
<1>copies. \A p \in Owner : m \in Copies(p) => p \in own[m] /\ m \in body
  BY <1>b DEF WholeFor
<1>begin. ASSUME NEW k \in Ackers, NEW kind, NEW o \in Owner \cup {Idle}, BeginAck(m, k, kind, o),
                 kind = "owner" => o \in Owner
          PROVE  AckedAlone(m)'
  <2>1. UNCHANGED <<ready, inflight, vis, body, own, pub, handlers, con, orphans, worker, acked>> /\ m \in begun'
    BY <1>begin DEF BeginAck, redis
  <2>2. ~Busy(m)
    BY <1>begin DEF BeginAck, Busy
  <2>3. \A p \in Owner : Copies(p)' = Copies(p)
    BY <2>1 DEF Copies
  <2>4. Answered(m)' => Gone(m)'
    BY <2>1, <2>3, <1>b DEF Answered, Gone
  <2>5. ProgressOf(m, k)'
    <3>1. CASE kind # "owner" /\ First(m, k, kind, own[m])
      <4>1. PICK first \in own[m] : Goes(m, k, [step |-> "inflight", kind |-> kind, owner |-> first,
                                                todo |-> own[m] \ {first}, removed |-> FALSE])
        BY <3>1 DEF First
      <4>2. ack'[m][k] = [step |-> "inflight", kind |-> kind, owner |-> first,
                         todo |-> own[m] \ {first}, removed |-> FALSE]
        BY <4>1, <1>there
      <4> QED BY <3>1, <4>2, <2>3, <1>copies DEF ProgressOf
    <3>2. CASE kind = "owner" /\ First(m, k, kind, {o})
      <4>1. ack'[m][k] = [step |-> "inflight", kind |-> kind, owner |-> o, todo |-> {}, removed |-> FALSE]
        BY <3>2, <1>there DEF First
      <4> QED BY <3>2, <4>1 DEF ProgressOf
    <3>3. CASE kind = "id" /\ Goes(m, k, [NoAck EXCEPT !.step = "members"])
      <4>1. ack'[m][k].step = "members"
        BY <3>3, <1>there DEF NoAck
      <4> QED BY <4>1 DEF ProgressOf
    <3> QED BY <1>begin, <3>1, <3>2, <3>3, AckKindsAssumption DEF BeginAck
  <2>6. PICK b : Goes(m, k, b)
    BY <1>begin, AckGoes
  <2> QED BY <2>1, <2>2, <2>3, <2>4, <2>5, <2>6, <1>copies, <1>mine
<1>still. ASSUME NEW k \in Ackers, AckStep(m, k) \/ AbandonAck(m, k), ProgressOf(m, k)',
                 \A p \in Owner : m \in Copies(p)' => p \in own'[m] /\ m \in body',
                 Answered(m)' => Gone(m)'
          PROVE  AckedAlone(m)'
  <2>1. ack[m][k].step # "idle"
    BY <1>still DEF AckStep, AckMembers, AckInflight, AckReady, AckVis, AckSrem, AckScard, AckBody, AckOwners, AbandonAck
  <2>2. ~Busy(m) /\ m \in begun
    BY <2>1, <1>acking DEF Acking
  <2>3. PICK b : Goes(m, k, b)
    BY <1>still, AckGoes
  <2>4. /\ UNCHANGED <<pub, handlers, con, orphans, worker, begun>>
        /\ \A p \in Owner : /\ m \in inflight'[p] => m \in inflight[p]
                            /\ m \in vis'[p] => m \in vis[p]
                            /\ m \in Elements(ready'[p]) => m \in Elements(ready[p])
    BY <1>still, <1>lists DEF AbandonAck, redis, history
  <2> QED BY <1>still, <2>2, <2>3, <2>4, <1>mine
<1>quiet. ASSUME NEW k \in Ackers, AckMembers(m, k) \/ AbandonAck(m, k) PROVE AckedAlone(m)'
  <2>1. UNCHANGED <<ready, inflight, vis, body, own, acked>>
    BY <1>quiet DEF AckMembers, AbandonAck, redis, history
  <2>2. \A p \in Owner : Copies(p)' = Copies(p)
    BY <2>1 DEF Copies
  <2>3. Answered(m)' => Gone(m)'
    BY <2>1, <2>2, <1>b DEF Answered, Gone
  <2>4. ProgressOf(m, k)'
    <3>1. CASE Goes(m, k, NoAck)
      <4>1. ack'[m][k] = NoAck
        BY <3>1, <1>there
      <4> QED BY <4>1 DEF ProgressOf, NoAck
    <3>2. CASE First(m, k, "id", own[m])
      <4>1. PICK first \in own[m] : Goes(m, k, [step |-> "inflight", kind |-> "id", owner |-> first,
                                                todo |-> own[m] \ {first}, removed |-> FALSE])
        BY <3>2 DEF First
      <4>2. ack'[m][k] = [step |-> "inflight", kind |-> "id", owner |-> first,
                         todo |-> own[m] \ {first}, removed |-> FALSE]
        BY <4>1, <1>there
      <4> QED BY <4>2, <2>2, <1>copies DEF ProgressOf
    <3> QED BY <1>quiet, <3>1, <3>2 DEF AckMembers, AbandonAck
  <2> QED BY <1>quiet, <2>1, <2>2, <2>3, <2>4, <1>copies, <1>still DEF AckStep
<1>remove. ASSUME NEW k \in Ackers, AckInflight(m, k) \/ AckReady(m, k) \/ AckVis(m, k) PROVE AckedAlone(m)'
  <2> DEFINE a == ack[m][k]
             b == ack'[m][k]
  <2>0. a \in Ack /\ a.owner \in Owner /\ ProgressOf(m, k)
    BY <1>remove, <1>of DEF AckInflight, AckReady, AckVis, Acks
  <2>1. UNCHANGED <<body, own, acked>> /\ \A p \in Owner : m \in Copies(p)' => m \in Copies(p)
    <3>1. UNCHANGED <<body, own, acked>>
      BY <1>remove DEF AckInflight, AckReady, AckVis, history
    <3> QED BY <1>remove, <3>1, <1>lists DEF AckStep, Copies
  <2>2. Answered(m)' => Gone(m)'
    BY <2>1, <1>b DEF Answered, Gone
  <2>3. CASE AckInflight(m, k)
    <3>1. a.step = "inflight" /\ b.step = "ready" /\ b.kind = a.kind /\ b.owner = a.owner /\ b.todo = a.todo
      BY <2>0, <2>3, <1>there DEF AckInflight, Ack
    <3>2. m \notin inflight'[a.owner]
      BY <2>0, <2>3, <1>a DEF AckInflight, DataTypes
    <3>3. ProgressOf(m, k)'
      BY <2>1, <3>1, <3>2, <2>0 DEF ProgressOf
    <3> QED BY <2>1, <2>2, <2>3, <3>3, <1>copies, <1>still DEF AckStep
  <2>4. CASE AckReady(m, k)
    <3>1. a.step = "ready" /\ b.step = "vis" /\ b.kind = a.kind /\ b.owner = a.owner /\ b.todo = a.todo
      BY <2>0, <2>4, <1>there DEF AckReady, Ack
    <3>2. m \notin inflight'[a.owner] /\ m \notin Elements(ready'[a.owner])
      BY <2>0, <2>4, <3>1, <1>a, WithoutElements DEF AckReady, ReadyAfterAck, DataTypes, ProgressOf
    <3>3. ProgressOf(m, k)'
      BY <2>1, <3>1, <3>2, <2>0 DEF ProgressOf
    <3> QED BY <2>1, <2>2, <2>4, <3>3, <1>copies, <1>still DEF AckStep
  <2>5. CASE AckVis(m, k)
    <3>1. \A p \in Owner : p = a.owner => m \notin Copies(p)'
      <4>1. m \notin inflight[a.owner] /\ m \notin Elements(ready[a.owner])
        BY <2>5, <2>0 DEF AckVis, ProgressOf
      <4>2. m \notin vis'[a.owner] /\ UNCHANGED <<ready, inflight>>
        BY <2>0, <2>5, <1>a DEF AckVis, Zrem, DataTypes
      <4> QED BY <4>1, <4>2 DEF Copies
    <3>2. IF a.kind = "owner" THEN a.todo = {}
          ELSE \A p \in Owner : m \in Copies(p) => p \in a.todo \cup {a.owner}
      BY <2>5, <2>0 DEF AckVis, ProgressOf
    <3>3. CASE a.todo # {}
      <4>1. PICK next \in a.todo : Goes(m, k, [a EXCEPT !.step = "inflight", !.owner = next, !.todo = @ \ {next}])
        BY <2>5, <3>3 DEF AckVis
      <4>2. b.step = "inflight" /\ b.kind = a.kind /\ b.owner = next /\ b.todo = a.todo \ {next}
        BY <4>1, <2>0, <1>there DEF Ack
      <4>3. ProgressOf(m, k)'
        BY <2>1, <3>1, <3>2, <3>3, <4>2 DEF ProgressOf
      <4> QED BY <2>1, <2>2, <2>5, <4>3, <1>copies, <1>still DEF AckStep
    <3>4. CASE a.todo = {}
      <4>1. \/ b = NoAck
            \/ b = [a EXCEPT !.step = IF a.kind = "owner" THEN "srem" ELSE "body"]
        BY <2>5, <3>4, <1>there DEF AckVis, AfterOwner
      <4>2. a.kind # "owner" => Gone(m)'
        BY <2>1, <3>1, <3>2, <3>4 DEF Gone
      <4>3. CASE b = NoAck
        <5>1. ProgressOf(m, k)'
          BY <4>3 DEF ProgressOf, NoAck
        <5> QED BY <2>1, <2>2, <2>5, <5>1, <1>copies, <1>still DEF AckStep
      <4>4. CASE b = [a EXCEPT !.step = IF a.kind = "owner" THEN "srem" ELSE "body"]
        <5>1. /\ b.step = IF a.kind = "owner" THEN "srem" ELSE "body"
              /\ b.kind = a.kind /\ b.owner = a.owner
          BY <4>4, <2>0 DEF Ack
        <5>2. ProgressOf(m, k)'
          BY <2>0, <3>1, <4>2, <5>1 DEF ProgressOf, Copies
        <5> QED BY <2>1, <2>2, <2>5, <5>2, <1>copies, <1>still DEF AckStep
      <4> QED BY <4>1, <4>3, <4>4
    <3> QED BY <3>3, <3>4
  <2> QED BY <1>remove, <2>3, <2>4, <2>5
<1>forget. ASSUME NEW k \in Ackers, AckSrem(m, k) \/ AckScard(m, k) \/ AckBody(m, k) \/ AckOwners(m, k)
           PROVE  AckedAlone(m)'
  <2> DEFINE a == ack[m][k]
             b == ack'[m][k]
  <2>0. a \in Acks /\ a \in Ack /\ ProgressOf(m, k)
    BY <1>of
  <2>1. UNCHANGED <<ready, inflight, vis>> /\ \A p \in Owner : Copies(p)' = Copies(p)
    <3>1. UNCHANGED <<ready, inflight, vis>>
      BY <1>forget DEF AckSrem, AckScard, AckBody, AckOwners, redis
    <3> QED BY <3>1 DEF Copies
  <2>2. Gone(m)' <=> Gone(m)
    BY <2>1 DEF Gone
  <2>3. CASE AckSrem(m, k)
    <3>1. a.kind = "owner" /\ a.owner \in Owner /\ m \notin Copies(a.owner)
      BY <2>0, <2>3 DEF AckSrem, ProgressOf, Acks
    <3>2. b.step = "scard" /\ b.kind = a.kind /\ b.owner = a.owner
      BY <2>0, <2>3, <1>there DEF AckSrem, Ack
    <3>3. body' = body /\ own'[m] = own[m] \ {a.owner} /\ acked' = acked
      BY <2>3, <1>a DEF AckSrem, DataTypes, history
    <3>4. ProgressOf(m, k)'
      BY <2>1, <3>1, <3>2 DEF ProgressOf
    <3>5. Answered(m)' => Gone(m)'
      BY <2>2, <3>3, <1>b DEF Answered
    <3>6. \A p \in Owner : m \in Copies(p)' => p \in own'[m] /\ m \in body'
      BY <2>1, <3>1, <3>3, <1>copies
    <3> QED BY <2>3, <3>4, <3>5, <3>6, <1>still DEF AckStep
  <2>4. CASE AckScard(m, k)
    <3>1. a.kind = "owner" /\ body' = body /\ own' = own
      BY <2>4, <2>0 DEF AckScard, ProgressOf, redis
    <3>2. \A p \in Owner : m \in Copies(p)' => p \in own'[m] /\ m \in body'
      BY <2>1, <3>1, <1>copies
    <3>3. CASE NobodyLeft(m)
      <4>1. Gone(m)
        BY <3>3, <1>copies DEF NobodyLeft, Gone
      <4>2. b.step = "body"
        BY <2>4, <3>3, <2>0, <1>there DEF AckScard, Ack
      <4>3. ProgressOf(m, k)'
        BY <2>2, <4>1, <4>2 DEF ProgressOf
      <4> QED BY <2>2, <2>4, <3>2, <4>1, <4>3, <1>still DEF AckStep
    <3>4. CASE ~NobodyLeft(m)
      <4>1. b = NoAck /\ acked' = acked \cup {<<"owner", m>>}
        BY <2>4, <3>1, <3>4, <1>there DEF AckScard, Acked
      <4>2. ProgressOf(m, k)'
        BY <4>1 DEF ProgressOf, NoAck
      <4>3. Answered(m)' => Gone(m)'
        BY <2>2, <4>1, <1>b DEF Answered
      <4> QED BY <2>4, <3>2, <4>2, <4>3, <1>still DEF AckStep
    <3> QED BY <3>3, <3>4
  <2>5. CASE AckBody(m, k)
    <3>1. Gone(m)
      BY <2>5, <2>0 DEF AckBody, ProgressOf
    <3>2. b.step = "owners"
      BY <2>5, <2>0, <1>there DEF AckBody, Ack
    <3>3. ProgressOf(m, k)'
      BY <2>2, <3>1, <3>2 DEF ProgressOf
    <3>4. \A p \in Owner : m \notin Copies(p)'
      BY <2>1, <3>1 DEF Gone
    <3> QED BY <2>2, <2>5, <3>1, <3>3, <3>4, <1>still DEF AckStep
  <2>6. CASE AckOwners(m, k)
    <3>1. Gone(m)
      BY <2>6, <2>0 DEF AckOwners, ProgressOf
    <3>2. b = NoAck
      BY <2>6, <1>there DEF AckOwners, Acked
    <3>3. ProgressOf(m, k)'
      BY <3>2 DEF ProgressOf, NoAck
    <3>4. \A p \in Owner : m \notin Copies(p)'
      BY <2>1, <3>1 DEF Gone
    <3> QED BY <2>2, <2>6, <3>1, <3>3, <3>4, <1>still DEF AckStep
  <2> QED BY <1>forget, <2>3, <2>4, <2>5, <2>6
\* crashes
<1>crash. ASSUME NEW o \in Owner, Crash(o) PROVE AckedAlone(m)'
  <2>1. UNCHANGED <<ready, inflight, vis, body, own, pub, ack, begun, acked>>
    BY <1>crash DEF Crash, redis, history
  <2>2. \A w \in Consumers : con'[w] = con[w] \/ con'[w].msg = NoMsg
    BY <1>crash DEF Crash, Fallback, NoTake
  <2>3. \A p \in Owner : worker'[p] = worker[p] \/ (worker'[p].todo = {} /\ worker'[p].msg = NoMsg)
    BY <1>crash, <1>a DEF Crash, NoRequeue, CallTypes
  <2>4. orphans' \subseteq orphans /\ handlers' \subseteq handlers
    BY <1>crash DEF Crash
  <2>5. \A p \in Owner : Working(m, p)' => Working(m, p)
    BY <2>2, <2>3, <2>4, <1>a DEF Working
  <2>6. WrittenFor(m)' /\ (Publishing(m)' => Publishing(m))
    BY <2>1, <2>4, <1>b DEF WrittenFor, Publishing
  <2> QED BY <2>1, <2>5, <2>6, <1>less
<1>fails. ASSUME NEW o \in Owner, RequeueFails(o) PROVE AckedAlone(m)'
  <2>1. UNCHANGED <<ready, inflight, vis, body, own, pub, handlers, con, orphans, ack, begun, acked>>
    BY <1>fails DEF RequeueFails, redis, history
  <2>2. \A p \in Owner : worker'[p] = worker[p] \/ (worker'[p].todo = {} /\ worker'[p].msg = NoMsg)
    BY <1>fails, <1>a DEF RequeueFails, NoRequeue, CallTypes
  <2>3. \A p \in Owner : Working(m, p)' => Working(m, p)
    BY <2>1, <2>2, <1>a, <1>worker
  <2> QED BY <2>1, <2>3, <1>worker, <1>less
<1>stutter. ASSUME UNCHANGED vars PROVE AckedAlone(m)'
  BY <1>stutter, <1>w, <1>t, <1>calls DEF vars, tasks, history
<1>acks. ASSUME NEW x \in Msgs, NEW k \in Ackers, AckStep(x, k) \/ AbandonAck(x, k) PROVE AckedAlone(m)'
  BY <1>acks, <1>other, <1>quiet, <1>remove, <1>forget DEF AckStep
<1>begins. ASSUME NEW x \in Msgs, NEW k \in Ackers, NEW kind, NEW o \in Owner \cup {Idle},
                  BeginAck(x, k, kind, o), kind = "owner" => o \in Owner
           PROVE  AckedAlone(m)'
  BY <1>begins, <1>other, <1>begin
<1> QED
  BY <1>publish, <1>late, <1>handler, <1>ready, <1>consume, <1>pop, <1>deadline, <1>read, <1>timeout, <1>orphan, <1>expire,
     <1>scan, <1>lrem, <1>lpush, <1>zrem, <1>acks, <1>begins, <1>crash, <1>fails, <1>stutter
     DEF Next, PublishStep, TakeStep, RequeueStep

LEMMA TaintedGrows == [Next]_vars => tainted \subseteq tainted'
<1> SUFFICES ASSUME [Next]_vars PROVE tainted \subseteq tainted'
  OBVIOUS
<1>1. ASSUME NEW m \in Msgs, Publish(m) \/ PublishTimeout(m) \/ \E o \in Owner : Expire(o, m)
      PROVE  tainted \subseteq tainted'
  BY <1>1 DEF Publish, PublishTimeout, Expire, history
<1>2. ASSUME NEW m \in Msgs, NEW k \in Ackers, AbandonAck(m, k) \/ AckStep(m, k) \/ \E kind, o : BeginAck(m, k, kind, o)
      PROVE  tainted \subseteq tainted'
  BY <1>2 DEF AbandonAck, AckStep, AckMembers, AckInflight, AckReady, AckVis, AckSrem, AckScard, AckBody, AckOwners, Acked, BeginAck, history
<1>3. ASSUME NEW h \in handlers, PublishStep(h) PROVE tainted \subseteq tainted'
  BY <1>3 DEF PublishStep, PublishBody, PublishOwner, PublishReady, history
<1>4. ASSUME NEW w \in Consumers, Consume(w) \/ TakeStep(w) \/ ConsumeTimeout(w) PROVE tainted \subseteq tainted'
  BY <1>4 DEF Consume, TakeStep, ConsumeTimeout, Pop, PopLast, Taint, SetDeadline, Deadline, ReadPayload, Return, history
<1>5. ASSUME NEW t \in orphans, OrphanStep(t) PROVE tainted \subseteq tainted'
  BY <1>5 DEF OrphanStep, PopLast, Taint, Deadline, history
<1>6. ASSUME NEW o \in Owner, RequeueStep(o) \/ RequeueFails(o) \/ Crash(o) PROVE tainted \subseteq tainted'
  BY <1>6 DEF RequeueStep, Scan, Taint, RequeueLrem, RequeueLpush, RequeueZrem, RequeueFails, Crash, history
<1>7. ASSUME UNCHANGED vars PROVE tainted \subseteq tainted'
  BY <1>7 DEF vars, history
<1> QED BY <1>1, <1>2, <1>3, <1>4, <1>5, <1>6, <1>7 DEF Next

LEMMA NextFinal == TypeInv /\ TypeInv' /\ DurableInv /\ FinalInv /\ [Next]_vars => FinalInv'
<1> SUFFICES ASSUME TypeInv, TypeInv', DurableInv, FinalInv, [Next]_vars PROVE FinalInv'
  OBVIOUS
<1>1. PublishedOnce'
  BY NextPublished DEF FinalInv
<1>2. ASSUME NEW m \in Msgs, m \notin tainted' PROVE AckedAlone(m)'
  BY <1>2, TaintedGrows, NextAlone DEF FinalInv
<1> QED BY <1>1, <1>2 DEF FinalInv

LEMMA FinalInvariant == Spec => [](TypeInv /\ DurableInv /\ FinalInv)
BY InitTypes, NextTypes, InitDurable, NextDurable, InitFinal, NextFinal, PTL DEF Spec

\* As long as no ack met another call on the message, a copy at an owner has its
\* payload and the next ack finds it.
THEOREM QueueCopiesStayWhole == Spec => []CopiesStayWhole
<1>1. TypeInv /\ DurableInv /\ FinalInv => CopiesStayWhole
  <2> SUFFICES ASSUME TypeInv, DurableInv, FinalInv, NEW o \in Owner, NEW m \in Copies(o) \ tainted
               PROVE  o \in own[m] /\ m \in body
    BY DEF CopiesStayWhole
  <2>1. m \in Msgs \ tainted
    BY DEF TypeInv, HistoryTypes, DurableInv, KnownCopies
  <2> QED BY <2>1 DEF FinalInv, AckedAlone, WholeFor
<1> QED BY <1>1, FinalInvariant, PTL

\* An ack (any owner) answered True while no call but other acks worked on the
\* message has removed it for good.
THEOREM QueueUndisturbedAckIsFinal == Spec => []UndisturbedAckIsFinal
<1>1. FinalInv => UndisturbedAckIsFinal
  BY DEF FinalInv, AckedAlone, Answered, Gone, UndisturbedAckIsFinal
<1> QED BY <1>1, FinalInvariant, PTL

-----------------------------------------------------------------------------
(* The queue that delivers at least once, which ShardQueue implements *)

\* What a consumer has read was pushed to some owner.
Stored(m) == \E o \in Owner : m \in stored[o]
ReadsAreStored == \A w \in Consumers : \A d \in con[w].out : Stored(d.msg)

LEMMA InitReads == Init => ReadsAreStored
BY DEF Init, ReadsAreStored, NoTake

LEMMA StoredGrows == TypeInv /\ [Next]_vars => \A o \in Owner : stored[o] \subseteq stored'[o]
<1> SUFFICES ASSUME TypeInv, [Next]_vars PROVE \A o \in Owner : stored[o] \subseteq stored'[o]
  OBVIOUS
<1>1. ASSUME NEW h \in handlers, PublishReady(h) PROVE \A o \in Owner : stored[o] \subseteq stored'[o]
  <2>1. stored \in [Owner -> SUBSET Msgs] /\ stored' = [stored EXCEPT ![h.owner] = @ \cup {h.msg}]
    BY <1>1 DEF PublishReady, TypeInv, HistoryTypes
  <2> QED BY <2>1
<1>2. ASSUME NEW m \in Msgs, \/ Publish(m) \/ PublishTimeout(m) \/ (\E o \in Owner : Expire(o, m))
                             \/ \E k \in Ackers : \/ AbandonAck(m, k) \/ AckStep(m, k)
                                                  \/ \E kind, o : BeginAck(m, k, kind, o)
      PROVE  stored' = stored
  BY <1>2 DEF Publish, PublishTimeout, AbandonAck, AckStep, AckMembers, AckInflight, AckReady, AckVis,
              AckSrem, AckScard, AckBody, AckOwners, Acked, BeginAck, Expire, history
<1>3. ASSUME NEW h \in handlers, PublishBody(h) \/ PublishOwner(h) PROVE stored' = stored
  BY <1>3 DEF PublishBody, PublishOwner, history
<1>4. ASSUME NEW w \in Consumers, Consume(w) \/ TakeStep(w) \/ ConsumeTimeout(w) PROVE stored' = stored
  BY <1>4 DEF Consume, TakeStep, ConsumeTimeout, Pop, PopLast, SetDeadline, Deadline, ReadPayload, Return, history
<1>5. ASSUME NEW t \in orphans, OrphanStep(t) PROVE stored' = stored
  BY <1>5 DEF OrphanStep, PopLast, Deadline, history
<1>6. ASSUME NEW o \in Owner, RequeueStep(o) \/ RequeueFails(o) \/ Crash(o) PROVE stored' = stored
  BY <1>6 DEF RequeueStep, Scan, RequeueLrem, RequeueLpush, RequeueZrem, RequeueFails, Crash, history
<1>7. ASSUME UNCHANGED vars PROVE stored' = stored
  BY <1>7 DEF vars, history
<1> QED BY <1>1, <1>2, <1>3, <1>4, <1>5, <1>6, <1>7 DEF Next, PublishStep

\* What a consumer has read after a step: what it had, nothing, or that and the
\* message it was reading.
Reads(w) == \E d \in Delivery : con'[w].out = con[w].out \cup {d} /\ Stored(d.msg)

LEMMA OutOfTakes ==
  ASSUME TypeInv, DurableInv, [Next]_vars, NEW v \in Consumers
  PROVE  con'[v].out = con[v].out \/ con'[v].out = {} \/ Reads(v)
<1> DEFINE Less == con'[v].out = con[v].out \/ con'[v].out = {}
<1>a. con \in [Consumers -> Takes] /\ con[v] \in Take
  BY DEF TypeInv, CallTypes, Takes
<1>1. ASSUME NEW w \in Consumers, Pop(w) \/ SetDeadline(w) PROVE Less
  <2>1. /\ NoTake.out = {} /\ Fallback(con[w]).out = {} /\ Taken(con[w]).out = con[w].out
        /\ [con[w] EXCEPT !.step = "hget"].out = con[w].out
    BY <1>a DEF NoTake, Fallback, Taken, Takes, Take
  <2>2. \/ con' = [con EXCEPT ![w] = NoTake] \/ con' = [con EXCEPT ![w] = Fallback(con[w])]
        \/ con' = [con EXCEPT ![w] = Taken(con[w])]
        \/ con' = [con EXCEPT ![w] = [con[w] EXCEPT !.step = "hget"]]
    BY <1>1, <1>a DEF Pop, SetDeadline, Return
  <2> HIDE DEF NoTake, Fallback, Taken
  <2> QED BY <1>a, <2>1, <2>2
<1>2. ASSUME NEW w \in Consumers, ReadPayload(w) PROVE Less \/ Reads(v)
  <2>1. con[w] \in Takes /\ con[w].step = "hget"
    BY <1>2, <1>a DEF ReadPayload
  <2>2. con[w].owner \in Owner /\ con[w].msg \in stored[con[w].owner] /\ con[w].msg \in Msgs
    BY <2>1, <1>2 DEF DurableInv, KnownTakes, Takes, TypeInv, HistoryTypes
  <2>3. con' = [con EXCEPT ![w] = NoTake] \/ con' = [con EXCEPT ![w] = WithItem(con[w])]
    BY <1>2 DEF ReadPayload, Return
  <2> DEFINE d == [msg |-> con[w].msg, payload |-> con[w].msg \in body]
  <2>4. d \in Delivery /\ Stored(d.msg)
    BY <2>2 DEF Delivery, Stored
  <2>5. WithItem(con[w]).out = con[w].out \cup {d}
    BY <2>1 DEF WithItem, Takes, Take
  <2>6. NoTake.out = {}
    BY DEF NoTake
  <2> HIDE DEF d, NoTake, WithItem
  <2>7. CASE con' = [con EXCEPT ![w] = NoTake]
    BY <1>a, <2>6, <2>7
  <2>8. CASE con' = [con EXCEPT ![w] = WithItem(con[w])] /\ v = w
    <3>1. con'[v].out = con[v].out \cup {d}
      BY <1>a, <2>5, <2>8
    <3> QED BY <2>4, <3>1 DEF Reads
  <2>9. CASE con' = [con EXCEPT ![w] = WithItem(con[w])] /\ v # w
    BY <1>a, <2>9
  <2> QED BY <2>3, <2>7, <2>8, <2>9
<1>3. ASSUME NEW w \in Consumers, Consume(w) \/ ConsumeTimeout(w) PROVE Less
  BY <1>3, <1>a DEF Consume, ConsumeTimeout, Fallback, NoTake
<1>4. ASSUME NEW o \in Owner, Crash(o) PROVE Less
  BY <1>4 DEF Crash, Fallback, NoTake
<1>5. ASSUME NEW m \in Msgs, \/ Publish(m) \/ PublishTimeout(m) \/ (\E o \in Owner : Expire(o, m))
                             \/ \E k \in Ackers : \/ AbandonAck(m, k) \/ AckStep(m, k)
                                                  \/ \E kind, o : BeginAck(m, k, kind, o)
      PROVE  con' = con
  BY <1>5 DEF Publish, PublishTimeout, AbandonAck, AckStep, AckMembers, AckInflight, AckReady, AckVis,
              AckSrem, AckScard, AckBody, AckOwners, BeginAck, Expire, tasks
<1>6. ASSUME NEW h \in handlers, PublishStep(h) PROVE con' = con
  BY <1>6 DEF PublishStep, PublishBody, PublishOwner, PublishReady
<1>7. ASSUME NEW t \in orphans, OrphanStep(t) PROVE con' = con
  BY <1>7 DEF OrphanStep, PopLast, Deadline
<1>8. ASSUME NEW o \in Owner, RequeueStep(o) \/ RequeueFails(o) PROVE con' = con
  BY <1>8 DEF RequeueStep, Scan, RequeueLrem, RequeueLpush, RequeueZrem, RequeueFails
<1>9. ASSUME UNCHANGED vars PROVE con' = con
  BY <1>9 DEF vars, tasks
<1> QED BY <1>1, <1>2, <1>3, <1>4, <1>5, <1>6, <1>7, <1>8, <1>9 DEF Next, TakeStep

LEMMA NextReads ==
  ASSUME TypeInv, DurableInv, ReadsAreStored, [Next]_vars PROVE ReadsAreStored'
<1>1. \A m : Stored(m) => Stored(m)'
  BY StoredGrows DEF Stored
<1> SUFFICES ASSUME NEW w \in Consumers, NEW d \in con'[w].out PROVE Stored(d.msg)'
  BY DEF ReadsAreStored
<1>2. \A e \in con[w].out : Stored(e.msg)
  BY DEF ReadsAreStored
<1>3. CASE Reads(w)
  <2>1. PICK e \in Delivery : con'[w].out = con[w].out \cup {e} /\ Stored(e.msg)
    BY <1>3 DEF Reads
  <2> QED BY <1>1, <1>2, <2>1
<1> QED BY <1>1, <1>2, <1>3, OutOfTakes

\* A message whose ack is final is gone, and nothing works on it.
LEMMA FinalIsGone ==
  ASSUME FinalInv, NEW m \in Final PROVE m \in Msgs /\ Gone(m) /\ ~Busy(m) /\ m \in begun
BY DEF Final, FinalInv, AckedAlone, Answered

\* No step meets a message whose ack is final.
LEMMA FinalStays ==
  ASSUME TypeInv, DurableInv, FinalInv, [Next]_vars, NEW m \in Final PROVE m \notin tainted'
<1>a. /\ m \in Msgs /\ m \notin tainted /\ ~Busy(m)
      /\ \A o \in Owner : m \notin Elements(ready[o]) /\ m \notin vis[o] /\ m \notin due[o]
  BY FinalIsGone DEF Final, Gone, Copies, DurableInv, KnownCopies
<1>b. CallTypes /\ DataTypes
  BY DEF TypeInv
<1>pop. ASSUME NEW o \in Owner, ready[o] # <<>>, PopLast(o) PROVE m \notin tainted'
  <2>1. Last(o) \in Elements(ready[o])
    BY <1>pop, <1>b, PopElements DEF Last, DataTypes
  <2> QED BY <1>a, <1>pop, <2>1 DEF PopLast, Taint
<1>1. ASSUME NEW x \in Msgs, \/ Publish(x) \/ PublishTimeout(x) \/ (\E o \in Owner : Expire(o, x))
                             \/ \E k \in Ackers : AbandonAck(x, k) \/ AckStep(x, k)
      PROVE  tainted' = tainted
  BY <1>1 DEF Publish, PublishTimeout, AbandonAck, AckStep, AckMembers, AckInflight, AckReady, AckVis,
              AckSrem, AckScard, AckBody, AckOwners, Acked, Expire, history
<1>2. ASSUME NEW x \in Msgs, NEW k \in Ackers, \E kind, o : BeginAck(x, k, kind, o) PROVE m \notin tainted'
  BY <1>2, <1>a DEF BeginAck, Busy
<1>3. ASSUME NEW h \in handlers, PublishStep(h) PROVE tainted' = tainted
  BY <1>3 DEF PublishStep, PublishBody, PublishOwner, PublishReady, history
<1>4. ASSUME NEW w \in Consumers, Consume(w) \/ TakeStep(w) \/ ConsumeTimeout(w) PROVE m \notin tainted'
  <2>1. CASE Pop(w) /\ ready[con[w].owner] # <<>>
    <3>1. con[w].owner \in Owner /\ PopLast(con[w].owner)
      BY <2>1, <1>b DEF Pop, CallTypes, Takes, Take
    <3> QED BY <2>1, <3>1, <1>pop
  <2>2. CASE ~(Pop(w) /\ ready[con[w].owner] # <<>>)
    BY <1>4, <2>2, <1>a DEF Consume, TakeStep, ConsumeTimeout, Pop, SetDeadline, Deadline,
                            ReadPayload, Return, history
  <2> QED BY <2>1, <2>2
<1>5. ASSUME NEW t \in orphans, OrphanStep(t) PROVE m \notin tainted'
  <2>1. t.owner \in Owner
    BY <1>b DEF CallTypes
  <2>2. CASE PopLast(t.owner) /\ ready[t.owner] # <<>>
    BY <2>1, <2>2, <1>pop
  <2>3. CASE UNCHANGED history
    BY <2>3, <1>a DEF history
  <2> QED BY <1>5, <2>2, <2>3 DEF OrphanStep, Deadline
<1>6. ASSUME NEW o \in Owner, RequeueStep(o) \/ RequeueFails(o) \/ Crash(o) PROVE m \notin tainted'
  BY <1>6, <1>a DEF RequeueStep, Scan, Taint, RequeueLrem, RequeueLpush, RequeueZrem, RequeueFails, Crash, history
<1>7. ASSUME UNCHANGED vars PROVE tainted' = tainted
  BY <1>7 DEF vars, history
<1> QED BY <1>a, <1>1, <1>2, <1>3, <1>4, <1>5, <1>6, <1>7 DEF Next

LEMMA FinalKept ==
  ASSUME TypeInv, DurableInv, FinalInv, [Next]_vars, acked' = acked PROVE Final' = Final
<1>1. tainted \subseteq tainted'
  BY TaintedGrows
<1>2. \A m \in Final : m \notin tainted'
  BY FinalStays
<1> QED BY <1>1, <1>2 DEF Final

\* Where a step moves or drops a copy of one message at one owner: it drops one
\* only if an ack of it began, and adds one only of a message that was there.
LEMMA CopyMoves ==
  ASSUME TypeInv, DurableInv, TypeInv', DurableInv', FinalInv', Final' = Final,
         UNCHANGED <<stored, delivered, begun>>,
         NEW o \in Owner, NEW m \in Msgs,
         \A p \in Owner : p # o => Copies(p)' = Copies(p),
         Copies(o)' \ {m} = Copies(o) \ {m}
  PROVE  [AtLeast!Next]_(AtLeast!vars)
<1>1. m \in stored[o] \ begun => m \in Copies(o) /\ m \in Copies(o)'
  BY DEF DurableInv, NothingIsLost
<1>2. (m \in Copies(o) => m \in stored[o]) /\ (m \in Copies(o)' => m \in stored[o])
  BY DEF DurableInv, KnownCopies
<1>3. CASE Copies(o)' = Copies(o)
  <2>1. \A p \in Owner : Copies(p)' = Copies(p)
    BY <1>3
  <2> QED BY <2>1 DEF AtLeast!vars
<1>4. CASE m \in Copies(o) /\ m \notin Copies(o)'
  <2>1. m \in begun /\ Copies(o)' = Copies(o) \ {m}
    BY <1>1, <1>2, <1>4
  <2>2. AtLeast!Forget(o, m)
    BY <2>1 DEF AtLeast!Forget
  <2> QED BY <2>2 DEF AtLeast!Next
<1>5. CASE m \notin Copies(o) /\ m \in Copies(o)'
  <2>1. m \notin Final
    <3>1. \A x \in Final' : \A p \in Owner : x \notin Copies(p)'
      BY DEF Final, FinalInv, AckedAlone, Answered, Gone
    <3> QED BY <1>5, <3>1
  <2>2. m \in begun \ Final /\ m \in stored[o] /\ Copies(o)' = Copies(o) \cup {m}
    BY <1>1, <1>2, <1>5, <2>1
  <2>3. AtLeast!Revive(o, m)
    BY <2>2 DEF AtLeast!Revive
  <2> QED BY <2>3 DEF AtLeast!Next
<1> QED BY <1>3, <1>4, <1>5

\* Where the lists stay as they are.
LEMMA SameLists ==
  ASSUME UNCHANGED <<ready, inflight, vis>> PROVE \A p \in Owner : Copies(p)' = Copies(p)
BY DEF Copies

\* A step that does nothing but change one message's copies at one owner.
LEMMA OneCopy ==
  ASSUME TypeInv, DurableInv, FinalInv, TypeInv', DurableInv', FinalInv', [Next]_vars,
         UNCHANGED <<stored, delivered, begun, acked>>,
         NEW o \in Owner, NEW m \in Msgs,
         \A p \in Owner : p # o => Copies(p)' = Copies(p),
         Copies(o)' \ {m} = Copies(o) \ {m}
  PROVE  [AtLeast!Next]_(AtLeast!vars)
BY FinalKept, CopyMoves

LEMMA NoCopy ==
  ASSUME TypeInv, DurableInv, FinalInv, [Next]_vars,
         UNCHANGED <<ready, inflight, vis, stored, delivered, begun, acked>>
  PROVE  UNCHANGED AtLeast!vars
<1>1. Final' = Final
  BY FinalKept
<1>2. \A p \in Owner : Copies(p)' = Copies(p)
  BY SameLists
<1> QED BY <1>1, <1>2 DEF AtLeast!vars

\* PublishReady is where an owner accepts a message.
LEMMA AcceptStep ==
  ASSUME TypeInv, DurableInv, FinalInv, FinalInv', [Next]_vars, NEW h \in handlers, PublishReady(h)
  PROVE  [AtLeast!Next]_(AtLeast!vars)
<1>1. /\ h.msg \in Msgs /\ h.owner \in Owner
      /\ ready \in [Owner -> Seq(Msgs)] /\ stored \in [Owner -> SUBSET Msgs]
  BY DEF TypeInv, PublishTypes, DataTypes, HistoryTypes, Handler
<1>2. /\ UNCHANGED <<inflight, vis, delivered, begun, acked>>
      /\ stored' = [stored EXCEPT ![h.owner] = @ \cup {h.msg}]
      /\ ready' = [ready EXCEPT ![h.owner] = <<h.msg>> \o @]
  BY DEF PublishReady, Push
<1>3. Final' = Final
  BY <1>2, FinalKept
<1>4. /\ Copies(h.owner)' = Copies(h.owner) \cup {h.msg}
      /\ \A p \in Owner : p # h.owner => Copies(p)' = Copies(p)
  <2>1. Elements(ready'[h.owner]) = Elements(ready[h.owner]) \cup {h.msg}
    BY <1>1, <1>2, PushElements
  <2>2. \A p \in Owner : p # h.owner => ready'[p] = ready[p]
    BY <1>1, <1>2
  <2> QED BY <1>2, <2>1, <2>2 DEF Copies
<1>5. h.msg \notin Final
  <2>1. \A x \in Final' : \A p \in Owner : x \notin Copies(p)'
    BY DEF Final, FinalInv, AckedAlone, Answered, Gone
  <2> QED BY <1>1, <1>3, <1>4, <2>1
<1>6. AtLeast!Accept(h.owner, h.msg)
  BY <1>1, <1>2, <1>3, <1>4, <1>5 DEF AtLeast!Accept
<1> QED BY <1>1, <1>6 DEF AtLeast!Next

\* The answer to a consumer gives it what was stored.
LEMMA GiveStep ==
  ASSUME TypeInv, DurableInv, FinalInv, [Next]_vars, UNCHANGED <<ready, inflight, vis, stored, begun, acked>>,
         NEW out \in SUBSET Delivery, \A d \in out : Stored(d.msg), delivered' = delivered \cup out
  PROVE  [AtLeast!Next]_(AtLeast!vars)
<1> DEFINE S == {d.msg : d \in out}
<1>1. S \in SUBSET Msgs /\ \A m \in S : Stored(m)
  BY DEF Delivery
<1>2. {d.msg : d \in delivered'} = {d.msg : d \in delivered} \cup S
  OBVIOUS
<1>3. Final' = Final
  BY FinalKept
<1>4. \A p \in Owner : Copies(p)' = Copies(p)
  BY SameLists
<1>5. AtLeast!Give(S)
  BY <1>1, <1>2, <1>3, <1>4 DEF AtLeast!Give, Stored
<1> QED BY <1>1, <1>5 DEF AtLeast!Next

LEMMA BeginStep ==
  ASSUME TypeInv, DurableInv, FinalInv, [Next]_vars, NEW m \in Msgs, NEW k \in Ackers, NEW kind, NEW o,
         BeginAck(m, k, kind, o)
  PROVE  [AtLeast!Next]_(AtLeast!vars)
<1>1. /\ UNCHANGED <<ready, inflight, vis, stored, delivered, acked>> /\ begun' = begun \cup {m}
      /\ \E d \in delivered : d.msg = m
  BY DEF BeginAck, redis
<1>2. Final' = Final
  BY <1>1, FinalKept
<1>3. \A p \in Owner : Copies(p)' = Copies(p)
  BY <1>1, SameLists
<1>4. AtLeast!BeginAck(m)
  BY <1>1, <1>2, <1>3 DEF AtLeast!BeginAck
<1> QED BY <1>4 DEF AtLeast!Next

\* An ack is answered True.
LEMMA FinishStep ==
  ASSUME TypeInv, FinalInv', NEW m \in Msgs, NEW k \in Ackers, Acked(m, k), UNCHANGED <<ready, inflight, vis>>
  PROVE  [AtLeast!Next]_(AtLeast!vars)
<1>1. acked' = acked \cup {<<ack[m][k].kind, m>>} /\ UNCHANGED <<stored, delivered, begun, tainted>>
  BY DEF Acked
<1>2. \A p \in Owner : Copies(p)' = Copies(p)
  BY SameLists
<1>3. Final' = Final \/ (Final' = Final \cup {m} /\ m \in Final')
  <2>1. \A x \in Msgs : x # m => (x \in Final' <=> x \in Final)
    BY <1>1 DEF Final
  <2>2. m \in Final => m \in Final'
    BY <1>1 DEF Final
  <2>3. Final \subseteq Msgs /\ Final' \subseteq Msgs
    BY DEF Final
  <2> QED BY <2>1, <2>2, <2>3
<1>4. CASE Final' = Final
  BY <1>1, <1>2, <1>4 DEF AtLeast!vars
<1>5. CASE Final' = Final \cup {m} /\ m \in Final'
  <2>1. m \in begun' /\ \A p \in Owner : m \notin Copies(p)'
    BY <1>5 DEF Final, FinalInv, AckedAlone, Answered, Gone
  <2>2. AtLeast!Finish(m)
    BY <1>1, <1>2, <1>5, <2>1 DEF AtLeast!Finish
  <2> QED BY <2>2 DEF AtLeast!Next
<1> QED BY <1>3, <1>4, <1>5

LEMMA QueueStepMaps ==
  ASSUME TypeInv, DurableInv, FinalInv, ReadsAreStored, TypeInv', DurableInv', FinalInv', [Next]_vars
  PROVE  [AtLeast!Next]_(AtLeast!vars)
<1> DEFINE Maps == [AtLeast!Next]_(AtLeast!vars)
<1>a. /\ ready \in [Owner -> Seq(Msgs)] /\ inflight \in [Owner -> SUBSET Msgs]
      /\ vis \in [Owner -> SUBSET Msgs] /\ con \in [Consumers -> Takes]
      /\ orphans \in SUBSET {t \in Takes : t.owner \in Owner} /\ worker \in [Owner -> Requeues]
      /\ ack \in [Msgs -> [Ackers -> Acks]]
  BY DEF TypeInv, CallTypes, DataTypes
<1>copy. ASSUME UNCHANGED <<stored, delivered, begun, acked>>, NEW o \in Owner, NEW m \in Msgs,
                \A p \in Owner : p # o => Copies(p)' = Copies(p), Copies(o)' \ {m} = Copies(o) \ {m}
         PROVE  Maps
  BY <1>copy, OneCopy
<1>none. ASSUME UNCHANGED <<ready, inflight, vis, stored, delivered, begun, acked>> PROVE Maps
  BY <1>none, NoCopy
<1> HIDE DEF Maps
\* the commands on the lists
<1>pop. ASSUME NEW o \in Owner, ready[o] # <<>>, PopLast(o), UNCHANGED <<stored, delivered, begun, acked>>
        PROVE  Maps
  <2>1. /\ Elements(ready[o]) = Elements(ready'[o]) \cup {Last(o)} /\ Last(o) \in Msgs
        /\ inflight'[o] = inflight[o] \cup {Last(o)}
        /\ \A p \in Owner : p # o => ready'[p] = ready[p] /\ inflight'[p] = inflight[p]
    BY <1>pop, <1>a, PopElements DEF PopLast, Last, InflightWith
  <2>2. vis' = vis
    BY <1>pop DEF PopLast
  <2>3. Copies(o)' = Copies(o) /\ \A p \in Owner : p # o => Copies(p)' = Copies(p)
    BY <2>1, <2>2 DEF Copies
  <2> QED BY <1>pop, <2>1, <2>3, <1>copy
<1>deadline. ASSUME NEW o \in Owner, NEW m \in Msgs, Deadline(o, m) PROVE Maps
  <2>1. UNCHANGED <<ready, inflight, stored, delivered, begun, acked>>
    BY <1>deadline DEF Deadline, history
  <2>2. vis'[o] \ {m} = vis[o] \ {m} /\ \A p \in Owner : p # o => vis'[p] = vis[p]
    BY <1>deadline, <1>a DEF Deadline
  <2>3. Copies(o)' \ {m} = Copies(o) \ {m} /\ \A p \in Owner : p # o => Copies(p)' = Copies(p)
    BY <2>1, <2>2 DEF Copies
  <2> QED BY <2>1, <2>3, <1>copy
<1>push. ASSUME NEW o \in Owner, NEW m \in Msgs, Push(o, m),
                UNCHANGED <<inflight, vis, stored, delivered, begun, acked>>
         PROVE  Maps
  <2>1. Elements(ready'[o]) = Elements(ready[o]) \cup {m} /\ \A p \in Owner : p # o => ready'[p] = ready[p]
    BY <1>push, <1>a, PushElements DEF Push
  <2>2. Copies(o)' \ {m} = Copies(o) \ {m} /\ \A p \in Owner : p # o => Copies(p)' = Copies(p)
    BY <1>push, <2>1 DEF Copies
  <2> QED BY <1>push, <2>2, <1>copy
<1>lrem. ASSUME NEW o \in Owner, NEW m \in Msgs, inflight' = [inflight EXCEPT ![o] = @ \ {m}],
                UNCHANGED <<ready, vis, stored, delivered, begun, acked>>
         PROVE  Maps
  <2>1. inflight'[o] \ {m} = inflight[o] \ {m} /\ \A p \in Owner : p # o => inflight'[p] = inflight[p]
    BY <1>lrem, <1>a
  <2>2. Copies(o)' \ {m} = Copies(o) \ {m} /\ \A p \in Owner : p # o => Copies(p)' = Copies(p)
    BY <1>lrem, <2>1 DEF Copies
  <2> QED BY <1>lrem, <2>2, <1>copy
<1>zrem. ASSUME NEW o \in Owner, NEW m \in Msgs, Zrem(o, m),
                UNCHANGED <<ready, inflight, stored, delivered, begun, acked>>
         PROVE  Maps
  <2>1. vis'[o] \ {m} = vis[o] \ {m} /\ \A p \in Owner : p # o => vis'[p] = vis[p]
    BY <1>zrem, <1>a DEF Zrem
  <2>2. Copies(o)' \ {m} = Copies(o) \ {m} /\ \A p \in Owner : p # o => Copies(p)' = Copies(p)
    BY <1>zrem, <2>1 DEF Copies
  <2> QED BY <1>zrem, <2>2, <1>copy
\* publishing
<1>1. ASSUME NEW x \in Msgs, \/ Publish(x) \/ PublishTimeout(x) \/ (\E o \in Owner : Expire(o, x))
                             \/ \E k \in Ackers : AbandonAck(x, k)
      PROVE  Maps
  BY <1>1, <1>none DEF Publish, PublishTimeout, AbandonAck, Expire, redis, history
<1>2. ASSUME NEW h \in handlers, PublishStep(h) PROVE Maps
  <2>1. CASE PublishReady(h)
    BY <2>1, AcceptStep DEF Maps
  <2>2. CASE PublishBody(h) \/ PublishOwner(h)
    BY <2>2, <1>none DEF PublishBody, PublishOwner, history
  <2> QED BY <1>2, <2>1, <2>2 DEF PublishStep
\* consuming
<1>3. ASSUME NEW w \in Consumers, Consume(w) \/ ConsumeTimeout(w) PROVE Maps
  BY <1>3, <1>none DEF Consume, ConsumeTimeout, redis, history
<1>give. ASSUME NEW out \in SUBSET Delivery, \A d \in out : Stored(d.msg), NEW w \in Consumers, Return(w, out),
                UNCHANGED redis
         PROVE  Maps
  <2>1. UNCHANGED <<ready, inflight, vis, stored, begun, acked>> /\ delivered' = delivered \cup out
    BY <1>give DEF Return, redis
  <2> QED BY <1>give, <2>1, GiveStep DEF Maps
<1>4. ASSUME NEW w \in Consumers, Pop(w) PROVE Maps
  <2>1. con[w] \in Take /\ con[w].owner \in Owner /\ con[w].out \in SUBSET Delivery
    BY <1>4, <1>a DEF Pop, Takes, Take
  <2>2. CASE ready[con[w].owner] # <<>>
    <3>1. PopLast(con[w].owner) /\ UNCHANGED <<stored, delivered, begun, acked>>
      BY <1>4, <2>2 DEF Pop, PopLast
    <3> QED BY <2>1, <2>2, <3>1, <1>pop
  <2>3. CASE ready[con[w].owner] = <<>> /\ con[w].out # {}
    <3>1. Return(w, con[w].out) /\ UNCHANGED redis
      BY <1>4, <2>3 DEF Pop
    <3> QED BY <2>1, <3>1, <1>give DEF ReadsAreStored
  <2>4. CASE ready[con[w].owner] = <<>> /\ con[w].out = {}
    BY <1>4, <2>4, <1>none DEF Pop, redis, history
  <2> QED BY <2>2, <2>3, <2>4
<1>5. ASSUME NEW w \in Consumers, SetDeadline(w) PROVE Maps
  <2>1. con[w].owner \in Owner /\ con[w].msg \in Msgs
    BY <1>5, <1>a DEF SetDeadline, Takes, Take
  <2> QED BY <1>5, <2>1, <1>deadline DEF SetDeadline
<1>6. ASSUME NEW w \in Consumers, ReadPayload(w) PROVE Maps
  <2>1. con[w] \in Takes /\ con[w] \in Take /\ con[w].step = "hget"
    BY <1>6, <1>a DEF ReadPayload, Takes
  <2>2. con[w].msg \in Msgs /\ Stored(con[w].msg) /\ con[w].out \in SUBSET Delivery
    BY <2>1 DEF DurableInv, KnownTakes, Takes, Take, Stored
  <2> DEFINE d == [msg |-> con[w].msg, payload |-> con[w].msg \in body]
             out == WithItem(con[w]).out
  <2>3. out = con[w].out \cup {d}
    BY <2>1 DEF WithItem, Take
  <2>4. d \in Delivery /\ d.msg = con[w].msg
    BY <2>2 DEF Delivery
  <2>5. UNCHANGED redis
    BY <1>6 DEF ReadPayload
  <2>6. Return(w, out) \/ UNCHANGED history
    BY <1>6 DEF ReadPayload
  <2> HIDE DEF d, out
  <2>7. out \in SUBSET Delivery /\ \A e \in out : Stored(e.msg)
    BY <2>2, <2>3, <2>4 DEF ReadsAreStored
  <2>8. CASE Return(w, out)
    BY <2>5, <2>7, <2>8, <1>give
  <2>9. CASE UNCHANGED history
    BY <2>5, <2>9, <1>none DEF redis, history
  <2> QED BY <2>6, <2>8, <2>9
<1>7. ASSUME NEW t \in orphans, OrphanStep(t) PROVE Maps
  <2>1. t \in Takes /\ t.owner \in Owner /\ (t.step = "zadd" => t.msg \in Msgs)
    BY <1>a DEF Takes, Take
  <2>2. CASE ready[t.owner] # <<>> /\ PopLast(t.owner)
    BY <2>1, <2>2, <1>pop DEF PopLast
  <2>3. CASE t.step = "zadd" /\ Deadline(t.owner, t.msg)
    BY <2>1, <2>3, <1>deadline
  <2>4. CASE UNCHANGED <<redis, history>>
    BY <2>4, <1>none DEF redis, history
  <2> QED BY <1>7, <2>2, <2>3, <2>4 DEF OrphanStep
\* the requeue worker
<1>8. ASSUME NEW o \in Owner, RequeueStep(o) \/ RequeueFails(o) \/ Crash(o) PROVE Maps
  <2>1. worker[o].msg \in Msgs \/ worker[o].step = "lrem"
    BY <1>a DEF Requeues, Requeue
  <2>2. CASE Scan(o) \/ RequeueFails(o) \/ Crash(o)
    BY <2>2, <1>none DEF Scan, RequeueFails, Crash, redis, history
  <2>3. ASSUME NEW m \in Msgs, RequeueLrem(o, m) PROVE Maps
    BY <2>3, <1>lrem DEF RequeueLrem, history
  <2>4. CASE RequeueLpush(o)
    BY <2>1, <2>4, <1>push DEF RequeueLpush, history
  <2>5. CASE RequeueZrem(o)
    BY <2>1, <2>5, <1>zrem DEF RequeueZrem, history
  <2> QED BY <1>8, <2>2, <2>3, <2>4, <2>5 DEF RequeueStep
\* acks
<1>9. ASSUME NEW m \in Msgs, NEW k \in Ackers, AckStep(m, k) PROVE Maps
  <2>1. ack[m][k].step \in {"inflight", "ready", "vis"} => ack[m][k].owner \in Owner
    BY <1>a DEF Acks
  <2>2. CASE AckMembers(m, k) \/ AckSrem(m, k) \/ AckBody(m, k)
    BY <2>2, <1>none DEF AckMembers, AckSrem, AckBody, redis, history
  <2>3. CASE AckInflight(m, k)
    BY <2>1, <2>3, <1>lrem DEF AckInflight, history
  <2>4. CASE AckReady(m, k)
    <3>0. PICK o \in Owner : o = ack[m][k].owner
      BY <2>1, <2>4 DEF AckReady
    <3>1. /\ UNCHANGED <<inflight, vis, stored, delivered, begun, acked>>
          /\ ready' = [ready EXCEPT ![o] = Without(ready[o], m)]
      BY <2>4, <3>0 DEF AckReady, ReadyAfterAck, history
    <3>2. Elements(ready'[o]) = Elements(ready[o]) \ {m} /\ \A p \in Owner : p # o => ready'[p] = ready[p]
      BY <1>a, <3>1, WithoutElements
    <3>3. Copies(o)' \ {m} = Copies(o) \ {m} /\ \A p \in Owner : p # o => Copies(p)' = Copies(p)
      BY <3>1, <3>2 DEF Copies
    <3> QED BY <3>1, <3>3, <1>copy
  <2>5. CASE AckVis(m, k)
    BY <2>1, <2>5, <1>zrem DEF AckVis, history
  <2>6. CASE AckScard(m, k)
    <3>1. UNCHANGED redis /\ (Acked(m, k) \/ UNCHANGED history)
      BY <2>6 DEF AckScard
    <3>2. CASE Acked(m, k)
      BY <3>1, <3>2, FinishStep DEF redis, Maps
    <3>3. CASE UNCHANGED history
      BY <3>1, <3>3, <1>none DEF redis, history
    <3> QED BY <3>1, <3>2, <3>3
  <2>7. CASE AckOwners(m, k)
    BY <2>7, FinishStep DEF AckOwners, Maps
  <2> QED BY <1>9, <2>2, <2>3, <2>4, <2>5, <2>6, <2>7 DEF AckStep
<1>10. ASSUME NEW m \in Msgs, NEW k \in Ackers, NEW kind, NEW o, BeginAck(m, k, kind, o) PROVE Maps
  BY <1>10, BeginStep DEF Maps
<1>11. ASSUME UNCHANGED vars PROVE Maps
  BY <1>11, <1>none DEF vars, redis, history
<1>12. Maps
  BY <1>1, <1>2, <1>3, <1>4, <1>5, <1>6, <1>7, <1>8, <1>9, <1>10, <1>11 DEF Next, TakeStep
<1> QED BY <1>12 DEF Maps

\* The shards are a queue that delivers at least once: every Redis command is a
\* step of it or none, with all the timeouts, crashes and acks between any two of
\* them (queue_node.py:89-177).
THEOREM QueueImplementsAtLeastOnce == Spec => ImplementsAtLeastOnce
<1>1. Init => AtLeast!Init
  <2> SUFFICES ASSUME Init PROVE AtLeast!Init
    OBVIOUS
  <2>1. \A o \in Owner : Copies(o) = {}
    BY EmptyCopies
  <2> QED BY <2>1 DEF Init, AtLeast!Init, Final
<1>2. Spec => []ReadsAreStored
  <2>1. TypeInv /\ DurableInv /\ FinalInv /\ ReadsAreStored /\ [Next]_vars => ReadsAreStored'
    BY NextReads
  <2> QED BY InitReads, <2>1, FinalInvariant, PTL DEF Spec
<1> QED BY <1>1, <1>2, FinalInvariant, QueueStepMaps, PTL DEF Spec, ImplementsAtLeastOnce, AtLeast!Spec

=============================================================================
