--------------------------- MODULE CacheCoherence ---------------------------
(***************************************************************************)
(* The cache nodes of src/src/nodes/cache_node.py: a write-through LRU     *)
(* cache per node over one shared Redis, and invalidations sent to the     *)
(* other nodes over a Redis pub/sub channel.                               *)
(*                                                                         *)
(* A request is a coroutine that suspends at every Redis command.  A step  *)
(* is either the command taking effect in Redis or what the coroutine does *)
(* in one go after its reply; the local cache is only touched in the       *)
(* latter.  Values are the numbers of the writes: 1 is the first write,    *)
(* 0 is no value.                                                          *)
(***************************************************************************)
EXTENDS Integers, Sequences

CONSTANTS Nodes, Keys,
          Calls,      \* requests that can be in progress at once
          Capacity,   \* CACHE_CAPACITY
          MaxWrites,  \* bound: number of puts
          MaxEvents   \* bound: failed requests, dead listeners, and calls of
                      \* /cache/invalidate, together

ASSUME CapacityAssumption == Capacity \in Nat \ {0}
ASSUME BoundsAssumption == MaxWrites \in Nat /\ MaxEvents \in Nat

VARIABLES store,     \* cache:data:<key> in Redis, 0 if it is not there
          expires,   \* keys that Redis holds with a TTL
          cache,     \* LRU._store of each node, least recently used first
          inbox,     \* of each node and key, the invalidations not yet received
          listener,  \* of each node: "starting", "on" or "dead"
          call,      \* the request each call is working on
          written, events,  \* counters, for the bounds
          latest,    \* history: the last write to each key
          unsent,    \* history: keys with a write whose invalidation was never sent
          missed     \* history: <<node, key>> of invalidations that were not received

history == <<latest, unsent, missed>>
counters == <<written, events>>
vars == <<store, expires, cache, inbox, listener, call, counters, history>>

\* `raced' is history: the node's cache of this key changed while the request
\* that put the entry was on its way.
EntryOf == [key : Keys, value : Nat, state : {"M", "S"}, ttl : BOOLEAN, raced : BOOLEAN]
Steps == {"set", "put", "publish", "get", "pttl", "fill"}
Call == [step : Steps, node : Nodes, key : Keys, value : Nat, ttl : BOOLEAN, raced : BOOLEAN]

NoCall == [step |-> "idle"]
Free(i) == call[i] = NoCall
NewCall(step, n, k, v, ttl) ==
  [step |-> step, node |-> n, key |-> k, value |-> v, ttl |-> ttl, raced |-> FALSE]

Init ==
  /\ store = [k \in Keys |-> 0] /\ expires = {}
  /\ cache = [n \in Nodes |-> <<>>]
  /\ inbox = [n \in Nodes |-> [k \in Keys |-> 0]]
  /\ listener = [n \in Nodes |-> "starting"]
  /\ call = [i \in Calls |-> NoCall]
  /\ written = 0 /\ events = 0
  /\ latest = [k \in Keys |-> 0] /\ unsent = {} /\ missed = {}

-----------------------------------------------------------------------------
(* class LRU *)

Elements(q) == {q[i] : i \in 1..Len(q)}
Entries(n) == Elements(cache[n])

\* A key has one place at most: the store is a dictionary that keeps an order.
Holds(q, k) == \E i \in 1..Len(q) : q[i].key = k
Place(q, k) == CHOOSE i \in 1..Len(q) : q[i].key = k
Without(q, k) ==
  IF Holds(q, k) THEN [j \in 1..(Len(q) - 1) |-> q[IF j < Place(q, k) THEN j ELSE j + 1]]
  ELSE q

\* Mutated form of RoomFor: one entry too many is kept.
RoomForOneMore(q) == IF Len(q) > Capacity THEN Tail(q) ELSE q

\* popitem(last=False): the least recently used entry makes room.
RoomFor(q) == IF Len(q) >= Capacity THEN Tail(q) ELSE q

\* LRU.put
Put(q, e) == Append(IF Holds(q, e.key) THEN Without(q, e.key) ELSE RoomFor(q), e)

\* LRU.get of a live entry: it becomes the most recently used.
Touch(q, e) == Append(Without(q, e.key), e)

On(i, n, k) == ~Free(i) /\ call[i].node = n /\ call[i].key = k

\* The requests on the way at n for k see that the cached copy was changed.
Raced(n, k, j) ==
  [i \in Calls |-> IF i # j /\ On(i, n, k)
                   THEN [call[i] EXCEPT !.raced = TRUE] ELSE call[i]]

-----------------------------------------------------------------------------
(* cache_put: write_through, broadcast_invalidate *)

BeginPut(i, n, k, ttl) ==
  /\ Free(i) /\ written < MaxWrites
  /\ written' = written + 1
  /\ call' = [call EXCEPT ![i] = NewCall("set", n, k, written + 1, ttl)]
  /\ UNCHANGED <<store, expires, cache, inbox, listener, events, history>>

\* SET or PSETEX takes effect.
RedisSet(i) ==
  LET c == call[i] IN
  /\ ~Free(i) /\ c.step = "set"
  /\ store' = [store EXCEPT ![c.key] = c.value]
  /\ expires' = IF c.ttl THEN expires \cup {c.key} ELSE expires \ {c.key}
  /\ latest' = [latest EXCEPT ![c.key] = c.value]
  /\ call' = [call EXCEPT ![i].step = "put", ![i].raced = FALSE]
  /\ UNCHANGED <<cache, inbox, listener, counters, unsent, missed>>

\* The reply is in: the local copy is put, in state M.
PutModified(i) ==
  LET c == call[i] IN
  /\ ~Free(i) /\ c.step = "put"
  /\ cache' = [cache EXCEPT ![c.node] =
       Put(@, [key |-> c.key, value |-> c.value, state |-> "M", ttl |-> c.ttl, raced |-> c.raced])]
  /\ call' = [Raced(c.node, c.key, i) EXCEPT ![i].step = "publish"]
  /\ UNCHANGED <<store, expires, inbox, listener, counters, history>>

\* Mutated form of Receivers: the sender test is the wrong way round.
OnlySender(n) == {m \in Nodes : m = n /\ listener[m] = "on"}

\* The nodes that take the message: the ones subscribed, except its sender
\* (`data.get("from") != SET.self_url').
Receivers(n) == {m \in Nodes : m # n /\ listener[m] = "on"}

\* PUBLISH takes effect.
PublishInvalidation(i) ==
  LET c == call[i] IN
  /\ ~Free(i) /\ c.step = "publish"
  /\ inbox' = [m \in Nodes |->
       IF m \in Receivers(c.node) THEN [inbox[m] EXCEPT ![c.key] = @ + 1] ELSE inbox[m]]
  /\ missed' = missed \cup {<<m, c.key>> : m \in {x \in Nodes \ {c.node} : listener[x] # "on"}}
  /\ call' = [call EXCEPT ![i] = NoCall]
  /\ UNCHANGED <<store, expires, cache, listener, counters, latest, unsent>>

-----------------------------------------------------------------------------
(* cache_get: read_through *)

\* LRU.get finds an entry before its deadline, or after it: as time passes
\* freely, an entry with a deadline may be either.
Hit(n, k) ==
  \E e \in Entries(n) :
    /\ e.key = k
    /\ cache' = [cache EXCEPT ![n] = Touch(@, e)]
    /\ UNCHANGED <<store, expires, inbox, listener, call, counters, history>>

\* Not there, or expired and dropped: GET is sent.
Miss(i, n, k) ==
  /\ Free(i)
  /\ \A e \in Entries(n) : e.key = k => e.ttl
  /\ cache' = [cache EXCEPT ![n] = Without(@, k)]
  /\ call' = [call EXCEPT ![i] = NewCall("get", n, k, 0, FALSE)]
  /\ UNCHANGED <<store, expires, inbox, listener, counters, history>>

\* GET takes effect; without a value the request ends.
RedisGet(i) ==
  LET c == call[i] IN
  /\ ~Free(i) /\ c.step = "get"
  /\ call' = IF store[c.key] = 0 THEN [call EXCEPT ![i] = NoCall]
             ELSE [call EXCEPT ![i].step = "pttl", ![i].value = store[c.key], ![i].raced = FALSE]
  /\ UNCHANGED <<store, expires, cache, inbox, listener, counters, history>>

\* PTTL takes effect: -2 (no key) and -1 (no TTL) both mean no local deadline.
RedisPttl(i) ==
  /\ ~Free(i) /\ call[i].step = "pttl"
  /\ call' = [call EXCEPT ![i].step = "fill", ![i].ttl = call[i].key \in expires]
  /\ UNCHANGED <<store, expires, cache, inbox, listener, counters, history>>

\* The local copy is put, in state S.
Fill(i) ==
  LET c == call[i] IN
  /\ ~Free(i) /\ c.step = "fill"
  /\ cache' = [cache EXCEPT ![c.node] =
       Put(@, [key |-> c.key, value |-> c.value, state |-> "S", ttl |-> c.ttl, raced |-> c.raced])]
  /\ call' = [Raced(c.node, c.key, i) EXCEPT ![i] = NoCall]
  /\ UNCHANGED <<store, expires, inbox, listener, counters, history>>

-----------------------------------------------------------------------------
(* cache_invalidate, inv_listener *)

\* LRU.invalidate; requests on the way are not stopped by it.
Drop(n, k) == cache' = [cache EXCEPT ![n] = Without(@, k)]

Invalidate(i, n, k) ==
  /\ Free(i) /\ events < MaxEvents
  /\ events' = events + 1
  /\ Drop(n, k)
  /\ call' = [Raced(n, k, i) EXCEPT ![i] = NewCall("publish", n, k, 0, FALSE)]
  /\ UNCHANGED <<store, expires, inbox, listener, written, history>>

\* Mutated form of Pending: the test is off by one.
PendingOrNot(n, k) == inbox[n][k] >= 0

Pending(n, k) == inbox[n][k] > 0

Receive(n, k) ==
  /\ Pending(n, k)
  /\ inbox' = [inbox EXCEPT ![n][k] = @ - 1]
  /\ Drop(n, k)
  /\ call' = [i \in Calls |-> IF On(i, n, k) THEN [call[i] EXCEPT !.raced = TRUE] ELSE call[i]]
  /\ UNCHANGED <<store, expires, listener, counters, history>>

\* The subscription is made 0.2 s after the start.
Subscribe(n) ==
  /\ listener[n] = "starting"
  /\ listener' = [listener EXCEPT ![n] = "on"]
  /\ UNCHANGED <<store, expires, cache, inbox, call, counters, history>>

-----------------------------------------------------------------------------
(* Failures, and time *)

\* get_message raises: nothing catches it, the task ends and is not restarted.
ListenerDies(n) ==
  /\ listener[n] = "on" /\ events < MaxEvents
  /\ events' = events + 1
  /\ listener' = [listener EXCEPT ![n] = "dead"]
  /\ inbox' = [inbox EXCEPT ![n] = [k \in Keys |-> 0]]
  /\ missed' = missed \cup {<<n, k>> : k \in {x \in Keys : inbox[n][x] > 0}}
  /\ UNCHANGED <<store, expires, cache, call, written, latest, unsent>>

\* A Redis command fails (before or after it took effect) and the request with it.
UnsentBy(i) == call[i].step \in {"put", "publish"} /\ call[i].value # 0

CallFails(i) ==
  /\ ~Free(i) /\ events < MaxEvents
  /\ events' = events + 1
  /\ call' = [call EXCEPT ![i] = NoCall]
  /\ unsent' = IF UnsentBy(i) THEN unsent \cup {call[i].key} ELSE unsent
  /\ UNCHANGED <<store, expires, cache, inbox, listener, written, latest, missed>>

RedisExpires(k) ==
  /\ k \in expires
  /\ expires' = expires \ {k}
  /\ store' = [store EXCEPT ![k] = 0]
  /\ UNCHANGED <<cache, inbox, listener, call, counters, history>>

-----------------------------------------------------------------------------
Next ==
  \/ \E i \in Calls, n \in Nodes, k \in Keys :
       \/ \E ttl \in BOOLEAN : BeginPut(i, n, k, ttl)
       \/ Miss(i, n, k) \/ Invalidate(i, n, k)
  \/ \E i \in Calls : \/ RedisSet(i) \/ PutModified(i) \/ PublishInvalidation(i)
                      \/ RedisGet(i) \/ RedisPttl(i) \/ Fill(i) \/ CallFails(i)
  \/ \E n \in Nodes : \/ Subscribe(n) \/ ListenerDies(n)
                      \/ \E k \in Keys : Hit(n, k) \/ Receive(n, k)
  \/ \E k \in Keys : RedisExpires(k)

Spec == Init /\ [][Next]_vars
-----------------------------------------------------------------------------
(* Properties *)

TypeOK ==
  /\ store \in [Keys -> Nat]
  /\ expires \in SUBSET Keys
  /\ cache \in [Nodes -> Seq(EntryOf)]
  /\ inbox \in [Nodes -> [Keys -> Nat]]
  /\ listener \in [Nodes -> {"starting", "on", "dead"}]
  /\ call \in [Calls -> Call \cup {NoCall}]
  /\ written \in Nat /\ events \in Nat
  /\ latest \in [Keys -> Nat]
  /\ unsent \in SUBSET Keys
  /\ missed \in SUBSET (Nodes \X Keys)

\* However hits, puts, fills and invalidations of concurrent requests mix, a node
\* keeps at most one copy of a key and at most Capacity copies (cache_node.py:73-79).
LruBounded ==
  \A n \in Nodes :
    /\ Len(cache[n]) <= Capacity
    /\ \A i, j \in 1..Len(cache[n]) : cache[n][i].key = cache[n][j].key => i = j

\* A copy that differs from the last write of its key is one of four things: it
\* was put by a request during which the node's copy had changed; its
\* invalidation is still on the way, or still to be sent by the writer; or that
\* invalidation was lost, because a writer failed or a listener was not there.
InFlight(k) == \E i \in Calls : ~Free(i) /\ call[i].key = k /\ UnsentBy(i)
StaleIsExplained ==
  \A n \in Nodes : \A e \in Entries(n) :
    \/ e.value = latest[e.key]
    \/ e.raced
    \/ Pending(n, e.key) \/ InFlight(e.key)
    \/ e.key \in unsent \/ <<n, e.key>> \in missed

\* No request is in progress, every message was received, and nothing was lost.
Quiet ==
  /\ \A i \in Calls : Free(i)
  /\ \A n \in Nodes, k \in Keys : ~Pending(n, k)
  /\ unsent = {} /\ missed = {}

\* README.md:247: after an update and its invalidation, reads at the other nodes
\* "harus v2" (must be v2).
ReadsSeeLastWrite ==
  Quiet => \A n \in Nodes : \A e \in Entries(n) : e.state = "S" => e.value = latest[e.key]

\* README.md:256: on a write the writer "menjadi M, peer invalidated ke I" (goes
\* to M, its peers are invalidated to I).  Two writers of a key never both stay in
\* M, in whatever order their Redis commands and messages interleave.
SingleModified ==
  Quiet => \A n, m \in Nodes : \A e \in Entries(n), f \in Entries(m) :
    n # m /\ e.key = f.key => ~(e.state = "M" /\ f.state = "M")

\* README.md:257: "Value konsisten v2": the node in M has the value last written.
OwnerHasLastWrite ==
  Quiet => \A n \in Nodes : \A e \in Entries(n) : e.state = "M" => e.value = latest[e.key]

\* cache_node.py:132: the entry takes what is left of the TTL in Redis "supaya
\* entry lokal juga ikut expire" (so that the local entry expires too): a copy of
\* the last write, which Redis has let expire, has a deadline.
TtlFollowsRedis ==
  \A n \in Nodes : \A e \in Entries(n) :
    e.value = latest[e.key] /\ store[e.key] = 0 => e.ttl

=============================================================================
