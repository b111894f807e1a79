----------------------------- MODULE ShardQueue -----------------------------
(***************************************************************************)
(* The distributed queue of src/src/nodes/queue_node.py: class ShardStore  *)
(* and the routes that call it, for one topic and key, whose owners are    *)
(* the nodes 1..R in ring order (1 is the primary).  All the nodes work on *)
(* one shared Redis.  A Redis command is atomic, and nothing else is: one  *)
(* action is one command (with the Python code around it), so that the     *)
(* calls of ShardStore interleave between any two of their commands.       *)
(*                                                                         *)
(* `ready' is a list (LPUSH at its head, RPOP at its end).  `inflight' is a *)
(* list too, but it is only ever pushed to and searched with LREM count 0, *)
(* which makes it a set.  A deadline is not a time here: a message of the  *)
(* sorted set `vis' becomes due at some moment, as early as it was added.  *)
(***************************************************************************)
EXTENDS Integers, Sequences, FiniteSets

CONSTANTS R,            \* number of owners (QUEUE_REPLICA_FACTOR)
          Msgs,         \* the messages published
          Consumers,    \* clients that consume, one call at a time
          MaxMessages,  \* the `max' of their calls
          AckKinds,     \* acks clients use: "any" (ack), "id" (ack_any), "owner" (ack_owner)
          Ackers,       \* clients that ack, each message in one call at a time
          MaxAttempts,  \* post_json's stop_after_attempt
          MaxFaults,    \* bound: timeouts, abandoned calls and node crashes
          NoMsg         \* the absence of a message

ASSUME RAssumption == R \in Nat \ {0}
ASSUME AttemptsAssumption == MaxAttempts \in Nat \ {0} /\ MaxFaults \in Nat
ASSUME AckKindsAssumption == AckKinds \subseteq {"any", "id", "owner"}
ASSUME MaxMessagesAssumption == MaxMessages \in Nat \ {0}
ASSUME NoMsgAssumption == NoMsg \notin Msgs

VARIABLES ready, inflight, vis,  \* q:<topic>:<owner>:..., of each owner
          due,         \* the members of vis[o] whose deadline has passed
          body, own,   \* q:msg:<id> exists; q:owners:<id>
          listed,      \* the topic is in q:topics
          pub,         \* of each publish call, the owner it is writing to
          handlers,    \* publish_to_owner calls in progress
          con,         \* consume call of each consumer
          orphans,     \* consume_from_owner calls whose caller timed out
          worker,      \* requeue_expired_for_owner of each owner
          ack,         \* ack_any_owner or ack_owner call, of each message and acker
          faults,      \* for MaxFaults
          stored,      \* history: the messages ever pushed to each owner
          delivered,   \* history: the messages returned to a client
          begun,       \* history: the messages some ack was called for
          acked,       \* history: <<kind, message>> of the acks answered True
          tainted      \* history: messages acked while a call other than an ack worked on them

redis == <<ready, inflight, vis, due, body, own, listed>>
tasks == <<pub, handlers, con, orphans, worker, ack>>
history == <<stored, delivered, begun, acked, tainted>>
vars == <<redis, tasks, faults, history>>

Owner == 1..R
Idle == 0
Delivery == [msg : Msgs, payload : BOOLEAN]
Handler == [msg : Msgs, owner : Owner, try : Nat, step : {"hset", "sadd", "lpush"}]
\* `out' is what was read so far.
Take == [owner : Owner \cup {Idle}, step : {"pop", "zadd", "hget"}, msg : Msgs \cup {NoMsg},
         count : Nat, out : SUBSET Delivery]
Requeue == [todo : SUBSET Msgs, msg : Msgs \cup {NoMsg}, step : {"lrem", "lpush", "zrem"}]
AckSteps == {"idle", "members", "inflight", "ready", "vis", "srem", "scard", "body", "owners"}
Ack == [step : AckSteps, kind : AckKinds \cup {"any"}, owner : Owner \cup {Idle},
        todo : SUBSET Owner, removed : BOOLEAN]

NoTake == [owner |-> Idle, step |-> "pop", msg |-> NoMsg, count |-> 0, out |-> {}]
NoRequeue == [todo |-> {}, msg |-> NoMsg, step |-> "lrem"]
NoAck == [step |-> "idle", kind |-> "any", owner |-> Idle, todo |-> {}, removed |-> FALSE]

Init ==
  /\ ready = [o \in Owner |-> <<>>] /\ inflight = [o \in Owner |-> {}]
  /\ vis = [o \in Owner |-> {}] /\ due = [o \in Owner |-> {}]
  /\ body = {} /\ own = [m \in Msgs |-> {}] /\ listed = FALSE
  /\ pub = [m \in Msgs |-> [owner |-> Idle, try |-> 0]]
  /\ handlers = {} /\ orphans = {}
  /\ con = [w \in Consumers |-> NoTake]
  /\ worker = [o \in Owner |-> NoRequeue]
  /\ ack = [m \in Msgs |-> [k \in Ackers |-> NoAck]]
  /\ faults = 0
  /\ stored = [o \in Owner |-> {}]
  /\ delivered = {} /\ begun = {} /\ acked = {} /\ tainted = {}

Elements(q) == {q[i] : i \in 1..Len(q)}

\* q without m: the i-th position that is kept is the one with i kept up to it.
Place(kept, i) == Cardinality({k \in kept : k <= i})
Without(q, m) ==
  LET kept == {i \in 1..Len(q) : q[i] # m}
  IN  [j \in 1..Cardinality(kept) |-> q[CHOOSE i \in kept : Place(kept, i) = j]]
Copies(o) == Elements(ready[o]) \cup inflight[o] \cup vis[o]

\* A call in progress works on the message; an ack is disturbed by any but an ack.
Publishing(m) == pub[m].owner \in Owner \/ \E h \in handlers : h.msg = m
Taking(m) == (\E w \in Consumers : con[w].msg = m) \/ (\E t \in orphans : t.msg = m)
Requeuing(m) == \E o \in Owner : m \in worker[o].todo \/ worker[o].msg = m
Acking(m) == \E k \in Ackers : ack[m][k].step # "idle"
Taint(S) == tainted' = tainted \cup {m \in S : Acking(m)}

Fault == faults < MaxFaults /\ faults' = faults + 1

-----------------------------------------------------------------------------
(* publish, publish_internal, publish_to_owner *)

\* Mutated form of NewHandler: a retry only pushes.
RetryOnlyPushes(m, o, try) ==
  [msg |-> m, owner |-> o, try |-> try, step |-> IF try = 1 THEN "hset" ELSE "lpush"]

NewHandler(m, o, try) == [msg |-> m, owner |-> o, try |-> try, step |-> "hset"]

Publish(m) ==
  /\ pub[m] = [owner |-> Idle, try |-> 0]
  /\ pub' = [pub EXCEPT ![m] = [owner |-> 1, try |-> 1]]
  /\ handlers' = handlers \cup {NewHandler(m, 1, 1)}
  /\ listed' = TRUE
  /\ UNCHANGED <<ready, inflight, vis, due, body, own, con, orphans, worker, ack, faults, history>>

To(h, step) == handlers' = (handlers \ {h}) \cup {[h EXCEPT !.step = step]}

PublishBody(h) ==
  /\ h.step = "hset"
  /\ body' = body \cup {h.msg}
  /\ To(h, "sadd")
  /\ UNCHANGED <<ready, inflight, vis, due, own, listed, pub, con, orphans, worker, ack, faults, history>>

\* Mutated form of OwnersWith: the replicas are not added.
OnlyPrimary(h) == [own EXCEPT ![h.msg] = {1}]

OwnersWith(h) == [own EXCEPT ![h.msg] = @ \cup {h.owner}]

PublishOwner(h) ==
  /\ h.step = "sadd"
  /\ own' = OwnersWith(h)
  /\ To(h, "lpush")
  /\ UNCHANGED <<ready, inflight, vis, due, body, listed, pub, con, orphans, worker, ack, faults, history>>

\* Mutated form of Push: RPUSH, which makes a stack of the queue.
PushAtTheEnd(o, m) == ready' = [ready EXCEPT ![o] = Append(@, m)]

\* LPUSH
Push(o, m) == ready' = [ready EXCEPT ![o] = <<m>> \o @]

\* The call returns; if it is the one the publisher waits for, the next owner's
\* turn comes, or publish returns (owner Idle, with a try).
PublishReady(h) ==
  LET last == h.owner = R IN
  /\ h.step = "lpush"
  /\ Push(h.owner, h.msg)
  /\ stored' = [stored EXCEPT ![h.owner] = @ \cup {h.msg}]
  /\ IF pub[h.msg] = [owner |-> h.owner, try |-> h.try]
     THEN /\ pub' = [pub EXCEPT ![h.msg] =
                       [owner |-> IF last THEN Idle ELSE h.owner + 1, try |-> 1]]
          /\ handlers' = (handlers \ {h}) \cup
                           IF last THEN {} ELSE {NewHandler(h.msg, h.owner + 1, 1)}
     ELSE handlers' = handlers \ {h} /\ UNCHANGED pub
  /\ UNCHANGED <<inflight, vis, due, body, own, listed, con, orphans, worker, ack, faults,
                 delivered, begun, acked, tainted>>

\* post_json timed out; the call it made may go on.  The last failure makes
\* publish fail, after the owners it had written to before.
PublishTimeout(m) ==
  LET p == pub[m] IN
  /\ p.owner # Idle
  /\ Fault
  /\ IF p.try < MaxAttempts
     THEN /\ pub' = [pub EXCEPT ![m].try = @ + 1]
          /\ handlers' = handlers \cup {NewHandler(m, p.owner, p.try + 1)}
     ELSE pub' = [pub EXCEPT ![m].owner = Idle] /\ UNCHANGED handlers
  /\ UNCHANGED <<redis, con, orphans, worker, ack, history>>

-----------------------------------------------------------------------------
(* consume, consume_internal, consume_from_owner *)

Consume(w) ==
  /\ con[w].owner = Idle
  /\ con' = [con EXCEPT ![w] = [NoTake EXCEPT !.owner = 1]]
  /\ UNCHANGED <<redis, pub, handlers, orphans, worker, ack, faults, history>>

\* Mutated form of Fallback: off by one at the last owner.
FallbackPastLast(t) == [NoTake EXCEPT !.owner = t.owner + 1]

\* The next owner in ring order, or the empty answer.
Fallback(t) == IF t.owner < R THEN [NoTake EXCEPT !.owner = t.owner + 1] ELSE NoTake

Last(o) == ready[o][Len(ready[o])]

\* Mutated form of InflightWith: RPOP instead of RPOPLPUSH.
PoppedOnly(o) == inflight

InflightWith(o) == [inflight EXCEPT ![o] = @ \cup {Last(o)}]

\* RPOPLPUSH from a list that is not empty.
PopLast(o) ==
  /\ ready' = [ready EXCEPT ![o] = SubSeq(@, 1, Len(@) - 1)]
  /\ inflight' = InflightWith(o)
  /\ Taint({Last(o)})
  /\ UNCHANGED <<vis, due, body, own, listed, pub, handlers, worker, ack, faults,
                 stored, delivered, begun, acked>>

Taken(t) == [t EXCEPT !.step = "zadd", !.msg = Last(t.owner)]

\* The answer reaches the client.
Return(w, out) ==
  /\ con' = [con EXCEPT ![w] = NoTake]
  /\ delivered' = delivered \cup out
  /\ UNCHANGED <<stored, begun, acked, tainted>>

Pop(w) ==
  /\ con[w].owner # Idle /\ con[w].step = "pop"
  /\ IF ready[con[w].owner] = <<>>
     THEN /\ IF con[w].out # {} THEN Return(w, con[w].out)
             ELSE con' = [con EXCEPT ![w] = Fallback(con[w])] /\ UNCHANGED history
          /\ UNCHANGED <<redis, pub, handlers, worker, ack, faults>>
     ELSE con' = [con EXCEPT ![w] = Taken(con[w])] /\ PopLast(con[w].owner)
  /\ UNCHANGED orphans

\* ZADD: a new deadline replaces the old one.
Deadline(o, m) ==
  /\ vis' = [vis EXCEPT ![o] = @ \cup {m}]
  /\ due' = [due EXCEPT ![o] = @ \ {m}]
  /\ UNCHANGED <<ready, inflight, body, own, listed, pub, handlers, worker, ack, faults, history>>

SetDeadline(w) ==
  /\ con[w].step = "zadd"
  /\ Deadline(con[w].owner, con[w].msg)
  /\ con' = [con EXCEPT ![w].step = "hget"]
  /\ UNCHANGED orphans

IsFull(t) == t.count + 1 = MaxMessages

\* The payload is read, and the loop goes on for another message.
WithItem(t) ==
  [t EXCEPT !.step = "pop", !.msg = NoMsg, !.count = @ + 1,
            !.out = @ \cup {[msg |-> t.msg, payload |-> t.msg \in body]}]

ReadPayload(w) ==
  LET t == WithItem(con[w]) IN
  /\ con[w].step = "hget"
  /\ IF IsFull(con[w]) THEN Return(w, t.out)
     ELSE con' = [con EXCEPT ![w] = t] /\ UNCHANGED history
  /\ UNCHANGED <<redis, pub, handlers, orphans, worker, ack, faults>>

\* The client of the owner (a node that proxies) times out and falls back to the
\* next owner; the call goes on and its answer is lost.
ConsumeTimeout(w) ==
  /\ con[w].owner # Idle
  /\ Fault
  /\ con' = [con EXCEPT ![w] = Fallback(con[w])]
  /\ orphans' = orphans \cup {[con[w] EXCEPT !.out = {}]}
  /\ UNCHANGED <<redis, pub, handlers, worker, ack, history>>

\* What it reads is lost; its loop goes on.
OrphanStep(t) ==
  \/ /\ t.step = "pop" /\ ready[t.owner] # <<>>
     /\ PopLast(t.owner)
     /\ orphans' = (orphans \ {t}) \cup {Taken(t)}
     /\ UNCHANGED con
  \/ /\ t.step = "zadd"
     /\ Deadline(t.owner, t.msg)
     /\ orphans' = (orphans \ {t}) \cup
                     IF IsFull(t) THEN {} ELSE {[WithItem(t) EXCEPT !.out = {}]}
     /\ UNCHANGED con
  \/ /\ t.step = "hget" \/ (t.step = "pop" /\ ready[t.owner] = <<>>)
     /\ orphans' = (orphans \ {t}) \cup
                     IF t.step = "pop" \/ IsFull(t) THEN {} ELSE {[WithItem(t) EXCEPT !.out = {}]}
     /\ UNCHANGED <<redis, pub, handlers, con, worker, ack, faults, history>>

-----------------------------------------------------------------------------
(* requeue_worker, requeue_expired_for_owner *)

\* Time passes.
Expire(o, m) ==
  /\ m \in vis[o] \ due[o]
  /\ due' = [due EXCEPT ![o] = @ \cup {m}]
  /\ UNCHANGED <<ready, inflight, vis, body, own, listed, tasks, faults, history>>

\* SMEMBERS, which the topic stays in, and ZRANGEBYSCORE.
Scan(o) ==
  /\ listed /\ worker[o] = NoRequeue /\ due[o] # {}
  /\ worker' = [worker EXCEPT ![o].todo = due[o]]
  /\ Taint(due[o])
  /\ UNCHANGED <<redis, pub, handlers, con, orphans, ack, faults, stored, delivered, begun, acked>>

RequeueLrem(o, m) ==
  /\ worker[o].msg = NoMsg /\ m \in worker[o].todo
  /\ inflight' = [inflight EXCEPT ![o] = @ \ {m}]
  /\ worker' = [worker EXCEPT ![o] = [todo |-> @.todo \ {m}, msg |-> m, step |-> "lpush"]]
  /\ UNCHANGED <<ready, vis, due, body, own, listed, pub, handlers, con, orphans, ack, faults, history>>

RequeueLpush(o) ==
  /\ worker[o].step = "lpush"
  /\ Push(o, worker[o].msg)
  /\ worker' = [worker EXCEPT ![o].step = "zrem"]
  /\ UNCHANGED <<inflight, vis, due, body, own, listed, pub, handlers, con, orphans, ack, faults, history>>

Zrem(o, m) ==
  /\ vis' = [vis EXCEPT ![o] = @ \ {m}]
  /\ due' = [due EXCEPT ![o] = @ \ {m}]

RequeueZrem(o) ==
  /\ worker[o].step = "zrem"
  /\ Zrem(o, worker[o].msg)
  /\ worker' = [worker EXCEPT ![o] = [@ EXCEPT !.msg = NoMsg, !.step = "lrem"]]
  /\ UNCHANGED <<ready, inflight, body, own, listed, pub, handlers, con, orphans, ack, faults, history>>

-----------------------------------------------------------------------------
(* ack, ack_any, ack_owner *)

Goes(m, k, call) == ack' = [ack EXCEPT ![m][k] = call]

\* The loop over the owners begins.
First(m, k, kind, owners) ==
  /\ owners # {}
  /\ \E first \in owners :
       Goes(m, k, [step |-> "inflight", kind |-> kind, owner |-> first,
                   todo |-> owners \ {first}, removed |-> FALSE])

\* A client acks what some client was given, whoever else is acking it.
\* ack_any_owner begins with SMEMBERS; ack_any looks the topic up before, with HGET.
BeginAck(m, k, kind, o) ==
  /\ kind \in AckKinds
  /\ ack[m][k].step = "idle" /\ \E d \in delivered : d.msg = m
  /\ CASE kind = "any"   -> First(m, k, kind, own[m])
       [] kind = "owner" -> First(m, k, kind, {o})
       [] kind = "id"    -> m \in body /\ Goes(m, k, [NoAck EXCEPT !.step = "members"])
  /\ begun' = begun \cup {m}
  /\ tainted' = IF Publishing(m) \/ Taking(m) \/ Requeuing(m) THEN tainted \cup {m} ELSE tainted
  /\ UNCHANGED <<redis, pub, handlers, con, orphans, worker, faults, stored, delivered, acked>>

AckMembers(m, k) ==
  /\ ack[m][k].step = "members"
  /\ IF own[m] = {} THEN Goes(m, k, NoAck) ELSE First(m, k, "id", own[m])
  /\ UNCHANGED <<redis, pub, handlers, con, orphans, worker, faults, history>>

AckInflight(m, k) ==
  LET a == ack[m][k] IN
  /\ a.step = "inflight"
  /\ Goes(m, k, [a EXCEPT !.step = "ready", !.removed = @ \/ m \in inflight[a.owner]])
  /\ inflight' = [inflight EXCEPT ![a.owner] = @ \ {m}]
  /\ UNCHANGED <<ready, vis, due, body, own, listed, pub, handlers, con, orphans, worker, faults, history>>

\* Mutated form of ReadyAfterAck: the edge case "in ready" is left out.
ReadyUnchanged(o, m) == ready[o]

ReadyAfterAck(o, m) == Without(ready[o], m)

AckReady(m, k) ==
  LET a == ack[m][k] IN
  /\ a.step = "ready"
  /\ Goes(m, k, [a EXCEPT !.step = "vis", !.removed = @ \/ m \in Elements(ready[a.owner])])
  /\ ready' = [ready EXCEPT ![a.owner] = ReadyAfterAck(a.owner, m)]
  /\ UNCHANGED <<inflight, vis, due, body, own, listed, pub, handlers, con, orphans, worker, faults, history>>

\* What follows the commands of one owner, if it was the last.
AfterOwner(a) ==
  IF ~a.removed THEN NoAck
  ELSE [a EXCEPT !.step = IF a.kind = "owner" THEN "srem" ELSE "body"]

AckVis(m, k) ==
  LET a == ack[m][k] IN
  /\ a.step = "vis"
  /\ Zrem(a.owner, m)
  /\ IF a.todo = {} THEN Goes(m, k, AfterOwner(a))
     ELSE \E next \in a.todo :
            Goes(m, k, [a EXCEPT !.step = "inflight", !.owner = next, !.todo = @ \ {next}])
  /\ UNCHANGED <<ready, inflight, body, own, listed, pub, handlers, con, orphans, worker, faults, history>>

AckSrem(m, k) ==
  /\ ack[m][k].step = "srem"
  /\ own' = [own EXCEPT ![m] = @ \ {ack[m][k].owner}]
  /\ Goes(m, k, [ack[m][k] EXCEPT !.step = "scard"])
  /\ UNCHANGED <<ready, inflight, vis, due, body, listed, pub, handlers, con, orphans, worker, faults, history>>

\* The call returns True.
Acked(m, k) ==
  /\ Goes(m, k, NoAck)
  /\ acked' = acked \cup {<<ack[m][k].kind, m>>}
  /\ UNCHANGED <<stored, delivered, begun, tainted>>

\* Mutated form of NobodyLeft: the last owner's ack is taken for the only one.
LeftOrNot(m) == TRUE

\* SCARD
NobodyLeft(m) == own[m] = {}

AckScard(m, k) ==
  /\ ack[m][k].step = "scard"
  /\ IF NobodyLeft(m) THEN Goes(m, k, [ack[m][k] EXCEPT !.step = "body"]) /\ UNCHANGED history
                      ELSE Acked(m, k)
  /\ UNCHANGED <<redis, pub, handlers, con, orphans, worker, faults>>

AckBody(m, k) ==
  /\ ack[m][k].step = "body"
  /\ body' = body \ {m}
  /\ Goes(m, k, [ack[m][k] EXCEPT !.step = "owners"])
  /\ UNCHANGED <<ready, inflight, vis, due, own, listed, pub, handlers, con, orphans, worker, faults, history>>

AckOwners(m, k) ==
  /\ ack[m][k].step = "owners"
  /\ own' = [own EXCEPT ![m] = {}]
  /\ Acked(m, k)
  /\ UNCHANGED <<ready, inflight, vis, due, body, listed, pub, handlers, con, orphans, worker, faults>>

-----------------------------------------------------------------------------
(* Crashes: what a node was doing is gone, Redis is as it was. *)

\* The owner restarts; whoever had called it sees an error.
Crash(o) ==
  /\ Fault
  /\ handlers' = {h \in handlers : h.owner # o}
  /\ con' = [w \in Consumers |-> IF con[w].owner = o THEN Fallback(con[w]) ELSE con[w]]
  /\ orphans' = {t \in orphans : t.owner # o}
  /\ worker' = [worker EXCEPT ![o] = NoRequeue]
  /\ UNCHANGED <<redis, pub, ack, history>>

\* A Redis command of the worker fails, and nothing else does: the exception drops
\* the rest of the scan.
RequeueFails(o) ==
  /\ worker[o] # NoRequeue
  /\ Fault
  /\ worker' = [worker EXCEPT ![o] = NoRequeue]
  /\ UNCHANGED <<redis, pub, handlers, con, orphans, ack, history>>

\* The node that runs an ack dies in the middle of it, or a Redis command of it fails.
AbandonAck(m, k) ==
  /\ ack[m][k].step # "idle"
  /\ Fault
  /\ Goes(m, k, NoAck)
  /\ UNCHANGED <<redis, pub, handlers, con, orphans, worker, history>>

-----------------------------------------------------------------------------
PublishStep(h) == PublishBody(h) \/ PublishOwner(h) \/ PublishReady(h)
TakeStep(w) == Pop(w) \/ SetDeadline(w) \/ ReadPayload(w)
RequeueStep(o) == Scan(o) \/ (\E m \in Msgs : RequeueLrem(o, m)) \/ RequeueLpush(o) \/ RequeueZrem(o)
AckStep(m, k) ==
  \/ AckMembers(m, k) \/ AckInflight(m, k) \/ AckReady(m, k) \/ AckVis(m, k)
  \/ AckSrem(m, k) \/ AckScard(m, k) \/ AckBody(m, k) \/ AckOwners(m, k)

Next ==
  \/ \E m \in Msgs : Publish(m) \/ PublishTimeout(m) \/ \E o \in Owner : Expire(o, m)
  \/ \E m \in Msgs, k \in Ackers : \/ BeginAck(m, k, "any", Idle) \/ BeginAck(m, k, "id", Idle)
                                  \/ \E o \in Owner : BeginAck(m, k, "owner", o)
                                  \/ AckStep(m, k) \/ AbandonAck(m, k)
  \/ \E h \in handlers : PublishStep(h)
  \/ \E w \in Consumers : Consume(w) \/ TakeStep(w) \/ ConsumeTimeout(w)
  \/ \E t \in orphans : OrphanStep(t)
  \/ \E o \in Owner : RequeueStep(o) \/ RequeueFails(o) \/ Crash(o)

Spec == Init /\ [][Next]_vars

\* Redis answers, the nodes run, deadlines pass and clients keep consuming;
\* nobody has to publish, to ack or to fail.
FairSpec ==
  /\ Spec
  /\ WF_vars(\E h \in handlers : PublishStep(h))
  /\ WF_vars(\E t \in orphans : OrphanStep(t))
  /\ \A w \in Consumers : WF_vars(Consume(w) \/ TakeStep(w))
  /\ \A o \in Owner : WF_vars(RequeueStep(o)) /\ \A m \in Msgs : WF_vars(Expire(o, m))
  /\ \A m \in Msgs, k \in Ackers : WF_vars(AckStep(m, k))

-----------------------------------------------------------------------------
(* Properties *)

TypeOK ==
  /\ ready \in [Owner -> Seq(Msgs)]
  /\ inflight \in [Owner -> SUBSET Msgs]
  /\ vis \in [Owner -> SUBSET Msgs]
  /\ due \in [Owner -> SUBSET Msgs]
  /\ body \in SUBSET Msgs
  /\ own \in [Msgs -> SUBSET Owner] /\ listed \in BOOLEAN
  /\ pub \in [Msgs -> [owner : Owner \cup {Idle}, try : Nat]]
  /\ handlers \in SUBSET Handler
  /\ con \in [Consumers -> Take]
  /\ orphans \in SUBSET Take
  /\ worker \in [Owner -> Requeue]
  /\ ack \in [Msgs -> [Ackers -> Ack]]
  /\ faults \in Nat
  /\ stored \in [Owner -> SUBSET Msgs]
  /\ delivered \in SUBSET Delivery
  /\ begun \in SUBSET Msgs
  /\ acked \in SUBSET (AckKinds \X Msgs)
  /\ tainted \in SUBSET Msgs

\* Nothing is lost from Redis: a message nobody began to ack is, at each owner it
\* was pushed to, ready, in flight or known to the requeue worker, wherever a
\* consumer, a worker or a node stopped in the middle of its commands.
NothingIsLost == \A o \in Owner : \A m \in stored[o] \ begun : m \in Copies(o)

\* A message is delivered without its payload (None, queue_node.py:122) only if
\* somebody began to ack it before.
PayloadUntilAck == \A d \in delivered : ~d.payload => d.msg \in begun

\* An ack of a message that nobody acked yet looks at every owner that has it.
AckFindsEveryOwner == \A o \in Owner : \A m \in stored[o] \ begun : o \in own[m]

\* An ack (any owner) that was answered True while no call but other acks worked on
\* the message has removed it for good: no copy is left and none comes back.
UndisturbedAckIsFinal ==
  \A m \in Msgs : ({<<"any", m>>, <<"id", m>>} \cap acked) # {} /\ m \notin tainted =>
    \A o \in Owner : m \notin Copies(o)

\* As long as the acks of a message met no call on it but each other, a copy at an
\* owner has its payload and is found by the next ack: acks at one owner or at all,
\* given up in the middle, repeated or overlapping, leave no copy behind that nobody
\* can ack any more.
CopiesStayWhole ==
  \A o \in Owner : \A m \in Copies(o) \ tainted : o \in own[m] /\ m \in body

\* The shards are a queue that delivers at least once: through the lists, the
\* deadlines, the workers and the crashes, a copy goes away only after an ack of
\* the message began, only what was pushed is delivered and only what was
\* delivered is acked; and after an ack (any owner) that was answered True and met
\* no call but other acks nothing stores, requeues or revives the message ever again.
Final == {m \in Msgs : ({<<"any", m>>, <<"id", m>>} \cap acked) # {} /\ m \notin tainted}
AtLeast == INSTANCE AtLeastOnce WITH
  Places <- Owner,
  Messages <- Msgs,
  accepted <- stored,
  kept <- [o \in Owner |-> Copies(o)],
  given <- {d.msg : d \in delivered},
  final <- Final
ImplementsAtLeastOnce == AtLeast!Spec

\* Without faults, every message that was published is delivered, whatever the
\* consumers leave unacked and the workers requeue in between.
PublishedIsDelivered ==
  \A m \in Msgs : m \in stored[1] ~> \E d \in delivered : d.msg = m

\* README.md:173: "Tanpa ACK, setelah TTL habis pesan akan muncul lagi" (without
\* an ack, the message appears again when its TTL has passed).
AppearsAgain ==
  \A m \in Msgs : m \in inflight[1] ~> (m \in Elements(ready[1]) \/ m \in begun)

\* test_queue_end_to_end.py:67: after the ack, "mustinya tidak re-deliver".
NotDeliveredAfterAck == [][\A w \in Consumers : ReadPayload(w) => <<"any", con[w].msg>> \notin acked]_vars

\* README.md:222: after ack_owner, "pastikan tidak re-deliver" (make sure it is
\* not delivered again).
NotDeliveredAfterAckOwner ==
  [][\A w \in Consumers : ReadPayload(w) => <<"owner", con[w].msg>> \notin acked]_vars

=============================================================================
