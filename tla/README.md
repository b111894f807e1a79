# Verification of the Distributed Synchronization System

TLA+ models, TLC runs and TLAPS proofs about the code in `src/src/` (paths below
are relative to the directory that holds `src/` and `tla/`; the repository's own
README is `src/README.md`).

Contents: 1. the system, 2. hard behaviours, 3. what makes each component correct,
4. modules, 5. runs, 6. disagreements between code and documents, 7. proofs,
8. limits, 9. plan, 10. how to run.

## 1. The system

Three services of three nodes each, Python/asyncio over HTTP, one process per node.

| Component | Code | State | Operations | Talks to |
|---|---|---|---|---|
| Lock table | `lock_manager.py:18-129` | holders, mode and queue per resource; wait-for graph; token counter | `acquire`, `release`, `deadlock_probe`, applied as log commands | called by Raft's apply |
| Raft replication | `consensus/raft.py` | term, vote, role, log, commit and apply index, next index; nothing on disk | election loop, heartbeat loop, `submit`, the two RPC handlers | peers, by `post_json`; the lock table |
| Lock service | `lock_manager.py:141-332` | futures of pending requests | HTTP routes; a follower proxies to the leader; waits 2 s for the result | Raft, clients, other nodes |
| Queue shards | `queue_node.py:97-316` | Redis: ready list, in-flight list and deadline index per owner; payload and owner set per message | publish, consume, three acks, requeue worker | Redis (shared by all nodes), other owners |
| Hash ring | `queue_node.py:43-78` | sorted points, constant | `owners(topic, key, r)` | the queue routes |
| Cache nodes | `cache_node.py` | LRU map per node; Redis: one value per key, with or without TTL | put, get, invalidate; invalidation listener | Redis, and its pub/sub channel |
| Failure detector | `failure_detector.py`, started and stopped by `base_node.py:150-192` | statistics per peer, last reported status | `record`, `phi`, probe loop with a status callback | peers' `/health` |
| HTTP client | `message_passing.py` | none | `post_json` (3 attempts), `get_json` (1) | everything above |
| Node process | `base_node.py` | which role it plays | start-up, shutdown, health, metrics | mounts the routes |

Interaction: a client calls a lock route; the leader's `submit` appends to its log
and posts the entry to its peers; when a majority took it, every node applies it to
its lock table, the leader at once and the followers when a later message carries
the commit index. Queue and cache nodes share nothing but Redis: their operations
are sequences of Redis commands which interleave between any two commands, with
proxied calls (queue) and published invalidations (cache) between the nodes.

## 2. Hard behaviours

* Coroutines of one node suspend at every request or Redis command and go on with
  state others changed: votes are counted in another role and term (`raft.py:73`),
  the entry sent is not the one submitted (`raft.py:130`), a fill puts a value that
  was invalidated meanwhile (`cache_node.py:139`).
* `post_json` retries what may have been done already.
* Replies are lost, requests are delivered late; Raft nodes restart with nothing of
  their term, vote and log (`raft.py:20-34`); queue owners crash between two Redis
  commands; listeners die; a write fails between SET and PUBLISH; a command raises
  in the middle of the loop that applies (`raft.py:175`).
* The requeue worker, consumers and acks work on the same lists without a
  transaction.
* The lock table's queue is served only by a release that empties the holders; its
  wait-for graph is a snapshot.
* The detector judges every peer when the slowest probe of a round has ended, by a
  mean that long outages, and answers too early to be sampled, have changed.
* The ring's binary search and walk at their boundaries: equal hashes, a key past
  the last point, a factor above the number of nodes.

`PROJECT.json` lists the hazards one by one, at their lines.

## 3. What makes each component correct

* Lock table: exclusion; no grant missed; a token names one grant; the queue served
  from the front; a wait-for graph that says who waits for whom.
* Probe: True exactly if there is a cycle; it ends.
* Raft: one vote per term, one leader per term, applied commands held by a quorum,
  replicas that apply the same commands in the same order, accepted commands applied.
* Lock service: a handler gets the result of its own command or none; no future is
  left behind by an applied command; nothing committed stays unapplied but behind a
  command that raised; every call ends.
* Queue: no message lost before its ack; payload and owner index complete while it
  can be delivered, so that an ack finds every copy; delivered at least once; not delivered after an ack.
* Cache: bounded LRU; no stale copy once invalidations have arrived; at most one
  node in M, with the last value; local TTL no longer than that in Redis.
* Ring: the first distinct peers clockwise from the key, as many as are wanted or all.
* Detector: no suspicion without silence; a dead peer is reported in the end.

## 4. Modules

| Module | Models | One action is |
|---|---|---|
| `WaitForGraph` | graphs over clients, and `Cyclic`, the definition of a deadlock | - |
| `LockTable` (`LockTableMC`) | `LockTable.apply` | one command; `apply` never suspends |
| `Locks` | nothing: the abstract specification that `LockTable` implements | a grant, a wait, an end, a hand-over |
| `ReplicatedLog` | nothing: the abstract specification that `Raft` implements while it is serial | a command gets its place, a replica advances, or loses all |
| `AtLeastOnce` | nothing: the abstract specification that `ShardQueue` implements | a place accepts, forgets or revives a message; messages are given, an ack begins or is final |
| `DeadlockProbe` | the nested `dfs` of `deadlock_probe` | one loop iteration, call or return |
| `Raft` (`RaftMC`) | `RaftNode` with `post_json`, and restarts | what a coroutine does between two suspensions, or one handler |
| `LockService` | `LockRSM`, the lock routes and the loop that applies, while one node leads | what a handler does between two suspensions, or one turn of the loop |
| `ShardQueue` (`ShardQueueMC`) | `ShardStore` and its routes, for one topic and key | one Redis command |
| `Ring` (`RingMC`) | `Ring.owners` | one turn of the binary search or of the walk |
| `CacheCoherence` (`CacheCoherenceMC`) | `LRU`, `CacheNode`, its routes and listener | one Redis command, or what follows its reply |
| `FailureDetector` (`FailureDetectorMC`) | the phi detector, its probe loop, their start and stop | an answer or failure of one probe, the end of a round, or a tick of time |
| `LockTableProofs`, `DeadlockProbeProofs`, `RaftProofs`, `LockServiceProofs`, `RingProofs`, `FailureDetectorProofs`, `ShardQueueProofs`, `CacheProofs` | the proofs (section 7) | - |

The `...MC` modules only add symmetry sets and the values of constants. The
operators called "mutated form of" are small plausible bugs; with one of them in
place of the definition after it, TLC finds the property named in `PROJECT.json`
violated, which shows that the property can fail.

**LockTable.** `mode`, `holders`, `queue`, `waits`, `clock` are the fields of the
Python class; a resource without an entry and one with an empty entry behave alike
and are one value. `AcquireGranted` joins the two grant paths of `acquire`,
`AcquireQueued` is the third; `ReleaseOnly` and `ReleaseAndGrant` are `release`
without and with a grant from the queue. A release may carry any token, also one of
another resource or one never issued. `asked`, `served` and `since` are history.
`FairSpec` says that every holder releases in the end; nothing less could empty a
queue, and the code expects it of its clients (there is no lease).

**Locks.** What a lock service promises, without the table: a grant is a client, a
mode and a token; a request is granted when it fits with every grant, or joins the
line; a release ends one grant, or ends the last one and hands the resource to the
longest prefix of the line that fits together. Under the refinement mapping
(`GrantsOf`, `LineOf`, `clock` in `LockTable`) a grant's mode is what its holder
asked for, which `LockTable` keeps only as the one `mode` of the resource. That the
table never grants against it, misses a hand-over, takes it from the wrong end of
the queue or reuses a token is the property `ImplementsLocks`. `Locks` lets a
compatible request pass the line, as the code does; section 6 has what the comment
says of that.

**DeadlockProbe.** The recursion is an explicit stack `path`, with the successors
not yet seen of each call in `left`. The order in which Python iterates a set is a
choice. The graph is any graph, not only one the lock table can build.

**Raft.** Each activity of a node is a coroutine with a list `todo` of peers still to
ask; `net` holds requests not yet handled, `waiting` those whose reply is awaited.
Requests are built at the moment they are sent. A reply is recorded in the
handler's step (it only increments a counter local to the coroutine). A timeout is
either a lost reply or a request that is late and can still be handled; both count
against `MaxFaults`. The election timer may fire at any time unless the loop is
busy asking. `cancel()` of the old heartbeat task forgets what it was waiting for.
The dictionary `next_index` has the same value for every peer and is never
changed after the election; `match_index` and `leader_url` are never read by the
protocol and are left out. `Restart` is the end of a process and the start of its
successor: term, vote, log and indexes are those of a new `RaftNode`, its coroutines
are gone, and what it had sent can still arrive, with nobody to take the reply. The
nodes that may restart are the constant `Restarting`; each does so once, which
counts as a fault; `restarted` is history. `FairSpec`: the event loop runs its
coroutines, and a request that is waited for is answered or times out. Elections
and client requests are under no fairness.

**ReplicatedLog.** What a replicated state machine promises, without messages or
terms: one order of the commands; every replica holds a prefix of it, and applies a
prefix of what it holds, when a quorum holds (or had, before it lost its log) that
much. Under the refinement mapping (`Order`, `CmdsOf` in `Raft`) the order is the
log of the node that won, so a command gets its place only at a replica that holds
all the others. `SerialSpec` has the behaviours of `Spec` that stay `Serial`: one
term, one winner that does not restart, no append sent twice, no overlapping
submissions. All else is there: other nodes that restart with nothing, late
requests, lost replies, submissions without a majority.

**LockService.** The three lock routes do the same with different commands and are
one. A command is known by the index of its entry, so `result[p] = i` says that the
handler of post `p` got what applying entry `i` gave; `LockTable` says what that is.
A follower posts a request up to `MaxAttempts` times (`post_json`); every post has a
handler of its own, with a request id of its own unless the body brings one (only
`acquire` looks for it; any call may have one here, which allows more). Replication
is one step that ends with a majority or without; the entry of a submission without
a majority is committed by a later one. `commit` may go back, as `commit_index`
does. The loop that applies runs in the handler whose submission was committed
(`applier`) and never suspends. The calls in `Incomplete` have a body that lacks a
field (`cmd["resource"]`): applying their command raises, after `last_applied` was
advanced; the loop ends, its handler answers 500, and the rest of what is committed
waits for the next submission that gets a majority. The answer "Replication failed"
does not occur: the role was checked without a suspension in between, and `submit`
is only False for a node that does not lead. `FairSpec`: a post that is waited for
arrives, replication ends, the loop goes on, a caller that was answered 500 posts
again or gives up, and the 2 s pass.

**ShardQueue.** `ready` is a list, `inflight` a set (it is only pushed to and
searched), `vis` the members of the deadline index, `due` those whose time has come.
A deadline can pass at any moment after it was set: the code computes it from the
time before the pop. `handlers`, `con`, `orphans`, `worker` and `ack` are the calls
in progress, each at its next Redis command; a consume call asks for up to
`MaxMessages` and keeps what it has read in `out`; `orphans` are calls whose caller
timed out and moved on. `listed` says that the topic is in `q:topics`, without which
no worker scans it. The kinds of ack are `ack` ("any": SMEMBERS is read, then every
owner), `ack_any` ("id": the topic is looked up with HGET first) and `ack_owner`
("owner": one owner, SREM, SCARD, and the payload only when nobody is left). `Ackers`
are the clients that ack: each message in one call at a time, but as many clients, or
tries of one, as there are ackers may be acking the same message at once. `Crash`
drops what an owner was doing and keeps Redis; `RequeueFails` is a failing command of
the worker alone, whose exception drops the rest of its scan; a failing command of an
ack ends that call (`AbandonAck`, also for the death of its node), and one of a publish
or consume call at its owner is, for Redis, a call that never goes on: its caller goes on
as after a timeout (`PublishTimeout`, `ConsumeTimeout`). Redis and HTTP are external and
appear only as the code uses them. Only the publisher's calls are retried
(`post_json`); consume proxies with `get_json`, which has one try.

**AtLeastOnce.** What the queue promises, without lists, deadlines or workers: a place
keeps what it accepted until somebody begins to ack it, only what was accepted is
given to clients, and only what was given is acked. After the begin of an ack a place
may forget a message and get it back from a call that still works on it, but a final
ack has left it nowhere, and nothing brings it back. Under the refinement mapping a place keeps what
is ready, in flight or in the index of deadlines at an owner (`Copies`), and an ack
(`ack` or `ack_any`) is final that was answered True and met no call but other acks
(`Final`).

**Ring.** The points are any list sorted by hash, and a hash any number: SHA-1 is
only ever compared. `Point(i)` is the 0-based `points[i]`; `Search` is a turn of the
binary search, `Found` its end with the `%` that wraps, `Walk` a turn of the walk.
In `ShardQueue` the owners of the key are the numbers 1 to R in this order.

**CacheCoherence.** Values are write numbers. Every request that suspends is a call
with a step; the local cache is touched only in steps after a reply. An entry with
a deadline may or may not have expired at any get. `Receive` handles one
invalidation; they commute for one key, so the inbox is a counter. `raced` marks a
request that was on its way while its node's copy of the key changed.

**FailureDetector.** Time passes in steps of `Tick` ms, for all peers at once, and
only while no probe of the round has exceeded its timeout; what the event loop does
takes none. Means and variances are integers, rounded down. `phi >= 8` is a condition
on the silence: 1 - CDF(z) = 1e-8 at z = 5.612, so a peer is suspected when the
silence exceeds the mean by d with 2 d^2 >= 63 variance (`Exceeds`). Ages above
`MaxAge` are all the same, and a peer that was silent for longer than `MaxPause`
does not answer again; both only bound the model. `Peers` has the code's test by
substring of the port. `silence` is history: the time since the last answer, sampled
or not, which the statistics are compared with.

## 5. Runs

"distinct" are the states TLC finds (with symmetry where a cfg says so).

| Run | Bounds | Checks | distinct |
|---|---|---|---|
| DeadlockProbe | all graphs on 3 clients | `TypeOK AlarmIsCycle SilenceIsAcyclic SearchIsLinear` | 9 k |
| LockTable | 3 clients, 2 resources, 4 acquires | `TypeOK MutualExclusion HeadIsBlocked WaitersAreQueued WaitsForOldHolders ImplementsLocks QueuesDrain` | 75 k |
| RaftTerms | 3 nodes, 2 terms, no command, 1 fault; node 2 may restart | `TypeOK VoteOncePerTerm CleanElectionSafety` | 2.2 M |
| RaftSerial | 3 nodes, 1 term, 2 commands, 1 fault or restart of node 2 | `ImplementsReplicatedLog CommitNeedsQuorum AppliedWithinLog` | 2.1 M |
| RaftReachesAll | 3 nodes, 1 term, 1 command, 2 attempts, 2 faults | `SerialReachesAll` | 169 k |
| QueueSafety | 1 owner, 1 message, 2 consumers, 2 ackers, `ack`, 2 attempts, 1 fault | `TypeOK NothingIsLost PayloadUntilAck ImplementsAtLeastOnce` | 0.2 M |
| QueueReplicas | 2 owners, 1 message, 1 consumer, 2 ackers, every kind of ack, 2 attempts, 2 faults; `Untainted` | `AckFindsEveryOwner CopiesStayWhole` | 0.9 M |
| QueueDelivery | 2 owners, 2 messages, 1 consumer that asks for 2, no ack | `PublishedIsDelivered` | 196 k |
| CacheSafety | 2 nodes, 1 key, 2 calls, 2 writes, 1 fault or manual invalidation | `TypeOK StaleIsExplained SingleModified` | 1.7 M |
| LockService | 2 calls, 1 of them incomplete, 2 attempts, 2 faults | `TypeOK AnswersAreOwn PendingIsOpen WaitersAreUnapplied OnlyRaisingStops AskedIsAnswered` | 351 k |
| FailureDetector | the 3 lock nodes of docker-compose.yml, 4 answers of one, none of the other, the times of the code, ticks of 250 ms | `TypeOK SuspectsAreSilent DeadIsReported` | 0.4 M |
| Ring | every ring of up to 4 points with 3 hashes and 3 peers, 4 keys, factors 0, 1, 2, 3, 5 | `TypeOK OwnersAreFirst EveryTurnCounts` | 225 k |

One more configuration passes and is kept beside the runs: `CacheLru` (1 node, 2 keys,
capacity 1; 88 k states) checks `LruBounded`, the only property about eviction.

Why the bounds are enough to be interesting. Lock table: three clients make a shared
batch behind an exclusive holder and an exclusive request behind it, two resources
make a circular wait. Raft: three nodes are the deployed cluster; two terms let an
old leader or candidate meet a newer one; the second command overlaps the first or
follows it. One fault suffices for a late request, a lost reply or a restart; with
two faults and two attempts a request is repeated, delivered twice, or given up.
Queue: one message meets a consumer, the worker, two acks and a failure at once; two
owners make a publish, a consume and an ack with a second half, two faults a retry
that fails again, or an ack that dies after a publish that failed. `QueueReplicas`
stops at states in which the message is tainted (`Untainted`): its properties say
nothing more of such a message (its ack has begun, or it is excepted), and it stays
tainted. `ack_any` and `ack_owner` differ from `ack` in what they read first and in
SREM and SCARD, the subject of `QueueReplicas`, which runs all three; the order of the
queue needs two messages and is the subject of `QueueDelivery`. Messages do not
otherwise interact, as every command but the pop names its message. Cache: keys
interact only by eviction, the subject of `CacheLru`, whose capacity is exceeded by
one key; elsewhere one key is enough for two writers or a writer and a reader. Lock
service: two calls share the leader and `_pending`; with two faults both can be
posted again, or one posted again and given up; the code's third attempt does what
the second does; two complete calls beside each other are covered by the proofs.
Detector: four answers make three samples, one more than the window, with long and
short intervals between them; one peer that never answers makes rounds slow. Ring:
four points are the least with which the search has a middle on both sides and the
walk meets a peer again before it has met all. Deadlock checking is off in runs that
stop at their bounds (the Raft runs) or end (the probe, the lock service, the ring,
a detector that was shut down).

What some properties mean:

* `ImplementsLocks`: every behaviour of the table is one of `Locks`, section 4.
* `ImplementsAtLeastOnce`: every behaviour of the queue is one of `AtLeastOnce`. It
  contains `NothingIsLost` and `UndisturbedAckIsFinal`: an ack that met nothing on
  its message but other acks is final. Acks that meet the worker are in section 6.
* `SearchIsLinear`: every step of the probe takes an edge not yet followed, a client
  not yet visited, a root, a call or the answer off what is left, and nothing comes
  back. Without the set `visited` the answers would be the same and the search would
  still end, but after a time exponential in the graph, with the node stopped meanwhile.
* `EveryTurnCounts`: a turn of the binary search leaves at most half of the points, a
  turn of the walk is at a point it was not at before.
* `WaitsForOldHolders`: an edge to a holder that was there when the request was
  queued is kept until the client is granted something. It is the guarantee the
  graph does give; the two it does not give are in section 6.
* `VoteOncePerTerm`, `CleanElectionSafety`: a process votes once per term, and at
  most one election per term is won by a candidate whose term did not change while
  it asked. A node that restarts forgets its vote: `votes` is then what two processes
  did, and two winners must have such a node's votes in common. `OneLeaderPerTerm`
  drops the first condition, `VotesAreKept` the second (section 6).
* `CommitNeedsQuorum` is about positions: the applied prefix is no longer than the
  logs of a majority, a node that restarted counting as having had it. That the
  commands there agree is `ReplicasAgree`.
* `ImplementsReplicatedLog`: as long as submissions do not overlap, in one term in which
  no append was sent twice and one process led, that did not restart (`Serial`), every
  step is one of `ReplicatedLog` or none. It contains `SerialReplicationAgrees`. The
  conditions are needed: `RaftOverlap` and `RaftRetry` (section 6) each drop one, and
  a second term brings logs that are never truncated.
* `SerialReachesAll`: what every node acked, every node applies in the end, although
  heartbeats are lost, late or repeated and an acked append was delivered twice.
* `WaitersAreUnapplied`: the answer "accepted, pending" means that the command was
  not applied, or raised, unless a repeated post with the same id took the waiter's
  place in `_pending`. `PendingIsOpen`: what stays in `_pending` for good are only
  commands without a majority, and those that raised.
* `OnlyRaisingStops`: whenever the loop does not run, everything committed is
  applied, or the last one it went past raised. Commit indexes that go back, and
  loops run in one handler for the commands of others, leave nothing behind.
* `CopiesStayWhole`: a copy at an owner has its payload, and the owner is in the
  index the next ack reads, as long as no ack met a publish or consume call or the worker
  on the message; acks may overlap and die.
* `StaleIsExplained`: a stale copy has one of four causes; `ReadsSeeLastWrite` says
  there is none once all is quiet, which fails.
* `SuspectsAreSilent`: nobody is suspected before a silence of MinInterval + 5.612
  MinStd, which is 761 ms with the code's parameters.
* `OwnersAreFirst`: the answer of `owners()`, against its definition by points
  clockwise; not by another search.

Liveness. `QueuesDrain` needs holders that release. `SerialReachesAll` needs a
leader that keeps running its heartbeat loop (an asyncio task nothing else stops).
`PublishedIsDelivered` needs consumers that keep consuming, a worker that keeps
scanning (an endless loop that catches every exception) and time that passes.
`AskedIsAnswered` needs the 2 s timeout of the handlers, as a command without a
majority may never be applied; it does not need that replication succeeds.
`DeadIsReported` needs that time passes, that every probe ends by its timeout
(`aiohttp` enforces it) and that the loop goes on; not that any peer answers.
That the probe and `owners()` end needs no fairness but that a computation goes on: at
every state before the end the guards of some action hold (a list is empty or not, a
loop's condition is true or not), and `SearchIsLinear` and `EveryTurnCounts` bound the
steps.

## 6. Disagreements between the code and its documents

Each configuration below makes TLC find one property violated. Its comment quotes
the document, comment or test that says so, or says that none does and why a reader
would expect it. They are kept beside the runs, to reproduce what is said here.

| Configuration | What the code does |
|---|---|
| NoOvertaking | a shared request overtakes an exclusive one in the "FIFO queue" |
| DeadlocksAreFound, DeadlocksAreReal | the graph is a snapshot: later holders are missing, former ones stay |
| RaftTwoLeaders | a candidate becomes leader of a term it did not campaign in |
| RaftForgottenVote | a node that restarted votes a second time in a term |
| RaftNoCatchUp | a node that restarted never gets the entries it lost |
| RaftOverlap | overlapping submissions send each other's entry |
| RaftRetry | a repeated append appends twice |
| RaftAccepted | without a majority `submit` still answers True, and the entry is never applied |
| LockServiceTwice | a follower's repeated post submits its request a second time |
| LockServiceRaise | a complete request is answered 500, because the incomplete one of another client raised in its handler's loop |
| QueueRedelivery | a message in flight without a deadline is never requeued |
| QueueAck, QueueAckOwner | a message is delivered after its ack |
| CacheStaleFill, CacheTwoWriters | a stale value stays in a cache |
| CacheTtl | a value outlives its TTL |
| DetectorSlowRound | a peer that answered in a round is reported down at its end, since another peer's probe timed out |
| DetectorNeverSeen | a dead peer that never answered three times is never reported |

Smaller ones, found while modelling, that need no model checker:

* `docs/deployment_guide.md:27` names the setting `QUEUE_REPLICATION_FACTOR`;
  `config.py:18` reads `QUEUE_REPLICA_FACTOR`, so the documented one has no effect.
* A peer is told from the node itself by its port as a substring of the URL
  (`base_node.py:86-87`, `lock_manager.py:200`): with equal ports on different
  hosts, or 8080 and 80801, peers are skipped, and Raft counts its majority of fewer.
* `queue_node.py:28` adds the node's own URL to the ring as it is spelled there: a
  node that others spell differently is two members of the ring.
* `failure_detector.py:182-187`: the comment says that with many samples the weight
  tends to its base, 0.2; `min(0.2, 0.5 / n)` leaves it for 0.

## 7. Proofs

Every theorem holds for all values of the constants under the assumptions named in
the modules (sizes are natural numbers, a majority is one of a finite set of nodes);
no fact is left unproved. `PROJECT.json` lists them with the properties they state.

`LockTableProofs` proves, for every set of clients and resources and every number
of requests, the invariants and the action property that the run `LockTable`
checks, and that a token in force names one grant. The safety properties are not
inductive alone. `LockInv` adds

* `TokensIssued`: a token in force was issued before (else a new one could clash);
* `ModeIsAsked`: the mode of a resource is what each holder asked for, and there is
  none without holders (else a grant could change the mode under a holder);
* `ExclusiveIsAlone`: an exclusive resource has one holder;

and has one lemma per action. `ReleaseAndGrant` is first reduced to `Serve(r, k)`,
the effect of serving the first `k` requests. `HeadIsBlocked` is kept because an
immediate grant past a queue leaves the mode shared, and because a batch stops at
the first request it excludes. `GraphInv` adds `SinceIsPast` (a queued request is
older than any grant to come) for the two properties of the wait-for graph.

It also proves from `LockInv` that the table implements `Locks`: initial
states map to initial states, and each action to the step of `Locks` of the same
name or to a stutter. `ModeIsAsked` turns the one mode of a resource into the modes
of its grants, `TokensUnique` makes a release the end of exactly one of them, and
`HeadIsBlocked` says that a release without a hand-over leaves no line behind.

`DeadlockProbeProofs` proves that the search is right for every finite set of clients
(the keys of a dict) and every graph: an answer True means a cycle (`ProbeIsSound`), an
answer False that there is none (`ProbeIsComplete`). The invariant `ProbeInv` says
that the stack is a path of the graph without repetitions, that the finished
clients (visited and no longer on the stack) have only finished successors, that no
set of finished clients is a knot (each with a successor in the set), and that a
successor already seen is finished or the next on the stack. From the same invariant
`ProbeIsLinear` shows that what is left to do, a natural number, falls with every
step (`OnlyFollowed`: a client that is visited brings back no edge that was followed);
with the fairness of one uninterrupted computation this is that the probe ends, which
TLC checks on three clients.

`RaftProofs` proves all the safety properties of the Raft runs with four invariants,
each preserved by every action:

* `TypeInv`: the types, and that `next_index` and the index of a submission in
  progress lie within the log (`IndexesInLog`), for every read `self.log[i - 1]`;
* `ElectionInv`: a vote of this process in the present term is `votedFor`
  (`VotesNow`); as long as a candidate's term is the one it began with, the votes it
  counted were cast in that term (`VotesCounted`), as its requests on the way carry
  no other (`VotesAwaited`); who won has a majority of them (`Elected`). Two majorities share a voter, who voted once or
  restarted;
* `CommitInv`: what is committed or acked, or will be by a message on its way, lies
  within the logs that hold it (`CommitsHeld`, `AcksHeld`, `AppendsAwaited`), as logs
  only grow but for restarts; so a counted majority holds the index.
* `LogInv`, about serial behaviours: as there is one term, a candidate's is that of
  its round (`OnlyFirstTerm`), so who leads or took a command has won (`LeadersWon`);
  the winner's log is the list of the commands in the order of their submission
  (`PositionsKept`), and every log is a prefix of it (`LogsFollow`). That survives an
  append because the request is for an entry its receiver has not, and is the only
  one for it (`AppendsFit`), as a submission asks each peer once and ends before the
  next begins (`AsksOnce`). A history that is no longer serial stays so
  (`SerialBefore`).

`RaftSerialReplicationAgrees` is `LogsFollow`, read at what is applied. From `LogInv`
and `CommitInv` together `RaftImplementsReplicatedLog` shows that every step that leaves
a history serial is one of `ReplicatedLog` or none, so that `SerialSpec` implements it
(`RaftSerialIsReplicatedLog`): `PositionsKept` makes a submission the next place in
the order, `LogsFollow` makes an append a longer prefix of it, and
`CommitsHeld` gives the quorum for what is applied.

`LockServiceProofs` proves the five invariants of the run `LockService` for any
number of calls, attempts and timeouts and any set of incomplete requests.
`ServiceInv` adds

* `PendingIsNamed`: a handler stands in `_pending` under the id of its own command
  (else applying a command could give its result to another's handler);
* `WaiterIsPending`: who waits without a result is in `_pending` or was replaced;
* `LogIsUnique`, `LogIsHandled`: a post has one entry, made when it was handled;
* `AttemptsCount`, `UnsentIsUnknown`: a post not yet made is unknown to the leader,
  so that a call can still bring its `req_id`;
* `LoopInv`: while the loop runs there is something left to apply.

Steps that leave log, `_pending` and results alone are one lemma, `QuietInv`;
`Handle` and `Apply` have their own.

`ShardQueueProofs` proves the invariants of the queue runs and `UndisturbedAckIsFinal`,
and that the queue implements `AtLeastOnce`, for any number of owners, messages,
consumers, retries and faults, with four invariants, each preserved by every action:

* `TypeInv`: the types, and the shape that the place of a call in the code gives it
  (a consumer past RPOP has a message, an ack between two commands an owner);
* `DurableInv`, about messages nobody began to ack: publish has written payload,
  owner index and list in this order (`Written`, `StoredWhole`); nothing is at an
  owner that was not pushed there (`KnownCopies`, `KnownTakes`, `KnownRequeues`);
  the requeue worker leaves a message in the visibility index until it has pushed
  it (`SafeRequeues`), which is why a crash between two of its commands loses nothing;
* `FinalInv`, about messages whose acks met no other call (not in `tainted`): what each
  ack has removed so far (`Progress`), which the removals of another that overlaps with
  it only add to (`ProgressKept`), that a copy, or a call that works on one, has
  payload and owner (`WholeFor`), and that an answered ack leaves none behind
  (`AckedAlone`); a message is published once (`PublishedOnce`), so nothing brings it back;
* `ReadsAreStored`: what a consumer has read was pushed to some owner.

For the refinement, each Redis command is one of five kinds (`CopyMoves`, `OneCopy`,
`NoCopy` and the lemmas after them): it leaves the copies of every owner alone, adds
one, takes one off, gives messages to a client, or begins or ends an ack.
`DurableInv` says that a copy is taken off only after an ack began, or while another
place of the owner still has it; `FinalInv` that none is added after a final ack, as
no call comes upon the message any more (`FinalStays`).

`Without`, what LREM leaves of a list, is defined by the positions that are kept; the
lemmas at the head of the module show from it that exactly the message is taken out.

`RingProofs` proves that `owners()` never leaves its list and answers with the first
distinct peers, for rings of any size, any hash and any factor: the search keeps the
points before `lo` below the hash and those after `hi` not below it, and the walk has
collected exactly the peers of the points it passed. The same invariant makes the
turns left a natural number that falls with every turn (`RingEveryTurnCounts`).

`FailureDetectorProofs` proves that suspicion needs silence for any parameters and
any history of answers: whatever it is made of, a mean is at least `MinInterval` and
a deviation counts as at least `MinStd`, and the age of the statistics is the silence.

`CacheProofs` proves `TypeOK`, `LruBounded`, `StaleIsExplained` and `SingleModified`
for any nodes, keys, requests, capacity, writes and failures. `CacheInv` says of
every copy, also one that a request is about to put, which message will remove it if
it is stale (`EntriesExplained`, `CallsExplained`): a writer's own message does not
go to its own node, so for the copies there it counts only until its put, and the
copy of a request is explained by others than itself. `OwnersPart` names, for every
two copies in M, the message from one to the other. That a read takes the last write
from Redis, or nothing, is `StoreIsLatest`. `LruBounded` makes `Without`, which takes
a key out of a list, remove all there is of it.

Only model-checked: all liveness properties (fairness and
ENABLED are out of the prover's reach), and the fact that the recursive Python
function of the probe is the explicit stack (a translation).

## 8. Limits

Not modelled: a change of the leader while lock requests are handled, and a command
that raises at a follower (its append is answered 500 and repeated, and appended
again, as `RaftRetry` shows of other repetitions); the read-only routes
(`/lock/state`, queue and cache statistics, `snapshot` of the detector); HTTP
routing, health, metrics, settings, deployment, benchmarks. Redis is assumed to
execute one command at a time and to keep its data. The queue is one topic and key;
a key does not change owners, as the ring is constant. The construction of the ring
(hashing, sorting) is an assumption on its points. Clocks of different nodes appear
only in the queue, where deadlines are not times.

## 9. Plan

Done: all components that keep state of their own, with their failures; `Locks`,
`ReplicatedLog` and `AtLeastOnce` as the abstract specifications of the lock table, of
Raft and of the queue; the proofs of section 7.

Left, in this order:

1. `LockService` with more than one leader in turn: a handler of an old leader waits
   while a new one commits. With it, commands that raise at followers.
2. An abstract cache (a register with stale readers) that `CacheCoherence` implements.

## 10. How to run

In this directory, with the TLA+ tools and the community modules on the path:
`tlc -config LockTable.cfg LockTableMC` (module and cfg of each run are in
`PROJECT.json`; the configurations of section 6 use the same module as the run of
their component), and `tlapm RaftProofs.tla`, likewise for the other modules of
section 7.
