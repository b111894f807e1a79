----------------------------- MODULE LockTable -----------------------------
(***************************************************************************)
(* The lock table of src/src/nodes/lock_manager.py (class LockTable): the  *)
(* state machine every lock node applies its committed commands to.  One   *)
(* action is one call of LockTable.apply; apply never awaits, so a call is *)
(* atomic.  An entry missing from the Python dict and an entry with no     *)
(* holders and no queue behave alike and are the same value here, and so   *)
(* are a client missing from `waits' and a client that waits for nobody.   *)
(***************************************************************************)
EXTENDS Integers, Sequences, WaitForGraph

CONSTANTS Resources,   \* the resource names that appear in requests
          MaxRequests  \* bound: number of acquire commands applied

ASSUME MaxRequestsAssumption == MaxRequests \in Nat

VARIABLES mode,     \* ent["mode"]: of each resource
          holders,  \* ent["holders"]: the (client, token) pairs
          queue,    \* ent["queue"]: FIFO of requests not granted yet
          waits,    \* the wait-for graph
          clock,    \* _clock: tokens t1, t2, ... are the numbers 1..clock
          asked,    \* history: the mode asked for by the owner of each token
          served,   \* history: clock when a client was last granted from a queue
          issued    \* number of acquire commands so far, for MaxRequests

vars == <<mode, holders, queue, waits, clock, asked, served, issued>>

Modes   == {"shared", "exclusive"}
Holder  == [client : Clients, token : Nat \ {0}]
\* `since' is history: the clock when the request entered the queue.
Request == [client : Clients, mode : Modes, since : Nat]

HoldersOf(r) == {h.client : h \in holders[r]}

Init ==
  /\ mode    = [r \in Resources |-> "none"]
  /\ holders = [r \in Resources |-> {}]
  /\ queue   = [r \in Resources |-> <<>>]
  /\ waits   = [c \in Clients |-> {}]
  /\ clock   = 0
  /\ asked   = <<>>
  /\ served  = [c \in Clients |-> 0]
  /\ issued  = 0

-----------------------------------------------------------------------------
(* op = "acquire" *)

\* Mutated form of Grantable: any request joins a shared resource.
GrantableToAnyMode(r, m) == holders[r] = {} \/ mode[r] = "shared"

Grantable(r, m) == holders[r] = {} \/ (mode[r] = "shared" /\ m = "shared")

\* Mutated form of NewToken: the token counter is read but never stepped past.
ReusedToken == IF clock = 0 THEN 1 ELSE clock

NewToken == clock + 1

AcquireGranted(r, m, c) ==
  /\ issued < MaxRequests
  /\ Grantable(r, m)
  /\ mode'    = [mode EXCEPT ![r] = m]
  /\ holders' = [holders EXCEPT ![r] = @ \cup {[client |-> c, token |-> NewToken]}]
  /\ clock'   = NewToken
  /\ asked'   = Append(asked, m)
  /\ issued'  = issued + 1
  /\ UNCHANGED <<queue, waits, served>>

\* Mutated form of NewEdges: the edges replace nothing and add nobody.
NoNewEdges(r) == {}

\* Mutated form of NewEdges: the holder pairs, not their clients.
EdgesToPairs(r) == holders[r]

NewEdges(r) == HoldersOf(r)

AcquireQueued(r, m, c) ==
  /\ issued < MaxRequests
  /\ ~Grantable(r, m)
  /\ queue'  = [queue EXCEPT ![r] = Append(@, [client |-> c, mode |-> m, since |-> clock])]
  /\ waits'  = [waits EXCEPT ![c] = @ \cup NewEdges(r)]
  /\ issued' = issued + 1
  /\ UNCHANGED <<mode, holders, clock, asked, served>>

-----------------------------------------------------------------------------
(* op = "release" *)

Left(r, tok) == {h \in holders[r] : h.token # tok}

\* Mutated form of Serves: only an exclusive holder's release looks at the queue.
ServesAfterExclusive(r, tok) ==
  Left(r, tok) = {} /\ queue[r] # <<>> /\ mode[r] = "exclusive"

\* The release leaves nobody holding the resource and somebody queued for it.
Serves(r, tok) == Left(r, tok) = {} /\ queue[r] # <<>>

ReleaseOnly(r, tok) ==
  /\ ~Serves(r, tok)
  /\ holders' = [holders EXCEPT ![r] = Left(r, tok)]
  /\ mode'    = [mode EXCEPT ![r] = IF Left(r, tok) = {} THEN "none" ELSE @]
  /\ UNCHANGED <<queue, waits, clock, asked, served, issued>>

\* Mutated form of IsBatch: only the head is granted, shared or not.
IsHeadOnly(q, k) == k = 1

\* The requests granted together: all the shared ones at the head, or the
\* single exclusive head.
IsBatch(q, k) ==
  IF q[1].mode = "shared"
  THEN /\ \A i \in 1..k : q[i].mode = "shared"
       /\ k < Len(q) => q[k + 1].mode = "exclusive"
  ELSE k = 1

Batch(q, k) == {q[i].client : i \in 1..k}

\* Mutated form of Rest: pop() for pop(0).
RestFromTheBack(q, k) == SubSeq(q, 1, Len(q) - k)

\* The queue after its first k requests were popped.
Rest(q, k) == SubSeq(q, k + 1, Len(q))

\* Mutated form of Unblocked: the edges of the granted clients stay.
StillBlocked(batch) == waits

\* waits.pop(client) for every granted client.
Unblocked(batch) == [c \in Clients |-> IF c \in batch THEN {} ELSE waits[c]]

ReleaseAndGrant(r, tok) ==
  /\ Serves(r, tok)
  /\ \E k \in 1..Len(queue[r]) :
       LET q == queue[r] IN
       /\ IsBatch(q, k)
       /\ mode'    = [mode EXCEPT ![r] = q[1].mode]
       /\ holders' = [holders EXCEPT ![r] =
                        {[client |-> q[i].client, token |-> clock + i] : i \in 1..k}]
       /\ queue'   = [queue EXCEPT ![r] = Rest(q, k)]
       /\ waits'   = Unblocked(Batch(q, k))
       /\ clock'   = clock + k
       /\ asked'   = asked \o [i \in 1..k |-> q[i].mode]
       /\ served'  = [c \in Clients |-> IF c \in Batch(q, k) THEN clock + k ELSE served[c]]
  /\ UNCHANGED issued

Release(r, tok) == ReleaseOnly(r, tok) \/ ReleaseAndGrant(r, tok)

-----------------------------------------------------------------------------
\* The token of a release is any text the client sends: one it was given, one
\* of another resource, one released before, or one never issued (clock + 1).
Next ==
  \E r \in Resources :
    \/ \E m \in Modes, c \in Clients : AcquireGranted(r, m, c) \/ AcquireQueued(r, m, c)
    \/ \E tok \in 1..(clock + 1) : ReleaseOnly(r, tok) \/ ReleaseAndGrant(r, tok)

Spec == Init /\ [][Next]_vars

\* Every holder releases in the end: the one thing the table needs from clients.
HolderReleases(r, tok) == (\E h \in holders[r] : h.token = tok) /\ Release(r, tok)
FairSpec == Spec /\ \A r \in Resources, tok \in 1..MaxRequests : WF_vars(HolderReleases(r, tok))

-----------------------------------------------------------------------------
(* op = "deadlock_probe": a search of the recorded graph for a cycle; that  *)
(* the depth-first search computes exactly this is shown in DeadlockProbe.  *)

\* deadlock_probe's answer.
ProbeAnswer == Cyclic(waits)

Queued(c, r) == \E i \in 1..Len(queue[r]) : queue[r][i].client = c

\* The graph the probe is meant to search: who is queued behind which holder now.
BlockedBy == [c \in Clients |-> UNION {HoldersOf(r) : r \in {x \in Resources : Queued(c, x)}}]

-----------------------------------------------------------------------------
(* Properties *)

TypeOK ==
  /\ mode \in [Resources -> Modes \cup {"none"}]
  /\ holders \in [Resources -> SUBSET Holder]
  /\ queue \in [Resources -> Seq(Request)]
  /\ waits \in Graphs
  /\ clock \in Nat
  /\ asked \in Seq(Modes)
  /\ served \in [Clients -> Nat]
  /\ issued \in 0..MaxRequests

\* A resource with two holders is held in shared mode by clients that each asked
\* for it shared: whichever of the three grant paths (free, compatible, batch)
\* let each of them in, and whatever was released in between.
MutualExclusion ==
  \A r \in Resources : \A h, g \in holders[r] :
    h # g => asked[h.token] = "shared" /\ asked[g.token] = "shared"

\* No lost wake-up: a queue is never left waiting on a resource that could be
\* granted to its head.  Only a release serves the queue, so a release that
\* grants too little (or a grant that forgets the queue) blocks it forever.
HeadIsBlocked ==
  \A r \in Resources :
    queue[r] # <<>> => holders[r] # {} /\ ~Grantable(r, queue[r][1].mode)

\* A token names one grant in the whole table, so that releasing with it never
\* releases somebody else: the tokens of a batch, and of different resources, differ.
TokensUnique ==
  \A r, s \in Resources : \A h \in holders[r], g \in holders[s] :
    h.token = g.token => r = s /\ h = g

\* The wait-for graph has no edge out of a client that waits for nothing, however
\* its requests on several resources were queued and granted.
WaitersAreQueued ==
  \A c \in Clients : waits[c] # {} => \E r \in Resources : Queued(c, r)

\* A client queued since its last grant waits, in the graph, for every holder
\* that has kept the resource since then: releases and grants elsewhere, of any
\* client, do not lose the edge.
WaitsForOldHolders ==
  \A r \in Resources : \A i \in 1..Len(queue[r]) : \A h \in holders[r] :
    LET e == queue[r][i] IN
    h.token <= e.since /\ served[e.client] <= e.since => h.client \in waits[e.client]

\* The table implements Locks, its specification: a resource is granted only with
\* what fits, by the next token; a release ends one grant or none, never somebody
\* else's; and the last one hands the resource to as many as can share it from
\* the front of the line, and to nobody behind them.
GrantsOf(r) ==
  {[client |-> h.client, mode |-> asked[h.token], token |-> h.token] : h \in holders[r]}
LineOf(r) ==
  [i \in 1..Len(queue[r]) |-> [client |-> queue[r][i].client, mode |-> queue[r][i].mode]]
L == INSTANCE Locks WITH
  grants <- [r \in Resources |-> GrantsOf(r)],
  line <- [r \in Resources |-> LineOf(r)],
  last <- clock
ImplementsLocks == L!Spec

\* When the holders keep releasing and no new requests come (MaxRequests have),
\* every queue is emptied: nobody is left waiting by a missed grant.
QueuesDrain == \A r \in Resources : []<>(queue[r] = <<>>)

\* "FIFO queue": nobody is granted a resource while an earlier request is queued
\* for it.  (An action property about the whole table, not about its queue.)
NoOvertaking ==
  [][\A r \in Resources :
       queue[r] # <<>> /\ queue'[r] = queue[r] => holders'[r] \subseteq holders[r]]_vars

\* The edges between different clients: a client may queue behind its own
\* holding, and the deadlocks below are those of two clients or more.
Between(e) == [c \in Clients |-> e[c] \ {c}]

\* "waits: wait-for graph; client -> set(client_yang_ditunggu)" (the clients it
\* waits for): clients queued behind each other's holdings are a cycle of the graph.
DeadlocksAreFound == Cyclic(Between(BlockedBy)) => ProbeAnswer

\* The converse: a cycle of the graph is one of clients queued behind holders.
DeadlocksAreReal == Cyclic(Between(waits)) => Cyclic(BlockedBy)

=============================================================================
