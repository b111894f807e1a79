-------------------------------- MODULE Raft --------------------------------
(***************************************************************************)
(* The replication protocol of src/src/consensus/raft.py (class RaftNode), *)
(* as it is written: it departs from the published Raft in many places.    *)
(*                                                                         *)
(* A node runs on one asyncio event loop.  Its RPC handlers never suspend, *)
(* so each is one atomic action; its own activities (the election loop,    *)
(* the heartbeat loop, one submit() per command) are coroutines that post  *)
(* one request at a time to the peers, in the order of CLUSTER_NODES, and  *)
(* suspend in between.  An action is what a coroutine does from one        *)
(* suspension to the next: every request is built from the node's state at *)
(* the moment it is sent, which other coroutines and handlers may have     *)
(* changed since the activity began.                                       *)
(*                                                                         *)
(* post_json (message_passing.py) tries a request up to 3 times.  A try    *)
(* that timed out may still be delivered later, and one that was handled   *)
(* may have lost its reply, so handlers can run twice for one call.  A     *)
(* reply only counts a vote or an ack in the calling coroutine; it is      *)
(* recorded in the step of the handler.                                    *)
(***************************************************************************)
EXTENDS Integers, Sequences, FiniteSets

CONSTANTS N,            \* number of nodes: CLUSTER_NODES lists nodes 1..N
          Cmds,         \* commands clients submit, each once
          MaxTerm,      \* bound: no election starts a term above it
          MaxAttempts,  \* post_json's stop_after_attempt
          MaxFaults,    \* bound: requests or replies that time out, and restarts
          Restarting    \* bound: the nodes that may restart, each once

ASSUME NAssumption == N \in Nat /\ N >= 2
ASSUME BoundsAssumption ==
  MaxTerm \in Nat /\ MaxAttempts \in Nat \ {0} /\ MaxFaults \in Nat

VARIABLES currentTerm, votedFor, role, log, commitIndex, lastApplied,
          nextIndex,  \* of a leader, the same number for every peer
          active,     \* the election rounds and submissions in progress
          todo,       \* of each coroutine, the peers it has still to ask
          acks,       \* of each coroutine, who granted its vote or append
          at,         \* node and log index of each submitted command
          net,        \* requests sent and not handled
          waiting,    \* requests whose reply a coroutine is waiting for
          faults,     \* timeouts and restarts so far, for MaxFaults
          began,      \* history: the term in which a node began its last election
          votes,      \* history: <<term, voter, candidate>> of every vote given
          won,        \* history: <<term, node>> won with the term unchanged
          overlapped, \* history: two submissions were in progress at once
          repeated,   \* history: a request with entries was sent again
          restarted   \* history: the nodes whose process was replaced

node == <<currentTerm, votedFor, role, log, commitIndex, lastApplied, nextIndex>>
calls == <<active, todo, acks, at>>
wire == <<net, waiting, faults>>
history == <<began, votes, won, overlapped, repeated>>
vars == <<node, calls, wire, history, restarted>>

Server == 1..N
None == 0
Peers(n) == Server \ {n}

Election(n) == <<"election", n>>
Heartbeat(n) == <<"heartbeat", n>>
Submission(c) == <<"submit", c>>
Coroutine == {Election(n) : n \in Server} \cup {Heartbeat(n) : n \in Server}
               \cup {Submission(c) : c \in Cmds}

Entry == [term : Nat, cmd : Cmds]
\* Both RPCs: `index' and `logTerm' are the last entry of a candidate's log or
\* the entry before those to append; `entries' and `commit' are for appends.
Message == [by : Coroutine, src : Server, dst : Server, term : Nat, index : Nat,
            logTerm : Nat, entries : Seq(Entry), commit : Nat, attempt : Nat]

TermAt(lg, i) == IF i = 0 THEN 0 ELSE lg[i].term
LastTerm(lg) == TermAt(lg, Len(lg))

\* Mutated form of Enough: half of the nodes are enough.
EnoughIfHalf(S) == Cardinality(S) >= N \div 2

\* votes > (len(self.peers)+1)//2
Enough(S) == Cardinality(S) > N \div 2

Init ==
  /\ currentTerm = [n \in Server |-> 0]
  /\ votedFor = [n \in Server |-> None]
  /\ role = [n \in Server |-> "follower"]
  /\ log = [n \in Server |-> <<>>]
  /\ commitIndex = [n \in Server |-> 0]
  /\ lastApplied = [n \in Server |-> 0]
  /\ nextIndex = [n \in Server |-> 1]
  /\ active = {}
  /\ todo = [k \in Coroutine |-> {}]
  /\ acks = [k \in Coroutine |-> {}]
  /\ at = [c \in Cmds |-> [node |-> None, index |-> 0]]
  /\ net = {} /\ waiting = {} /\ faults = 0
  /\ began = [n \in Server |-> 0]
  /\ votes = {} /\ won = {} /\ overlapped = FALSE /\ repeated = FALSE
  /\ restarted = {}

-----------------------------------------------------------------------------
(* A coroutine's loop over the peers *)

Suspended(k) == \E m \in waiting : m.by = k
IsNext(p, k) == p \in todo[k] /\ \A q \in todo[k] : p <= q
IsFirst(p, n) == p \in Peers(n) /\ \A q \in Peers(n) : p <= q

Send(m) ==
  /\ net' = net \cup {m}
  /\ waiting' = waiting \cup {m}
  /\ UNCHANGED faults

\* The loop starts, and its first request is sent before the first suspension.
Begin(k, n, p, m) ==
  /\ IsFirst(p, n)
  /\ todo' = [todo EXCEPT ![k] = Peers(n) \ {p}]
  /\ acks' = [acks EXCEPT ![k] = {n}]
  /\ Send(m)

\* The reply (or the last timeout) of one peer is in; the next one is asked.
Continue(k, p, m) ==
  /\ ~Suspended(k) /\ IsNext(p, k)
  /\ todo' = [todo EXCEPT ![k] = @ \ {p}]
  /\ Send(m)
  /\ UNCHANGED <<active, acks, at>>

Done(k) == k \in active /\ ~Suspended(k) /\ todo[k] = {}

-----------------------------------------------------------------------------
(* _election_loop *)

VoteRequest(n, p, t) ==
  [by |-> Election(n), src |-> n, dst |-> p, term |-> t, index |-> Len(log[n]),
   logTerm |-> LastTerm(log[n]), entries |-> <<>>, commit |-> 0, attempt |-> 1]

\* The deadline is random and a heartbeat can always be late: a timeout may come
\* at any time, unless the loop is still asking for votes.
StartElection(n) ==
  LET t == currentTerm[n] + 1 IN
  /\ role[n] # "leader" /\ Election(n) \notin active /\ t <= MaxTerm
  /\ role' = [role EXCEPT ![n] = "candidate"]
  /\ currentTerm' = [currentTerm EXCEPT ![n] = t]
  /\ votedFor' = [votedFor EXCEPT ![n] = n]
  /\ active' = active \cup {Election(n)}
  /\ \E p \in Server : Begin(Election(n), n, p, VoteRequest(n, p, t))
  /\ began' = [began EXCEPT ![n] = t]
  /\ votes' = votes \cup {<<t, n, n>>}
  /\ UNCHANGED <<log, commitIndex, lastApplied, nextIndex, at, won, overlapped, repeated,
                 restarted>>

\* The term is read again for every request, whatever became of the election.
SendVoteRequest(n) ==
  /\ Election(n) \in active
  /\ \E p \in Server : Continue(Election(n), p, VoteRequest(n, p, currentTerm[n]))
  /\ UNCHANGED <<node, history, restarted>>

\* Mutated form of FirstNextIndex: an index counted from 0.
FirstNextIndexFromZero(n) == Len(log[n])

FirstNextIndex(n) == Len(log[n]) + 1

\* Neither the role nor the term is checked: votes alone make a leader.
FinishElection(n) ==
  /\ Done(Election(n))
  /\ active' = active \ {Election(n)}
  /\ IF Enough(acks[Election(n)])
     THEN /\ role' = [role EXCEPT ![n] = "leader"]
          /\ nextIndex' = [nextIndex EXCEPT ![n] = FirstNextIndex(n)]
          /\ won' = IF currentTerm[n] = began[n] THEN won \cup {<<began[n], n>>} ELSE won
          \* self._hb_task.cancel()
          /\ todo' = [todo EXCEPT ![Heartbeat(n)] = {}]
          /\ waiting' = {m \in waiting : m.by # Heartbeat(n)}
     ELSE UNCHANGED <<role, nextIndex, won, todo, waiting>>
  /\ UNCHANGED <<currentTerm, votedFor, log, commitIndex, lastApplied,
                 acks, at, net, faults, began, votes, overlapped, repeated, restarted>>

-----------------------------------------------------------------------------
(* _heartbeat_loop, _broadcast_append_entries *)

\* Mutated form of BeatRequest: a heartbeat carries no commit index.
BeatWithoutCommit(n, p) ==
  [by |-> Heartbeat(n), src |-> n, dst |-> p, term |-> currentTerm[n],
   index |-> nextIndex[n] - 1, logTerm |-> TermAt(log[n], nextIndex[n] - 1),
   entries |-> <<>>, commit |-> 0, attempt |-> 1]

BeatRequest(n, p) ==
  [by |-> Heartbeat(n), src |-> n, dst |-> p, term |-> currentTerm[n],
   index |-> nextIndex[n] - 1, logTerm |-> TermAt(log[n], nextIndex[n] - 1),
   entries |-> <<>>, commit |-> commitIndex[n], attempt |-> 1]

\* The role is checked once per round.
StartRound(n) ==
  /\ role[n] = "leader"
  /\ ~Suspended(Heartbeat(n)) /\ todo[Heartbeat(n)] = {}
  /\ \E p \in Server : Begin(Heartbeat(n), n, p, BeatRequest(n, p))
  /\ UNCHANGED <<node, active, at, history, restarted>>

SendHeartbeat(n) ==
  /\ \E p \in Server : Continue(Heartbeat(n), p, BeatRequest(n, p))
  /\ UNCHANGED <<node, history, restarted>>

-----------------------------------------------------------------------------
(* submit, _replicate *)

\* The entry after `index - 1' is the LAST entry of the log, whatever `index' is,
\* with the term of now (raft.py:130).
AppendRequest(c, n, i, p, lg) ==
  [by |-> Submission(c), src |-> n, dst |-> p, term |-> currentTerm[n],
   index |-> i - 1, logTerm |-> TermAt(lg, i - 1),
   entries |-> <<[term |-> currentTerm[n], cmd |-> lg[Len(lg)].cmd]>>,
   commit |-> commitIndex[n], attempt |-> 1]

Submit(n, c) ==
  LET lg == Append(log[n], [term |-> currentTerm[n], cmd |-> c]) IN
  /\ role[n] = "leader" /\ at[c].node = None
  /\ log' = [log EXCEPT ![n] = lg]
  /\ at' = [at EXCEPT ![c] = [node |-> n, index |-> Len(lg)]]
  /\ active' = active \cup {Submission(c)}
  /\ \E p \in Server : Begin(Submission(c), n, p, AppendRequest(c, n, Len(lg), p, lg))
  /\ overlapped' = (overlapped \/ \E d \in Cmds : Submission(d) \in active)
  /\ UNCHANGED <<currentTerm, votedFor, role, commitIndex, lastApplied, nextIndex,
                 began, votes, won, repeated, restarted>>

SendAppend(c) ==
  LET n == at[c].node IN
  /\ Submission(c) \in active
  /\ \E p \in Server :
       Continue(Submission(c), p, AppendRequest(c, n, at[c].index, p, log[n]))
  /\ UNCHANGED <<node, history, restarted>>

\* _apply_commits: every entry up to the commit index that was not applied.
Applied(n, commit) == IF lastApplied[n] < commit THEN commit ELSE lastApplied[n]

\* The commit index is set to this command's index, be it smaller than before,
\* and whether or not the node still leads; submit() returns True in any case.
FinishSubmit(c) ==
  LET n == at[c].node
      i == at[c].index IN
  /\ Done(Submission(c))
  /\ active' = active \ {Submission(c)}
  /\ IF Enough(acks[Submission(c)])
     THEN /\ commitIndex' = [commitIndex EXCEPT ![n] = i]
          /\ lastApplied' = [lastApplied EXCEPT ![n] = Applied(n, i)]
     ELSE UNCHANGED <<commitIndex, lastApplied>>
  /\ UNCHANGED <<currentTerm, votedFor, role, log, nextIndex, todo, acks, at, wire,
                 history, restarted>>

-----------------------------------------------------------------------------
(* The handlers.  `answered': the reply reached the caller in time. *)

\* The handler of m ran, with the result ok.
Reply(m, ok, answered) ==
  /\ net' = net \ {m}
  /\ IF m \notin waiting
     THEN ~answered /\ UNCHANGED <<waiting, acks, faults>>  \* a late delivery
     ELSE IF answered
     THEN /\ waiting' = waiting \ {m}
          /\ acks' = IF ok THEN [acks EXCEPT ![m.by] = @ \cup {m.dst}] ELSE acks
          /\ UNCHANGED faults
     ELSE faults < MaxFaults /\ faults' = faults + 1 /\ UNCHANGED <<waiting, acks>>
  /\ UNCHANGED <<active, todo, at>>

\* Mutated form of Free: the vote already given is not looked at.
FreeToVoteAgain(p, m) == TRUE

\* voted_for in (None, candidate_id), once voted_for was reset by a higher term.
Free(p, m) == m.term > currentTerm[p] \/ votedFor[p] \in {None, m.src}

UpToDate(p, m) ==
  \/ m.logTerm > LastTerm(log[p])
  \/ m.logTerm = LastTerm(log[p]) /\ m.index >= Len(log[p])

Grants(p, m) == Free(p, m) /\ UpToDate(p, m) /\ m.term >= currentTerm[p]

HandleRequestVote(m, answered) ==
  LET p == m.dst
      newer == m.term > currentTerm[p] IN
  /\ m \in net /\ m.by = Election(m.src)
  /\ currentTerm' = IF newer THEN [currentTerm EXCEPT ![p] = m.term] ELSE currentTerm
  /\ role' = IF newer THEN [role EXCEPT ![p] = "follower"] ELSE role
  /\ votedFor' = IF Grants(p, m) THEN [votedFor EXCEPT ![p] = m.src]
                 ELSE IF newer THEN [votedFor EXCEPT ![p] = None] ELSE votedFor
  /\ votes' = IF Grants(p, m) THEN votes \cup {<<m.term, p, m.src>>} ELSE votes
  /\ Reply(m, Grants(p, m), answered)
  /\ UNCHANGED <<log, commitIndex, lastApplied, nextIndex, began, won, overlapped, repeated,
                 restarted>>

\* Mutated form of Matches: only the length of the log is checked.
MatchesAnything(p, m) == TRUE

\* The log consistency check.
Matches(p, m) ==
  m.index > 0 => Len(log[p]) >= m.index /\ log[p][m.index].term = m.logTerm

\* Mutated form of FollowerCommit: the length of the log is not looked at.
FollowerCommitUnchecked(p, m) == m.commit

\* min(leader_commit, len(self.log)), after the append.
FollowerCommit(p, m) ==
  LET length == Len(log[p]) + Len(m.entries)
  IN  IF m.commit < length THEN m.commit ELSE length

\* The term is not adopted, an entry is appended behind whatever the log holds,
\* and a second delivery appends it a second time.
HandleAppendEntries(m, answered) ==
  LET p == m.dst
      ok == Matches(p, m) IN
  /\ m \in net /\ m.by # Election(m.src)
  /\ IF m.term < currentTerm[p]
     THEN Reply(m, FALSE, answered) /\ UNCHANGED node
     ELSE /\ role' = [role EXCEPT ![p] = "follower"]
          /\ log' = IF ok THEN [log EXCEPT ![p] = @ \o m.entries] ELSE log
          /\ IF ok /\ m.commit > commitIndex[p]
             THEN /\ commitIndex' = [commitIndex EXCEPT ![p] = FollowerCommit(p, m)]
                  /\ lastApplied' = [lastApplied EXCEPT ![p] =
                                       Applied(p, FollowerCommit(p, m))]
             ELSE UNCHANGED <<commitIndex, lastApplied>>
          /\ Reply(m, ok, answered)
          /\ UNCHANGED <<currentTerm, votedFor, nextIndex>>
  /\ UNCHANGED <<history, restarted>>

-----------------------------------------------------------------------------
(* post_json: timeouts and retries.  The fault was counted when a reply was *)
(* lost; a request that was not handled yet may still be, afterwards.       *)

TimedOut(m) ==
  /\ m \in waiting
  /\ IF m \in net THEN faults < MaxFaults /\ faults' = faults + 1 ELSE UNCHANGED faults

Retry(m) ==
  LET again == [m EXCEPT !.attempt = @ + 1] IN
  /\ m.attempt < MaxAttempts
  /\ TimedOut(m)
  /\ net' = net \cup {again}
  /\ waiting' = (waiting \ {m}) \cup {again}
  /\ repeated' = (repeated \/ m.entries # <<>>)
  /\ UNCHANGED <<node, calls, began, votes, won, overlapped, restarted>>

\* The last try failed: `except Exception: pass'.
GiveUp(m) ==
  /\ m.attempt = MaxAttempts
  /\ TimedOut(m)
  /\ waiting' = waiting \ {m}
  /\ UNCHANGED <<node, calls, net, history, restarted>>

-----------------------------------------------------------------------------
(* A crash.  Nothing of RaftNode is on disk: the new process starts with    *)
(* term 0, no vote and an empty log.                                        *)

\* The coroutines of a node, which end with its process.
CoroutinesOf(n) ==
  {Election(n), Heartbeat(n)} \cup {Submission(c) : c \in {d \in Cmds : at[d].node = n}}

\* What was sent to the old process fails, and its caller tries again or gives
\* up.  What the old process sent can still arrive (attempt 0 marks it).
Restart(n) ==
  /\ n \in Restarting \ restarted
  /\ faults < MaxFaults /\ faults' = faults + 1
  /\ currentTerm' = [currentTerm EXCEPT ![n] = 0]
  /\ votedFor' = [votedFor EXCEPT ![n] = None]
  /\ role' = [role EXCEPT ![n] = "follower"]
  /\ log' = [log EXCEPT ![n] = <<>>]
  /\ commitIndex' = [commitIndex EXCEPT ![n] = 0]
  /\ lastApplied' = [lastApplied EXCEPT ![n] = 0]
  /\ nextIndex' = [nextIndex EXCEPT ![n] = 1]
  /\ active' = active \ CoroutinesOf(n)
  /\ todo' = [k \in Coroutine |-> IF k \in CoroutinesOf(n) THEN {} ELSE todo[k]]
  /\ acks' = [k \in Coroutine |-> IF k \in CoroutinesOf(n) THEN {} ELSE acks[k]]
  /\ waiting' = {m \in waiting : m.src # n}
  /\ net' = {m \in net : m.src # n /\ m.dst # n}
              \cup {[m EXCEPT !.attempt = 0] : m \in {l \in net : l.src = n}}
  /\ restarted' = restarted \cup {n}
  /\ UNCHANGED <<at, history>>

-----------------------------------------------------------------------------
Next ==
  \/ \E n \in Server : \/ StartElection(n) \/ SendVoteRequest(n) \/ FinishElection(n)
                       \/ StartRound(n) \/ SendHeartbeat(n)
                       \/ \E c \in Cmds : Submit(n, c)
                       \/ Restart(n)
  \/ \E c \in Cmds : SendAppend(c) \/ FinishSubmit(c)
  \/ \E m \in net, answered \in BOOLEAN :
       HandleRequestVote(m, answered) \/ HandleAppendEntries(m, answered)
  \/ \E m \in waiting : Retry(m) \/ GiveUp(m)

Spec == Init /\ [][Next]_vars

\* The event loops run, and a request that is waited for is delivered or times
\* out.  Nothing is assumed of clients (Submit), of the random election timers,
\* and of requests nobody waits for any more.
FairSpec ==
  /\ Spec
  /\ \A n \in Server : /\ WF_vars(SendVoteRequest(n)) /\ WF_vars(FinishElection(n))
                       /\ WF_vars(StartRound(n)) /\ WF_vars(SendHeartbeat(n))
  /\ \A c \in Cmds : WF_vars(SendAppend(c)) /\ WF_vars(FinishSubmit(c))
  /\ WF_vars(\E m \in waiting :
               \/ HandleRequestVote(m, TRUE) \/ HandleAppendEntries(m, TRUE)
               \/ m \notin net /\ (Retry(m) \/ GiveUp(m)))

-----------------------------------------------------------------------------
(* Properties *)

TypeOK ==
  /\ currentTerm \in [Server -> Nat]
  /\ votedFor \in [Server -> Server \cup {None}]
  /\ role \in [Server -> {"follower", "candidate", "leader"}]
  /\ log \in [Server -> Seq(Entry)]
  /\ commitIndex \in [Server -> Nat]
  /\ lastApplied \in [Server -> Nat]
  /\ nextIndex \in [Server -> Nat \ {0}]
  /\ active \in SUBSET Coroutine
  /\ todo \in [Coroutine -> SUBSET Server]
  /\ acks \in [Coroutine -> SUBSET Server]
  /\ at \in [Cmds -> [node : Server \cup {None}, index : Nat]]
  /\ net \in SUBSET Message
  /\ waiting \in SUBSET Message
  /\ faults \in Nat
  /\ began \in [Server -> Nat]
  /\ votes \in SUBSET (Nat \X Server \X Server)
  /\ won \in SUBSET (Nat \X Server)
  /\ overlapped \in BOOLEAN /\ repeated \in BOOLEAN
  /\ restarted \in SUBSET Server

\* Nobody votes for two candidates in one term, although the candidate re-reads
\* its term while it asks, requests are retried and arrive late, and a candidate
\* votes for itself without going through the handler; unless it restarted in
\* between, which makes it forget its vote.
VoteOncePerTerm ==
  \A v, w \in votes :
    v[1] = w[1] /\ v[2] = w[2] /\ v[2] \notin restarted => v[3] = w[3]

\* The same with restarts.
VotesAreKept == \A v, w \in votes : v[1] = w[1] /\ v[2] = w[2] => v[3] = w[3]

\* Of the elections whose candidate still had, at the end, the term it began
\* with, two are won in one term only over a node that voted, restarted and voted
\* again: votes that are retried, late, or sent with a later term than the round
\* began with never elect a second leader.
CleanElectionSafety ==
  \A v, w \in won :
    v[1] = w[1] /\ v[2] # w[2] =>
      \E p \in restarted : <<v[1], p, v[2]>> \in votes /\ <<v[1], p, w[2]>> \in votes

\* "hanya quorum yang boleh commit" (README.md:13): what any node has applied
\* lies within the logs of a majority: no timeout, retry, stale commit index in
\* a late heartbeat or node that lost its leadership gets a minority's entry applied.
\* A restart loses the log, and so counts as having had it.
Majority(Q) == 2 * Cardinality(Q) > N
CommitNeedsQuorum ==
  \A n \in Server :
    \E Q \in SUBSET Server :
      Majority(Q) /\ \A q \in Q \ restarted : Len(log[q]) >= lastApplied[n]

\* The apply loop never runs past its log (raft.py:176), and what is marked
\* committed is applied, with commit indexes that jump forward on a follower
\* (leader_commit) and backward on a leader (raft.py:138).
AppliedWithinLog ==
  \A n \in Server : commitIndex[n] <= lastApplied[n] /\ lastApplied[n] <= Len(log[n])

Agree(n, m) ==
  \A i \in 1..lastApplied[n] : i <= lastApplied[m] => log[n][i].cmd = log[m][i].cmd

\* The replicas apply the same command at the same position (architecture.md:6:
\* the lock manager "menggunakan Raft untuk mereplikasi log operasi lock").
ReplicasAgree == \A n, m \in Server : Agree(n, m)

\* Where replication is right (raft.py:130, 161-167): in one term, the replicas
\* agree whatever is lost or late, as long as no two submissions overlap and no
\* append was sent twice, because a follower that missed an entry, or forgot all
\* of them in a restart, refuses all the later ones.  One process led all along:
\* no second winner in the term, and no winner that restarted.
LedByOne == \A v, w \in won : v = w /\ v[2] \notin restarted
Serial == MaxTerm = 1 /\ ~repeated /\ LedByOne /\ ~overlapped
SerialReplicationAgrees == Serial => ReplicasAgree

\* With repeated appends; the properties below name the other conditions.
AgreesWhenSerial == ~overlapped => ReplicasAgree

\* As long as it is serial, the protocol is a replicated log: the commands have
\* the order of the leader's log, every log is a prefix of it, and only what a
\* majority holds is applied, in this order, once; whatever is lost or late, and
\* whatever a process that was replaced has forgotten.
CmdsOf(lg) == [i \in 1..Len(lg) |-> lg[i].cmd]
TheLeader == (CHOOSE w \in won : TRUE)[2]
Order == IF won = {} THEN <<>> ELSE CmdsOf(log[TheLeader])
RL == INSTANCE ReplicatedLog WITH
  Replicas <- Server,
  Commands <- Cmds,
  Quorums <- {Q \in SUBSET Server : Majority(Q)},
  order <- Order,
  held <- [n \in Server |-> CmdsOf(log[n])],
  applied <- [n \in Server |-> SubSeq(CmdsOf(log[n]), 1, lastApplied[n])],
  lost <- restarted
ImplementsReplicatedLog == (Serial => RL!Init) /\ [][Serial' => [RL!Next]_(RL!vars)]_vars

\* The behaviours that stay serial; a step that is not is followed by none that is.
SerialSpec == Init /\ [][Next /\ Serial']_vars

\* README.md, A1: exactly one node answers "role":"leader"; here, one per term.
OneLeaderPerTerm ==
  \A n, m \in Server :
    role[n] = "leader" /\ role[m] = "leader" /\ currentTerm[n] = currentTerm[m] => n = m

Accepted(c) == at[c].node # None /\ Submission(c) \notin active
AppliedAt(n, c) == \E i \in 1..lastApplied[n] : log[n][i].cmd = c

\* A submission that was answered True is applied in the end
\* (lock_manager.py:239: "accepted tapi belum dapat hasil (client bisa polling
\* /lock/state)": accepted, but the result is not there yet).
AcceptedIsApplied == \A c \in Cmds : Accepted(c) ~> \E n \in Server : AppliedAt(n, c)

EveryoneAcked(c) == acks[Submission(c)] = Server

\* A command that every node acked is applied by every replica, with heartbeats
\* and their replies lost, late or sent again, when submissions do not overlap
\* in the one term: the heartbeats carry the leader's commit index to the
\* followers (raft.py:98), who get it no other way once the last submission is
\* over.  A repeated append shifts the commands behind it, so only the first
\* command of the log is promised this after one.
\* A node that restarted is never sent the entries it lost (raft.py:97-104,
\* 130): see ReachesRestarted.
AckedReachesAll ==
  \A c \in Cmds :
    EveryoneAcked(c) /\ (at[c].index = 1 \/ ~repeated) ~> \A n \in Server : AppliedAt(n, c)
SerialReachesAll == MaxTerm = 1 /\ [](~overlapped /\ restarted = {}) => AckedReachesAll

\* The same with restarts: a process that comes back catches up.
ReachesRestarted == MaxTerm = 1 /\ [](~overlapped) => AckedReachesAll

=============================================================================
