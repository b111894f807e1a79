----------------------------- MODULE RaftProofs -----------------------------
(***************************************************************************)
(* Proofs about Raft, for any number of nodes, terms, commands, timeouts   *)
(* and restarts.  Four invariants, each preserved by every step: the types *)
(* with the indexes into the logs (TypeInv), the votes and elections       *)
(* (ElectionInv), the positions that are committed (CommitInv), and the    *)
(* logs of a serial behaviour (LogInv), which also give the refinement of  *)
(* ReplicatedLog.                                                          *)
(***************************************************************************)
EXTENDS Raft, FiniteSetTheorems, SequenceTheorems, TLAPS

\* No log is read past its end: next_index is at most one more than the last
\* index, and the entry of a submission in progress is in its node's log.
IndexesInLog ==
  /\ \A n \in Server : nextIndex[n] <= Len(log[n]) + 1
  /\ \A c \in Cmds : Submission(c) \in active =>
       at[c].node \in Server /\ at[c].index \in 1..Len(log[at[c].node])

TypeInv == TypeOK /\ IndexesInLog

-----------------------------------------------------------------------------
(* The types *)

LEMMA CoroutinesDiffer ==
  /\ \A n, k \in Server : Election(n) = Election(k) => n = k
  /\ \A n, k \in Server : Election(n) # Heartbeat(k)
  /\ \A n \in Server, c \in Cmds : Election(n) # Submission(c) /\ Heartbeat(n) # Submission(c)
  /\ \A c, d \in Cmds : Submission(c) = Submission(d) => c = d
  /\ \A n \in Server : Election(n) \in Coroutine /\ Heartbeat(n) \in Coroutine
  /\ \A c \in Cmds : Submission(c) \in Coroutine
BY DEF Election, Heartbeat, Submission, Coroutine

LEMMA ServerFacts ==
  /\ Server \subseteq Nat /\ None \notin Server /\ IsFiniteSet(Server) /\ Cardinality(Server) = N
  /\ \A n \in Server : Peers(n) \subseteq Server
<1>1. IsFiniteSet(Server) /\ Cardinality(Server) = N
  BY NAssumption, FS_Interval DEF Server
<1> QED BY <1>1, NAssumption DEF Server, None, Peers

LEMMA EnoughIsMajority ==
  ASSUME NEW S \in SUBSET Server, Enough(S) PROVE Majority(S)
<1>1. Cardinality(S) \in Nat
  BY ServerFacts, FS_Subset, FS_CardinalityType
<1> QED BY <1>1, NAssumption DEF Enough, Majority

LEMMA TermAtType ==
  ASSUME NEW lg \in Seq(Entry), NEW i \in 0..Len(lg)
  PROVE  TermAt(lg, i) \in Nat
<1>1. CASE i = 0
  BY <1>1 DEF TermAt
<1>2. CASE i # 0
  <2>1. lg[i] \in Entry
    BY <1>2
  <2> QED BY <1>2, <2>1 DEF TermAt, Entry
<1> QED BY <1>1, <1>2

\* Logs that one node's entries are added to.
LEMMA LogExtended ==
  ASSUME NEW lg \in [Server -> Seq(Entry)], NEW p \in Server, NEW e \in Seq(Entry),
         NEW lh, lh = lg \/ lh = [lg EXCEPT ![p] = @ \o e]
  PROVE  /\ lh \in [Server -> Seq(Entry)]
         /\ \A q \in Server : Len(lg[q]) \in Nat /\ Len(lh[q]) \in Nat /\ Len(lh[q]) >= Len(lg[q])
<1>1. CASE lh = lg
  BY <1>1
<1>2. CASE lh = [lg EXCEPT ![p] = @ \o e]
  BY <1>2, ConcatProperties
<1> QED BY <1>1, <1>2

LEMMA VoteRequestType ==
  ASSUME TypeOK, NEW n \in Server, NEW p \in Server, NEW t \in Nat
  PROVE  VoteRequest(n, p, t) \in Message
<1>1. log[n] \in Seq(Entry) /\ Len(log[n]) \in Nat /\ Len(log[n]) \in 0..Len(log[n])
  BY DEF TypeOK
<1>2. LastTerm(log[n]) \in Nat
  BY <1>1, TermAtType DEF LastTerm
<1>3. <<>> \in Seq(Entry)
  OBVIOUS
<1> QED BY <1>1, <1>2, <1>3, CoroutinesDiffer DEF VoteRequest, Message

LEMMA BeatRequestType ==
  ASSUME TypeInv, NEW n \in Server, NEW p \in Server
  PROVE  BeatRequest(n, p) \in Message
<1>1. nextIndex[n] - 1 \in 0..Len(log[n]) /\ nextIndex[n] - 1 \in Nat
  BY DEF TypeInv, TypeOK, IndexesInLog
<1>2. TermAt(log[n], nextIndex[n] - 1) \in Nat
  BY <1>1, TermAtType DEF TypeInv, TypeOK
<1>3. <<>> \in Seq(Entry) /\ currentTerm[n] \in Nat /\ commitIndex[n] \in Nat
  BY DEF TypeInv, TypeOK
<1> QED BY <1>1, <1>2, <1>3, CoroutinesDiffer DEF BeatRequest, Message

LEMMA AppendRequestType ==
  ASSUME TypeOK, NEW c \in Cmds, NEW n \in Server, NEW p \in Server,
         NEW lg \in Seq(Entry), NEW i \in 1..Len(lg)
  PROVE  AppendRequest(c, n, i, p, lg) \in Message
<1>1. i - 1 \in 0..Len(lg) /\ i - 1 \in Nat /\ Len(lg) \in 1..Len(lg)
  OBVIOUS
<1>2. TermAt(lg, i - 1) \in Nat
  BY <1>1, TermAtType
<1>3. lg[Len(lg)].cmd \in Cmds /\ currentTerm[n] \in Nat /\ commitIndex[n] \in Nat
  <2>1. lg[Len(lg)] \in Entry
    BY <1>1
  <2> QED BY <2>1 DEF TypeOK, Entry
<1>4. <<[term |-> currentTerm[n], cmd |-> lg[Len(lg)].cmd]>> \in Seq(Entry)
  BY <1>3 DEF Entry
<1> QED BY <1>1, <1>2, <1>3, <1>4, CoroutinesDiffer DEF AppendRequest, Message

LEMMA BeginType ==
  ASSUME TypeOK, NEW k \in Coroutine, NEW n \in Server, NEW p, NEW m \in Message, Begin(k, n, p, m)
  PROVE  /\ todo' \in [Coroutine -> SUBSET Server] /\ acks' \in [Coroutine -> SUBSET Server]
         /\ net' \in SUBSET Message /\ waiting' \in SUBSET Message /\ faults' \in Nat
BY ServerFacts DEF TypeOK, Begin, Send

LEMMA ContinueType ==
  ASSUME TypeOK, NEW k \in Coroutine, NEW p, NEW m \in Message, Continue(k, p, m)
  PROVE  /\ todo' \in [Coroutine -> SUBSET Server]
         /\ net' \in SUBSET Message /\ waiting' \in SUBSET Message /\ faults' \in Nat
         /\ UNCHANGED <<active, acks, at>>
BY DEF TypeOK, Continue, Send

LEMMA InitType == Init => TypeInv
<1> SUFFICES ASSUME Init PROVE TypeInv
  OBVIOUS
<1>1. TypeOK
  <2>1. <<>> \in Seq(Entry)
    OBVIOUS
  <2>2. [node |-> None, index |-> 0] \in [node : Server \cup {None}, index : Nat]
    OBVIOUS
  <2>3. overlapped \in BOOLEAN /\ repeated \in BOOLEAN
    BY DEF Init
  <2> QED BY <2>1, <2>2, <2>3 DEF Init, TypeOK
<1>2. IndexesInLog
  BY DEF Init, IndexesInLog
<1> QED BY <1>1, <1>2 DEF TypeInv

LEMMA StartElectionType ==
  ASSUME TypeInv, NEW n \in Server, StartElection(n) PROVE TypeInv'
<1> DEFINE t == currentTerm[n] + 1
<1> USE DEF TypeInv
<1>1. t \in Nat
  BY DEF TypeOK
<1>2. PICK p \in Server : Begin(Election(n), n, p, VoteRequest(n, p, t))
  BY DEF StartElection
<1>3. VoteRequest(n, p, t) \in Message
  BY <1>1, VoteRequestType
<1>4. /\ todo' \in [Coroutine -> SUBSET Server] /\ acks' \in [Coroutine -> SUBSET Server]
      /\ net' \in SUBSET Message /\ waiting' \in SUBSET Message /\ faults' \in Nat
  BY <1>2, <1>3, BeginType, CoroutinesDiffer
<1>5. votes' \in SUBSET (Nat \X Server \X Server) /\ began' \in [Server -> Nat]
  <2>1. votes' = votes \cup {<<t, n, n>>} /\ began' = [began EXCEPT ![n] = t]
    BY DEF StartElection
  <2>2. votes \in SUBSET (Nat \X Server \X Server) /\ began \in [Server -> Nat]
    BY DEF TypeOK
  <2> HIDE DEF t, TypeInv
  <2> QED BY <1>1, <2>1, <2>2
<1>6. active' \in SUBSET Coroutine /\ role' \in [Server -> {"follower", "candidate", "leader"}]
      /\ currentTerm' \in [Server -> Nat] /\ votedFor' \in [Server -> Server \cup {None}]
  <2>1. active' = active \cup {Election(n)} /\ role' = [role EXCEPT ![n] = "candidate"]
        /\ currentTerm' = [currentTerm EXCEPT ![n] = t] /\ votedFor' = [votedFor EXCEPT ![n] = n]
    BY DEF StartElection
  <2> HIDE DEF t
  <2> QED BY <1>1, <2>1, CoroutinesDiffer DEF TypeOK
<1>7. TypeOK'
  BY <1>4, <1>5, <1>6 DEF StartElection, TypeOK
<1>8. IndexesInLog'
  BY CoroutinesDiffer DEF StartElection, IndexesInLog
<1> QED BY <1>7, <1>8

LEMMA SendVoteRequestType ==
  ASSUME TypeInv, NEW n \in Server, SendVoteRequest(n) PROVE TypeInv'
<1> USE DEF TypeInv
<1>1. PICK p \in Server : Continue(Election(n), p, VoteRequest(n, p, currentTerm[n]))
  BY DEF SendVoteRequest
<1>2. VoteRequest(n, p, currentTerm[n]) \in Message
  BY VoteRequestType DEF TypeOK
<1>3. /\ todo' \in [Coroutine -> SUBSET Server] /\ net' \in SUBSET Message
      /\ waiting' \in SUBSET Message /\ faults' \in Nat /\ UNCHANGED <<active, acks, at>>
  BY <1>1, <1>2, ContinueType, CoroutinesDiffer
<1>4. TypeOK' /\ IndexesInLog'
  BY <1>3 DEF SendVoteRequest, TypeOK, IndexesInLog, node, history
<1> QED BY <1>4

LEMMA FinishElectionType ==
  ASSUME TypeInv, NEW n \in Server, FinishElection(n) PROVE TypeInv'
<1> USE DEF TypeInv
<1>1. TypeOK'
  <2>1. FirstNextIndex(n) \in Nat \ {0}
    BY DEF TypeOK, FirstNextIndex
  <2>2. won' \in SUBSET (Nat \X Server)
    BY DEF FinishElection, TypeOK
  <2>3. todo' \in [Coroutine -> SUBSET Server] /\ waiting' \in SUBSET Message
    BY CoroutinesDiffer DEF FinishElection, TypeOK
  <2>4. nextIndex' \in [Server -> Nat \ {0}] /\ role' \in [Server -> {"follower", "candidate", "leader"}]
    BY <2>1 DEF FinishElection, TypeOK
  <2> QED BY <2>2, <2>3, <2>4 DEF FinishElection, TypeOK
<1>2. IndexesInLog'
  <2>1. nextIndex'= nextIndex \/ nextIndex' = [nextIndex EXCEPT ![n] = Len(log[n]) + 1]
    BY DEF FinishElection, FirstNextIndex
  <2>2. ASSUME NEW k \in Server PROVE nextIndex'[k] <= Len(log[k]) + 1
    <3>1. Len(log[k]) \in Nat /\ nextIndex[k] <= Len(log[k]) + 1
      BY DEF IndexesInLog, TypeOK
    <3>2. nextIndex \in [Server -> Nat \ {0}]
      BY DEF TypeOK
    <3> HIDE DEF TypeInv
    <3> QED BY <2>1, <3>1, <3>2
  <2>3. log' = log /\ at' = at /\ active' \subseteq active
    BY DEF FinishElection
  <2> QED BY <2>2, <2>3 DEF IndexesInLog
<1> QED BY <1>1, <1>2

LEMMA StartRoundType ==
  ASSUME TypeInv, NEW n \in Server, StartRound(n) PROVE TypeInv'
<1> USE DEF TypeInv
<1>1. PICK p \in Server : Begin(Heartbeat(n), n, p, BeatRequest(n, p))
  BY DEF StartRound
<1>2. BeatRequest(n, p) \in Message
  BY BeatRequestType
<1>3. /\ todo' \in [Coroutine -> SUBSET Server] /\ acks' \in [Coroutine -> SUBSET Server]
      /\ net' \in SUBSET Message /\ waiting' \in SUBSET Message /\ faults' \in Nat
  BY <1>1, <1>2, BeginType, CoroutinesDiffer
<1>4. TypeOK' /\ IndexesInLog'
  BY <1>3 DEF StartRound, TypeOK, IndexesInLog, node, history
<1> QED BY <1>4

LEMMA SendHeartbeatType ==
  ASSUME TypeInv, NEW n \in Server, SendHeartbeat(n) PROVE TypeInv'
<1> USE DEF TypeInv
<1>1. PICK p \in Server : Continue(Heartbeat(n), p, BeatRequest(n, p))
  BY DEF SendHeartbeat
<1>2. BeatRequest(n, p) \in Message
  BY BeatRequestType
<1>3. /\ todo' \in [Coroutine -> SUBSET Server] /\ net' \in SUBSET Message
      /\ waiting' \in SUBSET Message /\ faults' \in Nat /\ UNCHANGED <<active, acks, at>>
  BY <1>1, <1>2, ContinueType, CoroutinesDiffer
<1>4. TypeOK' /\ IndexesInLog'
  BY <1>3 DEF SendHeartbeat, TypeOK, IndexesInLog, node, history
<1> QED BY <1>4

LEMMA SubmitType ==
  ASSUME TypeInv, NEW n \in Server, NEW c \in Cmds, Submit(n, c) PROVE TypeInv'
<1> DEFINE lg == Append(log[n], [term |-> currentTerm[n], cmd |-> c])
<1> USE DEF TypeInv
<1>1. lg \in Seq(Entry) /\ Len(lg) = Len(log[n]) + 1 /\ Len(log[n]) \in Nat
  <2>1. log[n] \in Seq(Entry) /\ [term |-> currentTerm[n], cmd |-> c] \in Entry
    BY DEF TypeOK, Entry
  <2> QED BY <2>1
<1>2. Len(lg) \in 1..Len(lg)
  BY <1>1
<1> HIDE DEF lg
<1>3. PICK p \in Server :
        Begin(Submission(c), n, p, AppendRequest(c, n, Len(lg), p, lg))
  BY DEF Submit, lg
<1>4. AppendRequest(c, n, Len(lg), p, lg) \in Message
  BY <1>1, <1>2, AppendRequestType
<1>5. /\ todo' \in [Coroutine -> SUBSET Server] /\ acks' \in [Coroutine -> SUBSET Server]
      /\ net' \in SUBSET Message /\ waiting' \in SUBSET Message /\ faults' \in Nat
  BY <1>3, <1>4, BeginType, CoroutinesDiffer
<1>6. /\ log' = [log EXCEPT ![n] = lg]
      /\ at' = [at EXCEPT ![c] = [node |-> n, index |-> Len(lg)]]
      /\ active' = active \cup {Submission(c)}
      /\ UNCHANGED <<currentTerm, votedFor, role, commitIndex, lastApplied, nextIndex,
                     began, votes, won, repeated, restarted>>
      /\ overlapped' \in BOOLEAN
  BY DEF Submit, lg, TypeOK
<1>7. TypeOK'
  <2>1. log' \in [Server -> Seq(Entry)] /\ active' \in SUBSET Coroutine
    BY <1>1, <1>6, CoroutinesDiffer DEF TypeOK
  <2>2. at' \in [Cmds -> [node : Server \cup {None}, index : Nat]]
    BY <1>1, <1>6 DEF TypeOK
  <2> QED BY <1>5, <1>6, <2>1, <2>2 DEF TypeOK
<1>8. IndexesInLog'
  <2>1. \A q \in Server :
          Len(log'[q]) >= Len(log[q]) /\ Len(log'[q]) \in Nat /\ Len(log[q]) \in Nat
    <3>1. log \in [Server -> Seq(Entry)] /\ log' = [log EXCEPT ![n] = lg]
      BY <1>6 DEF TypeOK
    <3> HIDE DEF TypeInv
    <3> QED BY <1>1, <3>1
  <2>2. \A k \in Server : nextIndex'[k] <= Len(log'[k]) + 1
    <3>1. \A k \in Server : nextIndex[k] \in Nat /\ nextIndex[k] <= Len(log[k]) + 1
      BY DEF TypeOK, IndexesInLog
    <3>2. nextIndex' = nextIndex
      BY <1>6
    <3> HIDE DEF TypeInv
    <3> QED BY <2>1, <3>1, <3>2
  <2>3. at'[c].node = n /\ at'[c].index \in 1..Len(log'[n])
    BY <1>1, <1>6 DEF TypeOK
  <2>4. ASSUME NEW d \in Cmds, d # c, Submission(d) \in active'
        PROVE  at'[d].node \in Server /\ at'[d].index \in 1..Len(log'[at'[d].node])
    <3>1. Submission(d) \in active /\ at'[d] = at[d]
      BY <1>6, <2>4, CoroutinesDiffer DEF TypeOK
    <3>2. at[d].node \in Server /\ at[d].index \in 1..Len(log[at[d].node])
      BY <3>1 DEF IndexesInLog
    <3> QED BY <2>1, <3>1, <3>2
  <2> QED BY <2>2, <2>3, <2>4 DEF IndexesInLog
<1> QED BY <1>7, <1>8

LEMMA SendAppendType ==
  ASSUME TypeInv, NEW c \in Cmds, SendAppend(c) PROVE TypeInv'
<1> DEFINE n == at[c].node
<1> USE DEF TypeInv
<1>1. n \in Server /\ at[c].index \in 1..Len(log[n]) /\ log[n] \in Seq(Entry)
  BY DEF SendAppend, IndexesInLog, TypeOK
<1>2. PICK p \in Server :
        Continue(Submission(c), p, AppendRequest(c, n, at[c].index, p, log[n]))
  BY DEF SendAppend
<1> HIDE DEF n
<1>3. AppendRequest(c, n, at[c].index, p, log[n]) \in Message
  BY <1>1, AppendRequestType
<1>4. /\ todo' \in [Coroutine -> SUBSET Server] /\ net' \in SUBSET Message
      /\ waiting' \in SUBSET Message /\ faults' \in Nat /\ UNCHANGED <<active, acks, at>>
  BY <1>2, <1>3, ContinueType, CoroutinesDiffer
<1>5. TypeOK' /\ IndexesInLog'
  BY <1>4 DEF SendAppend, TypeOK, IndexesInLog, node, history
<1> QED BY <1>5

LEMMA FinishSubmitType ==
  ASSUME TypeInv, NEW c \in Cmds, FinishSubmit(c) PROVE TypeInv'
<1> DEFINE n == at[c].node
<1> USE DEF TypeInv
<1>1. n \in Server /\ at[c].index \in Nat
  BY DEF FinishSubmit, Done, IndexesInLog, TypeOK
<1>2. Applied(n, at[c].index) \in Nat
  BY <1>1 DEF TypeOK, Applied
<1>3. commitIndex' \in [Server -> Nat] /\ lastApplied' \in [Server -> Nat]
      /\ active' \in SUBSET Coroutine
  <2>1. \/ UNCHANGED <<commitIndex, lastApplied>>
        \/ /\ commitIndex' = [commitIndex EXCEPT ![n] = at[c].index]
           /\ lastApplied' = [lastApplied EXCEPT ![n] = Applied(n, at[c].index)]
    BY DEF FinishSubmit
  <2>2. active' \subseteq active
    BY DEF FinishSubmit
  <2> HIDE DEF n
  <2> QED BY <1>1, <1>2, <2>1, <2>2 DEF TypeOK
<1>5. TypeOK'
  BY <1>3 DEF FinishSubmit, TypeOK, wire, history
<1>4. IndexesInLog'
  BY DEF FinishSubmit, IndexesInLog
<1> QED BY <1>4, <1>5

LEMMA ReplyEffect ==
  ASSUME NEW m, NEW ok, NEW answered, Reply(m, ok, answered)
  PROVE  /\ waiting' \subseteq waiting /\ net' = net \ {m} /\ UNCHANGED active
         /\ \/ acks' = acks
            \/ ok /\ m \in waiting /\ acks' = [acks EXCEPT ![m.by] = @ \cup {m.dst}]
<1>1. waiting' \subseteq waiting
  BY DEF Reply
<1>2. net' = net \ {m} /\ UNCHANGED active
  BY DEF Reply
<1>3. acks' = acks \/ (ok /\ m \in waiting /\ acks' = [acks EXCEPT ![m.by] = @ \cup {m.dst}])
  BY DEF Reply
<1> QED BY <1>1, <1>2, <1>3

LEMMA ReplyType ==
  ASSUME TypeOK, NEW m \in Message, NEW ok \in BOOLEAN, NEW answered \in BOOLEAN,
         Reply(m, ok, answered)
  PROVE  /\ net' \in SUBSET Message /\ waiting' \in SUBSET Message
         /\ acks' \in [Coroutine -> SUBSET Server] /\ faults' \in Nat
         /\ UNCHANGED <<active, todo, at>>
<1>1. m.by \in Coroutine /\ m.dst \in Server
  BY DEF Message
<1>2. acks' \in [Coroutine -> SUBSET Server]
  <2>1. acks' = acks \/ acks' = [acks EXCEPT ![m.by] = @ \cup {m.dst}]
    BY DEF Reply
  <2>2. acks \in [Coroutine -> SUBSET Server]
    BY DEF TypeOK
  <2> QED BY <1>1, <2>1, <2>2
<1>3. net' \in SUBSET Message /\ waiting' \in SUBSET Message /\ faults' \in Nat
  BY DEF Reply, TypeOK
<1> QED BY <1>2, <1>3 DEF Reply

LEMMA HandleRequestVoteType ==
  ASSUME TypeInv, NEW m \in net, NEW answered \in BOOLEAN, HandleRequestVote(m, answered)
  PROVE  TypeInv'
<1> USE DEF TypeInv
<1>1. m \in Message /\ m.dst \in Server /\ m.src \in Server /\ m.term \in Nat
  BY DEF TypeOK, Message
<1>2. Grants(m.dst, m) \in BOOLEAN /\ Reply(m, Grants(m.dst, m), answered)
  BY DEF Grants, Free, UpToDate, HandleRequestVote
<1> HIDE DEF TypeInv
<1>3. /\ net' \in SUBSET Message /\ waiting' \in SUBSET Message
      /\ acks' \in [Coroutine -> SUBSET Server] /\ faults' \in Nat /\ UNCHANGED <<active, todo, at>>
  BY <1>1, <1>2, ReplyType DEF TypeInv
<1>6. votes' \in SUBSET (Nat \X Server \X Server)
  <2>1. votes' = votes \/ votes' = votes \cup {<<m.term, m.dst, m.src>>}
    BY DEF HandleRequestVote
  <2> QED BY <1>1, <2>1 DEF TypeInv, TypeOK
<1>7. currentTerm' \in [Server -> Nat] /\ votedFor' \in [Server -> Server \cup {None}]
      /\ role' \in [Server -> {"follower", "candidate", "leader"}]
  BY <1>1 DEF TypeInv, HandleRequestVote, TypeOK
<1>4. TypeOK'
  BY <1>3, <1>6, <1>7 DEF TypeInv, HandleRequestVote, TypeOK
<1>5. IndexesInLog'
  BY <1>3 DEF TypeInv, HandleRequestVote, IndexesInLog
<1> QED BY <1>4, <1>5 DEF TypeInv

\* What the handler of append_entries does to its node.
LEMMA AppendHandled ==
  ASSUME TypeOK, NEW m \in net, NEW answered \in BOOLEAN, HandleAppendEntries(m, answered)
  PROVE  LET p == m.dst IN
         /\ p \in Server /\ m \in Message
         /\ \E ok \in BOOLEAN :
              /\ Reply(m, ok, answered)
              /\ ok => Matches(p, m) /\ log' = [log EXCEPT ![p] = @ \o m.entries]
              /\ ~ok => UNCHANGED log
         /\ \/ UNCHANGED <<commitIndex, lastApplied>>
            \/ /\ log' = [log EXCEPT ![p] = @ \o m.entries]
               /\ commitIndex' = [commitIndex EXCEPT ![p] = FollowerCommit(p, m)]
               /\ lastApplied' = [lastApplied EXCEPT ![p] = Applied(p, FollowerCommit(p, m))]
         /\ role' \in [Server -> {"follower", "candidate", "leader"}]
         /\ UNCHANGED <<currentTerm, votedFor, nextIndex, history, restarted>>
<1>1. m \in Message /\ m.dst \in Server
  BY DEF TypeOK, Message
<1>2. Matches(m.dst, m) \in BOOLEAN
  BY DEF Matches
<1>3. CASE m.term < currentTerm[m.dst]
  BY <1>1, <1>3 DEF HandleAppendEntries, node, TypeOK
<1>4. CASE ~(m.term < currentTerm[m.dst])
  <2>1. Reply(m, Matches(m.dst, m), answered)
    BY <1>4 DEF HandleAppendEntries
  <2>2. role' \in [Server -> {"follower", "candidate", "leader"}]
    BY <1>1, <1>4 DEF HandleAppendEntries, TypeOK
  <2> QED BY <1>1, <1>2, <1>4, <2>1, <2>2 DEF HandleAppendEntries
<1> QED BY <1>3, <1>4

LEMMA FollowerCommitIsLess ==
  ASSUME TypeOK, NEW p \in Server, NEW m \in Message
  PROVE  /\ FollowerCommit(p, m) \in Nat /\ FollowerCommit(p, m) <= m.commit
         /\ FollowerCommit(p, m) <= Len(log[p]) + Len(m.entries)
<1>1. m.entries \in Seq(Entry) /\ m.commit \in Nat
  BY DEF Message
<1>2. log[p] \in Seq(Entry)
  BY DEF TypeOK
<1>3. Len(log[p]) \in Nat /\ Len(m.entries) \in Nat
  BY <1>1, <1>2
<1>4. PICK length \in Nat : length = Len(log[p]) + Len(m.entries)
  <2>1. PICK x \in Nat : x = Len(log[p])
    BY <1>3
  <2>2. PICK y \in Nat : y = Len(m.entries)
    BY <1>3
  <2>3. x + y \in Nat
    OBVIOUS
  <2> QED BY <2>1, <2>2, <2>3
<1>5. PICK commit \in Nat : commit = m.commit
  BY <1>1
<1>6. FollowerCommit(p, m) = IF commit < length THEN commit ELSE length
  BY <1>4, <1>5 DEF FollowerCommit
<1>7. FollowerCommit(p, m) \in Nat /\ FollowerCommit(p, m) <= commit
      /\ FollowerCommit(p, m) <= length
  <2> HIDE DEF TypeOK
  <2>1. CASE commit < length
    <3>1. FollowerCommit(p, m) = commit
      BY <1>6, <2>1
    <3> QED BY <2>1, <3>1
  <2>2. CASE ~(commit < length)
    <3>1. FollowerCommit(p, m) = length /\ length <= commit
      BY <1>6, <2>2
    <3> QED BY <3>1
  <2> QED BY <2>1, <2>2
<1> QED BY <1>4, <1>5, <1>7

LEMMA HandleAppendEntriesType ==
  ASSUME TypeInv, NEW m \in net, NEW answered \in BOOLEAN, HandleAppendEntries(m, answered)
  PROVE  TypeInv'
<1> DEFINE p == m.dst
<1> USE DEF TypeInv
<1>1. /\ p \in Server /\ m \in Message /\ m.entries \in Seq(Entry) /\ m.commit \in Nat
      /\ role' \in [Server -> {"follower", "candidate", "leader"}]
      /\ UNCHANGED <<currentTerm, votedFor, nextIndex, history, restarted>>
  BY AppendHandled DEF Message
<1>2. PICK ok \in BOOLEAN : /\ Reply(m, ok, answered)
                            /\ ok => log' = [log EXCEPT ![p] = @ \o m.entries]
                            /\ ~ok => UNCHANGED log
  BY AppendHandled
<1>3. /\ net' \in SUBSET Message /\ waiting' \in SUBSET Message
      /\ acks' \in [Coroutine -> SUBSET Server] /\ faults' \in Nat /\ UNCHANGED <<active, todo, at>>
  BY <1>1, <1>2, ReplyType
<1>4. p \in Server /\ m.entries \in Seq(Entry) /\ m.commit \in Nat
  BY <1>1
<1>5. log' \in [Server -> Seq(Entry)] /\ \A q \in Server : Len(log'[q]) >= Len(log[q])
  <2>1. log \in [Server -> Seq(Entry)]
    BY DEF TypeOK
  <2>2. log' = log \/ log' = [log EXCEPT ![p] = @ \o m.entries]
    BY <1>2
  <2> HIDE DEF p, TypeInv
  <2> QED BY <1>4, <2>1, <2>2, LogExtended
<1>6. commitIndex' \in [Server -> Nat] /\ lastApplied' \in [Server -> Nat]
  <2>1. FollowerCommit(p, m) \in Nat
    BY <1>1, FollowerCommitIsLess
  <2>2. Applied(p, FollowerCommit(p, m)) \in Nat
    BY <1>4, <2>1 DEF Applied, TypeOK
  <2>3. \/ UNCHANGED <<commitIndex, lastApplied>>
        \/ /\ commitIndex' = [commitIndex EXCEPT ![p] = FollowerCommit(p, m)]
           /\ lastApplied' = [lastApplied EXCEPT ![p] = Applied(p, FollowerCommit(p, m))]
    BY AppendHandled
  <2>4. commitIndex \in [Server -> Nat] /\ lastApplied \in [Server -> Nat]
    BY DEF TypeOK
  <2> HIDE DEF p, TypeInv
  <2> QED BY <1>4, <2>1, <2>2, <2>3, <2>4
<1> HIDE DEF p
<1>7. TypeOK'
  BY <1>1, <1>3, <1>5, <1>6 DEF TypeOK, history
<1>8. IndexesInLog'
  <2>1. \A q \in Server : nextIndex'[q] <= Len(log'[q]) + 1
    BY <1>1, <1>5 DEF IndexesInLog, TypeOK
  <2>2. ASSUME NEW c \in Cmds, Submission(c) \in active'
        PROVE  at'[c].node \in Server /\ at'[c].index \in 1..Len(log'[at'[c].node])
    BY <1>3, <1>5, <2>2 DEF IndexesInLog, TypeOK
  <2> QED BY <2>1, <2>2 DEF IndexesInLog
<1> QED BY <1>7, <1>8

LEMMA RetryType == ASSUME TypeInv, NEW m \in waiting, Retry(m) PROVE TypeInv'
<1> DEFINE again == [m EXCEPT !.attempt = @ + 1]
<1> USE DEF TypeInv
<1>1. again \in Message
  <2>1. m \in Message
    BY DEF TypeOK
  <2>2. m.attempt + 1 \in Nat
    BY <2>1 DEF Message
  <2> QED BY <2>1, <2>2 DEF Message
<1>2. faults' \in Nat
  BY DEF Retry, TimedOut, TypeOK
<1>3. TypeOK'
  BY <1>1, <1>2 DEF Retry, TypeOK, node, calls
<1>4. IndexesInLog'
  BY DEF Retry, IndexesInLog, node, calls
<1> QED BY <1>3, <1>4

LEMMA GiveUpType == ASSUME TypeInv, NEW m \in waiting, GiveUp(m) PROVE TypeInv'
<1> USE DEF TypeInv
<1>1. faults' \in Nat
  BY DEF GiveUp, TimedOut, TypeOK
<1>2. TypeOK' /\ IndexesInLog'
  BY <1>1 DEF GiveUp, TypeOK, IndexesInLog, node, calls, history
<1> QED BY <1>2

LEMMA RestartType == ASSUME TypeInv, NEW n \in Server, Restart(n) PROVE TypeInv'
<1> USE DEF TypeInv
<1>1. \A m \in Message : [m EXCEPT !.attempt = 0] \in Message
  BY DEF Message
<1>2. net' \in SUBSET Message
  BY <1>1 DEF Restart, TypeOK
<1>3. <<>> \in Seq(Entry) /\ Len(<<>>) = 0
  OBVIOUS
<1>4. TypeOK'
  BY <1>2, <1>3 DEF Restart, TypeOK, history
<1>5. IndexesInLog'
  BY <1>3 DEF Restart, TypeOK, IndexesInLog, CoroutinesOf
<1> QED BY <1>4, <1>5

LEMMA StepType == ASSUME TypeInv, [Next]_vars PROVE TypeInv'
<1>1. CASE UNCHANGED vars
  BY <1>1 DEF TypeInv, TypeOK, IndexesInLog, vars, node, calls, wire, history
<1>2. ASSUME NEW n \in Server, \/ StartElection(n) \/ SendVoteRequest(n) \/ FinishElection(n)
                               \/ StartRound(n) \/ SendHeartbeat(n) \/ Restart(n)
      PROVE  TypeInv'
  BY <1>2, StartElectionType, SendVoteRequestType, FinishElectionType, StartRoundType,
     SendHeartbeatType, RestartType
<1>3. ASSUME NEW n \in Server, NEW c \in Cmds, Submit(n, c) PROVE TypeInv'
  BY <1>3, SubmitType
<1>4. ASSUME NEW c \in Cmds, SendAppend(c) \/ FinishSubmit(c) PROVE TypeInv'
  BY <1>4, SendAppendType, FinishSubmitType
<1>5. ASSUME NEW m \in net, NEW answered \in BOOLEAN,
             HandleRequestVote(m, answered) \/ HandleAppendEntries(m, answered)
      PROVE  TypeInv'
  BY <1>5, HandleRequestVoteType, HandleAppendEntriesType
<1>6. ASSUME NEW m \in waiting, Retry(m) \/ GiveUp(m) PROVE TypeInv'
  BY <1>6, RetryType, GiveUpType
<1> QED BY <1>1, <1>2, <1>3, <1>4, <1>5, <1>6 DEF Next

\* The types, and no read past the end of a log, in every reachable state.
THEOREM RaftTypeOK == Spec => []TypeOK
<1>1. Init => TypeInv
  BY InitType
<1>2. TypeInv /\ [Next]_vars => TypeInv'
  BY StepType
<1>3. TypeInv => TypeOK
  BY DEF TypeInv
<1> QED BY <1>1, <1>2, <1>3, PTL DEF Spec

-----------------------------------------------------------------------------
(* Votes and elections *)

\* A vote is for the present term of its voter, and then it is the one the
\* voter remembers, or for an earlier term.
VotesNow ==
  \A v \in votes : v[2] \notin restarted =>
    /\ v[1] <= currentTerm[v[2]]
    /\ v[1] = currentTerm[v[2]] => votedFor[v[2]] = v[3]

\* As long as the candidate's term is the one its round began with, what it
\* counts are votes of this term.
VotesCounted ==
  \A n \in Server : Election(n) \in active =>
    /\ began[n] <= currentTerm[n]
    /\ began[n] = currentTerm[n] =>
         \A p \in acks[Election(n)] : <<began[n], p, n>> \in votes

\* A request of a round was sent in the round.
VotesAwaited ==
  \A m \in waiting, n \in Server : m.by = Election(n) =>
    /\ m.src = n /\ Election(n) \in active
    /\ began[n] <= m.term /\ m.term <= currentTerm[n]

Elected ==
  \A v \in won : \E Q \in SUBSET Server :
    Majority(Q) /\ \A q \in Q : <<v[1], q, v[2]>> \in votes

ElectionInv == VotesNow /\ VoteOncePerTerm /\ VotesCounted /\ VotesAwaited /\ Elected

\* `faults' and `todo' do not matter, nor do logs; requests that are waited for
\* are old ones, repeated ones, or vote requests with the present term.
LEMMA QuietElection ==
  ASSUME ElectionInv, UNCHANGED <<currentTerm, votedFor, began, votes, won, restarted>>,
         TypeInv,
         \A n \in Server : /\ Election(n) \in active' <=> Election(n) \in active
                           /\ acks'[Election(n)] = acks[Election(n)],
         \A m \in waiting', n \in Server : m.by = Election(n) =>
           \/ \E l \in waiting : l.by = m.by /\ l.src = m.src /\ l.term = m.term
           \/ m.src = n /\ Election(n) \in active /\ m.term = currentTerm[n]
  PROVE  ElectionInv'
<1>1. VotesNow' /\ VoteOncePerTerm' /\ Elected'
  BY DEF ElectionInv, VotesNow, VoteOncePerTerm, Elected
<1>2. VotesCounted'
  BY DEF ElectionInv, VotesCounted
<1>3. ASSUME NEW m \in waiting', NEW n \in Server, m.by = Election(n)
      PROVE  /\ m.src = n /\ Election(n) \in active'
             /\ began'[n] <= m.term /\ m.term <= currentTerm'[n]
  <2>1. CASE \E l \in waiting : l.by = m.by /\ l.src = m.src /\ l.term = m.term
    BY <1>3, <2>1 DEF ElectionInv, VotesAwaited
  <2>2. CASE m.src = n /\ Election(n) \in active /\ m.term = currentTerm[n]
    <3>1. began[n] <= currentTerm[n] /\ currentTerm[n] \in Nat
      BY <2>2 DEF ElectionInv, VotesCounted, TypeInv, TypeOK
    <3> QED BY <2>2, <3>1
  <2> QED BY <1>3, <2>1, <2>2
<1>4. VotesAwaited'
  BY <1>3 DEF VotesAwaited
<1> QED BY <1>1, <1>2, <1>4 DEF ElectionInv

LEMMA InitElection == Init => ElectionInv
BY DEF Init, ElectionInv, VotesNow, VoteOncePerTerm, VotesCounted, VotesAwaited, Elected

LEMMA StartElectionVotes ==
  ASSUME TypeInv, ElectionInv, NEW n \in Server, StartElection(n) PROVE ElectionInv'
<1> DEFINE t == currentTerm[n] + 1
<1>1. /\ currentTerm \in [Server -> Nat] /\ votedFor \in [Server -> Server \cup {None}]
      /\ began \in [Server -> Nat] /\ votes \in SUBSET (Nat \X Server \X Server)
      /\ acks \in [Coroutine -> SUBSET Server]
  BY DEF TypeInv, TypeOK
<1>2. PICK p \in Server : Begin(Election(n), n, p, VoteRequest(n, p, t))
  BY DEF StartElection
<1> DEFINE m == VoteRequest(n, p, t)
<1>3. /\ Election(n) \notin active /\ active' = active \cup {Election(n)}
      /\ currentTerm' = [currentTerm EXCEPT ![n] = t] /\ votedFor' = [votedFor EXCEPT ![n] = n]
      /\ began' = [began EXCEPT ![n] = t] /\ votes' = votes \cup {<<t, n, n>>}
      /\ UNCHANGED <<won, restarted>>
  BY DEF StartElection
<1>4. acks' = [acks EXCEPT ![Election(n)] = {n}] /\ waiting' = waiting \cup {m}
  BY <1>2 DEF Begin, Send
<1>5. m.by = Election(n) /\ m.src = n /\ m.term = t
  BY DEF VoteRequest
<1>6. t \in Nat /\ currentTerm[n] < t /\ currentTerm'[n] = t
  BY <1>1, <1>3
<1> HIDE DEF t, m
<1>7. ASSUME NEW v \in votes, v[2] = n, n \notin restarted PROVE v[1] < t
  <2>1. v[1] <= currentTerm[n] /\ v[1] \in Nat /\ currentTerm[n] \in Nat
    BY <1>1, <1>7 DEF ElectionInv, VotesNow
  <2> QED BY <1>6, <2>1
<1>8. VotesNow'
  <2> SUFFICES ASSUME NEW v \in votes', v[2] \notin restarted
               PROVE  /\ v[1] <= currentTerm'[v[2]]
                      /\ v[1] = currentTerm'[v[2]] => votedFor'[v[2]] = v[3]
    BY <1>3 DEF VotesNow
  <2>1. CASE v = <<t, n, n>>
    BY <1>1, <1>3, <1>6, <2>1
  <2>2. CASE v \in votes /\ v[2] = n
    BY <1>1, <1>6, <1>7, <2>2
  <2>3. CASE v \in votes /\ v[2] # n
    BY <1>1, <1>3, <2>3 DEF ElectionInv, VotesNow
  <2> QED BY <1>3, <2>1, <2>2, <2>3
<1>9. VoteOncePerTerm'
  <2> SUFFICES ASSUME NEW v \in votes', NEW w \in votes',
                      v[1] = w[1], v[2] = w[2], v[2] \notin restarted
               PROVE  v[3] = w[3]
    BY <1>3 DEF VoteOncePerTerm
  <2>1. CASE v \in votes /\ w \in votes
    BY <2>1 DEF ElectionInv, VoteOncePerTerm
  <2>2. CASE v \in votes /\ w = <<t, n, n>>
    BY <1>1, <1>6, <1>7, <2>2
  <2>3. CASE w \in votes /\ v = <<t, n, n>>
    BY <1>1, <1>6, <1>7, <2>3
  <2> QED BY <1>3, <2>1, <2>2, <2>3
<1>10. VotesCounted'
  <2> SUFFICES ASSUME NEW k \in Server, Election(k) \in active'
               PROVE  /\ began'[k] <= currentTerm'[k]
                      /\ began'[k] = currentTerm'[k] =>
                           \A q \in acks'[Election(k)] : <<began'[k], q, k>> \in votes'
    BY DEF VotesCounted
  <2>1. CASE k = n
    BY <1>1, <1>3, <1>4, <1>6, <2>1, CoroutinesDiffer
  <2>2. CASE k # n
    <3>1. Election(k) \in active /\ acks'[Election(k)] = acks[Election(k)]
      BY <1>1, <1>3, <1>4, <2>2, CoroutinesDiffer
    <3> QED BY <1>1, <1>3, <2>2, <3>1 DEF ElectionInv, VotesCounted
  <2> QED BY <2>1, <2>2
<1>11. VotesAwaited'
  <2> SUFFICES ASSUME NEW l \in waiting', NEW k \in Server, l.by = Election(k)
               PROVE  /\ l.src = k /\ Election(k) \in active'
                      /\ began'[k] <= l.term /\ l.term <= currentTerm'[k]
    BY DEF VotesAwaited
  <2>1. CASE l = m
    <3>1. k = n
      BY <1>5, <2>1, CoroutinesDiffer
    <3> QED BY <1>1, <1>3, <1>5, <1>6, <2>1, <3>1
  <2>2. CASE l \in waiting
    <3>1. l.src = k /\ Election(k) \in active /\ began[k] <= l.term /\ l.term <= currentTerm[k]
      BY <2>2 DEF ElectionInv, VotesAwaited
    <3>2. k # n
      BY <1>3, <3>1
    <3> QED BY <1>1, <1>3, <3>1, <3>2
  <2> QED BY <1>4, <2>1, <2>2
<1>12. Elected'
  BY <1>3 DEF ElectionInv, Elected
<1> QED BY <1>8, <1>9, <1>10, <1>11, <1>12 DEF ElectionInv

LEMMA FinishElectionVotes ==
  ASSUME TypeInv, ElectionInv, NEW n \in Server, FinishElection(n) PROVE ElectionInv'
<1>1. /\ active' = active \ {Election(n)} /\ waiting' \subseteq waiting
      /\ ~Suspended(Election(n))
      /\ UNCHANGED <<currentTerm, votedFor, began, votes, acks, restarted>>
  BY DEF FinishElection, Done
<1>2. VotesNow' /\ VoteOncePerTerm' /\ VotesCounted'
  BY <1>1 DEF ElectionInv, VotesNow, VoteOncePerTerm, VotesCounted
<1>3. VotesAwaited'
  <2> SUFFICES ASSUME NEW l \in waiting', NEW k \in Server, l.by = Election(k)
               PROVE  /\ l.src = k /\ Election(k) \in active'
                      /\ began'[k] <= l.term /\ l.term <= currentTerm'[k]
    BY DEF VotesAwaited
  <2>1. k # n
    BY <1>1 DEF Suspended
  <2> QED BY <1>1, <2>1, CoroutinesDiffer DEF ElectionInv, VotesAwaited
<1>4. Elected'
  <2> SUFFICES ASSUME NEW v \in won'
               PROVE  \E Q \in SUBSET Server :
                        Majority(Q) /\ \A q \in Q : <<v[1], q, v[2]>> \in votes
    BY <1>1 DEF Elected
  <2>1. CASE v \in won
    BY <2>1 DEF ElectionInv, Elected
  <2>2. CASE v \notin won
    <3>1. v = <<began[n], n>> /\ currentTerm[n] = began[n] /\ Enough(acks[Election(n)])
          /\ Election(n) \in active
      BY <2>2 DEF FinishElection, Done
    <3>2. acks[Election(n)] \in SUBSET Server
      BY CoroutinesDiffer DEF TypeInv, TypeOK
    <3>3. Majority(acks[Election(n)])
      BY <3>1, <3>2, EnoughIsMajority
    <3>4. \A q \in acks[Election(n)] : <<began[n], q, n>> \in votes
      BY <3>1 DEF ElectionInv, VotesCounted
    <3> QED BY <3>1, <3>2, <3>3, <3>4
  <2> QED BY <2>1, <2>2
<1> QED BY <1>2, <1>3, <1>4 DEF ElectionInv

LEMMA HandleRequestVoteVotes ==
  ASSUME TypeInv, ElectionInv, NEW m \in net, NEW answered \in BOOLEAN,
         HandleRequestVote(m, answered)
  PROVE  ElectionInv'
<1> DEFINE p == m.dst
           t == m.term
           s == m.src
<1>1. /\ currentTerm \in [Server -> Nat] /\ votedFor \in [Server -> Server \cup {None}]
      /\ began \in [Server -> Nat] /\ votes \in SUBSET (Nat \X Server \X Server)
      /\ acks \in [Coroutine -> SUBSET Server]
  BY DEF TypeInv, TypeOK
<1>2. m \in Message /\ p \in Server /\ s \in Server /\ t \in Nat /\ m.by = Election(s)
  BY DEF TypeInv, TypeOK, Message, HandleRequestVote
<1>3. /\ UNCHANGED <<active, began, won, restarted>> /\ waiting' \subseteq waiting
      /\ \/ UNCHANGED acks
         \/ m \in waiting /\ Grants(p, m) /\ acks' = [acks EXCEPT ![m.by] = @ \cup {p}]
  BY DEF HandleRequestVote, Reply
<1>4. \* a higher term, no vote
      \/ /\ currentTerm[p] < t /\ currentTerm' = [currentTerm EXCEPT ![p] = t]
         /\ votes' = votes /\ votedFor' = [votedFor EXCEPT ![p] = None] /\ ~Grants(p, m)
      \* the vote, for a higher term or for the present one
      \/ /\ currentTerm[p] < t /\ currentTerm' = [currentTerm EXCEPT ![p] = t]
         /\ votes' = votes \cup {<<t, p, s>>} /\ votedFor' = [votedFor EXCEPT ![p] = s]
      \/ /\ currentTerm[p] = t /\ votedFor[p] \in {None, s} /\ currentTerm' = currentTerm
         /\ votes' = votes \cup {<<t, p, s>>} /\ votedFor' = [votedFor EXCEPT ![p] = s]
      \* nothing
      \/ UNCHANGED <<currentTerm, votedFor, votes>> /\ ~Grants(p, m)
  <2>1. currentTerm[p] \in Nat
    BY <1>1, <1>2
  <2>2. Grants(p, m) => currentTerm[p] <= t /\ (currentTerm[p] < t \/ votedFor[p] \in {None, s})
    BY <1>2, <2>1 DEF Grants, Free
  <2> QED BY <1>2, <2>1, <2>2 DEF HandleRequestVote
<1>5. /\ \A q \in Server : currentTerm'[q] \in Nat /\ currentTerm[q] <= currentTerm'[q]
      /\ votes \subseteq votes' /\ (Grants(p, m) => <<t, p, s>> \in votes')
  BY <1>1, <1>2, <1>4
<1> HIDE DEF p, t, s
<1>6. ASSUME NEW v \in votes, v[2] = p, p \notin restarted
      PROVE  /\ v[1] \in Nat /\ v[3] \in Server /\ v[3] # None /\ v[1] <= currentTerm[p]
             /\ v[1] = currentTerm[p] => votedFor[p] = v[3]
  BY <1>1, <1>6, ServerFacts DEF ElectionInv, VotesNow
<1>7. VotesNow'
  <2> SUFFICES ASSUME NEW v \in votes', v[2] \notin restarted
               PROVE  /\ v[1] <= currentTerm'[v[2]]
                      /\ v[1] = currentTerm'[v[2]] => votedFor'[v[2]] = v[3]
    BY <1>3 DEF VotesNow
  <2>1. CASE v \in votes /\ v[2] # p
    BY <1>1, <1>2, <1>4, <2>1 DEF ElectionInv, VotesNow
  <2>2. CASE v \in votes /\ v[2] = p
    <3>1. currentTerm[p] \in Nat /\ votedFor[p] \in Server \cup {None}
      BY <1>1, <1>2
    <3> QED BY <1>1, <1>2, <1>4, <1>6, <2>2, <3>1
  <2>3. CASE v \notin votes
    BY <1>1, <1>2, <1>4, <2>3
  <2> QED BY <2>1, <2>2, <2>3
<1>8. VoteOncePerTerm'
  <2>1. ASSUME NEW v \in votes, v[1] = t, v[2] = p, p \notin restarted,
               <<t, p, s>> \in votes', <<t, p, s>> \notin votes
        PROVE  v[3] = s
    <3>1. \/ currentTerm[p] < t
          \/ currentTerm[p] = t /\ votedFor[p] \in {None, s}
      BY <1>4, <2>1
    <3>2. currentTerm[p] \in Nat /\ t <= currentTerm[p]
          /\ (t = currentTerm[p] => votedFor[p] = v[3]) /\ v[3] # None
      BY <1>1, <1>2, <1>6, <2>1
    <3> QED BY <1>2, <3>1, <3>2
  <2> SUFFICES ASSUME NEW v \in votes', NEW w \in votes',
                      v[1] = w[1], v[2] = w[2], v[2] \notin restarted
               PROVE  v[3] = w[3]
    BY <1>3 DEF VoteOncePerTerm
  <2>2. CASE v \in votes /\ w \in votes
    BY <2>2 DEF ElectionInv, VoteOncePerTerm
  <2>3. CASE v \notin votes \/ w \notin votes
    <3>1. (v \notin votes => v = <<t, p, s>>) /\ (w \notin votes => w = <<t, p, s>>)
      BY <1>4
    <3> QED BY <2>1, <2>3, <3>1
  <2> QED BY <2>2, <2>3
<1>9. VotesCounted'
  <2> SUFFICES ASSUME NEW n \in Server, Election(n) \in active
               PROVE  /\ began[n] <= currentTerm'[n]
                      /\ began[n] = currentTerm'[n] =>
                           \A q \in acks'[Election(n)] : <<began[n], q, n>> \in votes'
    BY <1>3 DEF VotesCounted
  <2>1. /\ began[n] \in Nat /\ currentTerm[n] \in Nat /\ began[n] <= currentTerm[n]
        /\ began[n] = currentTerm[n] => \A q \in acks[Election(n)] : <<began[n], q, n>> \in votes
    BY <1>1 DEF ElectionInv, VotesCounted
  <2>2. began[n] <= currentTerm'[n] /\ (began[n] = currentTerm'[n] => began[n] = currentTerm[n])
    BY <1>5, <2>1
  <2>3. ASSUME NEW q \in acks'[Election(n)], q \notin acks[Election(n)], began[n] = currentTerm[n]
        PROVE  <<began[n], q, n>> \in votes'
    <3>1. m \in waiting /\ Grants(p, m) /\ m.by = Election(n) /\ q = p
      BY <1>1, <1>2, <1>3, <2>3, CoroutinesDiffer
    <3>2. n = s
      BY <1>2, <3>1, CoroutinesDiffer
    <3>3. began[n] <= t /\ t <= currentTerm[n]
      BY <3>1 DEF ElectionInv, VotesAwaited, t
    <3>4. t = began[n]
      BY <1>2, <2>1, <2>3, <3>3
    <3> QED BY <1>5, <3>1, <3>2, <3>4
  <2> QED BY <1>5, <2>1, <2>2, <2>3
<1>10. VotesAwaited'
  <2> SUFFICES ASSUME NEW l \in waiting, NEW n \in Server, l.by = Election(n)
               PROVE  /\ l.src = n /\ Election(n) \in active
                      /\ began[n] <= l.term /\ l.term <= currentTerm'[n]
    BY <1>3 DEF VotesAwaited
  <2>1. l.src = n /\ Election(n) \in active /\ began[n] <= l.term /\ l.term <= currentTerm[n]
    BY DEF ElectionInv, VotesAwaited
  <2>2. l.term \in Nat /\ currentTerm[n] \in Nat
    BY <1>1 DEF TypeInv, TypeOK, Message
  <2> QED BY <1>5, <2>1, <2>2
<1>11. Elected'
  BY <1>3, <1>5 DEF ElectionInv, Elected
<1> QED BY <1>7, <1>8, <1>9, <1>10, <1>11 DEF ElectionInv

LEMMA RestartVotes ==
  ASSUME TypeInv, ElectionInv, NEW n \in Server, Restart(n) PROVE ElectionInv'
<1>1. /\ UNCHANGED <<began, votes, won>> /\ restarted' = restarted \cup {n}
      /\ active' = active \ CoroutinesOf(n) /\ Election(n) \in CoroutinesOf(n)
      /\ waiting' = {m \in waiting : m.src # n}
  BY DEF Restart, history, CoroutinesOf
<1>2. \A k \in Server \ {n} : currentTerm'[k] = currentTerm[k] /\ votedFor'[k] = votedFor[k]
  BY DEF Restart, TypeInv, TypeOK
<1>3. \A k \in Server \ {n} : acks'[Election(k)] = acks[Election(k)]
  BY CoroutinesDiffer DEF Restart, CoroutinesOf
<1>4. VotesNow' /\ VoteOncePerTerm' /\ Elected'
  <2>1. \A v \in votes : v[2] \in Server
    BY DEF TypeInv, TypeOK
  <2> QED BY <1>1, <1>2, <2>1 DEF ElectionInv, VotesNow, VoteOncePerTerm, Elected
<1>5. VotesCounted'
  BY <1>1, <1>2, <1>3 DEF ElectionInv, VotesCounted
<1>6. VotesAwaited'
  <2> SUFFICES ASSUME NEW l \in waiting', NEW k \in Server, l.by = Election(k)
               PROVE  /\ l.src = k /\ Election(k) \in active'
                      /\ began'[k] <= l.term /\ l.term <= currentTerm'[k]
    BY DEF VotesAwaited
  <2>1. l \in waiting /\ l.src # n
    BY <1>1
  <2>2. l.src = k /\ Election(k) \in active /\ began[k] <= l.term /\ l.term <= currentTerm[k]
    BY <2>1 DEF ElectionInv, VotesAwaited
  <2>3. Election(k) \notin CoroutinesOf(n)
    BY <2>1, <2>2, CoroutinesDiffer DEF CoroutinesOf
  <2> QED BY <1>1, <1>2, <2>1, <2>2, <2>3
<1> QED BY <1>4, <1>5, <1>6 DEF ElectionInv

\* Steps that leave votes and terms alone.
LEMMA QuietStepsVotes ==
  ASSUME TypeInv, ElectionInv,
         \/ \E n \in Server : SendVoteRequest(n) \/ StartRound(n) \/ SendHeartbeat(n)
         \/ \E n \in Server, c \in Cmds : Submit(n, c)
         \/ \E c \in Cmds : SendAppend(c) \/ FinishSubmit(c)
         \/ \E m \in net, answered \in BOOLEAN : HandleAppendEntries(m, answered)
         \/ \E m \in waiting : Retry(m) \/ GiveUp(m)
  PROVE  ElectionInv'
<1>1. ASSUME NEW n \in Server, SendVoteRequest(n) PROVE ElectionInv'
  <2>1. PICK p \in Server : Continue(Election(n), p, VoteRequest(n, p, currentTerm[n]))
    BY <1>1 DEF SendVoteRequest
  <2> DEFINE m == VoteRequest(n, p, currentTerm[n])
  <2>2. waiting' = waiting \cup {m} /\ UNCHANGED <<active, acks>> /\ Election(n) \in active
        /\ UNCHANGED <<currentTerm, votedFor, began, votes, won, restarted>>
    BY <1>1, <2>1 DEF Continue, Send, SendVoteRequest, node, history
  <2>3. m.src = n /\ m.by = Election(n) /\ m.term = currentTerm[n]
    BY DEF VoteRequest
  <2> HIDE DEF m
  <2>4. ASSUME NEW l \in waiting', NEW k \in Server, l.by = Election(k)
        PROVE  \/ \E o \in waiting : o.by = l.by /\ o.src = l.src /\ o.term = l.term
               \/ l.src = k /\ Election(k) \in active /\ l.term = currentTerm[k]
    BY <2>2, <2>3, <2>4, CoroutinesDiffer
  <2> QED BY <2>2, <2>4, QuietElection
<1>2. ASSUME NEW n \in Server, StartRound(n) \/ SendHeartbeat(n) PROVE ElectionInv'
  <2>1. PICK p \in Server : \/ Begin(Heartbeat(n), n, p, BeatRequest(n, p))
                            \/ Continue(Heartbeat(n), p, BeatRequest(n, p))
    BY <1>2 DEF StartRound, SendHeartbeat
  <2> DEFINE m == BeatRequest(n, p)
  <2>2. waiting' = waiting \cup {m} /\ m.by = Heartbeat(n)
    BY <2>1 DEF Begin, Continue, Send, BeatRequest
  <2>3. \A k \in Server : acks'[Election(k)] = acks[Election(k)]
    BY <2>1, CoroutinesDiffer DEF Begin, Continue, TypeInv, TypeOK
  <2>4. UNCHANGED <<active, currentTerm, votedFor, began, votes, won, restarted>>
    BY <1>2, <2>1 DEF Continue, StartRound, SendHeartbeat, node, history
  <2> HIDE DEF m
  <2>5. \A l \in waiting', k \in Server : l.by = Election(k) => l \in waiting
    BY <2>2, CoroutinesDiffer
  <2> QED BY <2>3, <2>4, <2>5, QuietElection
<1>3. ASSUME NEW n \in Server, NEW c \in Cmds, Submit(n, c) PROVE ElectionInv'
  <2>1. PICK m : m.by = Submission(c) /\ waiting' = waiting \cup {m}
                 /\ acks' = [acks EXCEPT ![Submission(c)] = {n}]
    BY <1>3 DEF Submit, Begin, Send, AppendRequest
  <2>2. \A k \in Server : acks'[Election(k)] = acks[Election(k)]
    BY <2>1, CoroutinesDiffer DEF TypeInv, TypeOK
  <2>3. active' = active \cup {Submission(c)}
        /\ UNCHANGED <<currentTerm, votedFor, began, votes, won, restarted>>
    BY <1>3 DEF Submit
  <2>4. \A l \in waiting', k \in Server : l.by = Election(k) => l \in waiting
    BY <2>1, CoroutinesDiffer
  <2> QED BY <2>2, <2>3, <2>4, QuietElection, CoroutinesDiffer
<1>4. ASSUME NEW c \in Cmds, SendAppend(c) PROVE ElectionInv'
  <2>1. PICK m : m.by = Submission(c) /\ waiting' = waiting \cup {m} /\ UNCHANGED <<active, acks>>
    BY <1>4 DEF SendAppend, Continue, Send, AppendRequest
  <2>2. UNCHANGED <<currentTerm, votedFor, began, votes, won, restarted>>
    BY <1>4 DEF SendAppend, node, history
  <2>3. \A l \in waiting', k \in Server : l.by = Election(k) => l \in waiting
    BY <2>1, CoroutinesDiffer
  <2> QED BY <2>1, <2>2, <2>3, QuietElection
<1>5. ASSUME NEW c \in Cmds, FinishSubmit(c) PROVE ElectionInv'
  <2>1. active' = active \ {Submission(c)} /\ UNCHANGED <<acks, waiting>>
        /\ UNCHANGED <<currentTerm, votedFor, began, votes, won, restarted>>
    BY <1>5 DEF FinishSubmit, wire, history
  <2> QED BY <2>1, QuietElection, CoroutinesDiffer
<1>6. ASSUME NEW m \in net, NEW answered \in BOOLEAN, HandleAppendEntries(m, answered)
      PROVE  ElectionInv'
  <2>1. PICK ok \in BOOLEAN : Reply(m, ok, answered)
    BY AppendHandled, <1>6 DEF TypeInv
  <2>2. UNCHANGED <<currentTerm, votedFor, history, restarted>>
    BY AppendHandled, <1>6 DEF TypeInv
  <2>3. /\ waiting' \subseteq waiting /\ UNCHANGED active
        /\ \/ acks' = acks
           \/ m \in waiting /\ acks' = [acks EXCEPT ![m.by] = @ \cup {m.dst}]
    BY <2>1, ReplyEffect
  <2>4. ASSUME NEW k \in Server PROVE acks'[Election(k)] = acks[Election(k)]
    <3>1. m \in waiting => m.by # Election(k)
      BY <1>6 DEF ElectionInv, VotesAwaited, HandleAppendEntries
    <3> QED BY <2>3, <3>1, CoroutinesDiffer DEF TypeInv, TypeOK
  <2> QED BY <2>2, <2>3, <2>4, QuietElection DEF history
<1>7. ASSUME NEW m \in waiting, Retry(m) PROVE ElectionInv'
  <2> DEFINE again == [m EXCEPT !.attempt = @ + 1]
  <2>1. waiting' = (waiting \ {m}) \cup {again}
        /\ UNCHANGED <<active, acks, currentTerm, votedFor, began, votes, won, restarted>>
    BY <1>7 DEF Retry, node, calls
  <2>2. again.by = m.by /\ again.src = m.src /\ again.term = m.term
    <3>1. m \in Message
      BY DEF TypeInv, TypeOK
    <3> QED BY <3>1 DEF Message
  <2> HIDE DEF again
  <2>3. \A l \in waiting' : \E o \in waiting : o.by = l.by /\ o.src = l.src /\ o.term = l.term
    BY <2>1, <2>2
  <2> QED BY <2>1, <2>3, QuietElection
<1>8. ASSUME NEW m \in waiting, GiveUp(m) PROVE ElectionInv'
  <2>1. waiting' \subseteq waiting
        /\ UNCHANGED <<active, acks, currentTerm, votedFor, began, votes, won, restarted>>
    BY <1>8 DEF GiveUp, node, calls, history
  <2> QED BY <2>1, QuietElection
<1> QED BY <1>1, <1>2, <1>3, <1>4, <1>5, <1>6, <1>7, <1>8

LEMMA StepElection == ASSUME TypeInv, ElectionInv, [Next]_vars PROVE ElectionInv'
<1>1. CASE UNCHANGED vars
  BY <1>1, QuietElection DEF vars, node, calls, wire, history
<1>2. ASSUME NEW n \in Server, StartElection(n) \/ FinishElection(n) \/ Restart(n)
      PROVE  ElectionInv'
  BY <1>2, StartElectionVotes, FinishElectionVotes, RestartVotes
<1>3. ASSUME NEW m \in net, NEW answered \in BOOLEAN, HandleRequestVote(m, answered)
      PROVE  ElectionInv'
  BY <1>3, HandleRequestVoteVotes
<1> QED BY <1>1, <1>2, <1>3, QuietStepsVotes DEF Next

\* Two majorities share a node, which voted for both.
LEMMA ElectionsAreSafe == ElectionInv => CleanElectionSafety
<1> SUFFICES ASSUME ElectionInv, NEW v \in won, NEW w \in won, v[1] = w[1], v[2] # w[2]
             PROVE  \E p \in restarted : <<v[1], p, v[2]>> \in votes /\ <<v[1], p, w[2]>> \in votes
  BY DEF CleanElectionSafety
<1>1. PICK Q \in SUBSET Server : Majority(Q) /\ \A q \in Q : <<v[1], q, v[2]>> \in votes
  BY DEF ElectionInv, Elected
<1>2. PICK R \in SUBSET Server : Majority(R) /\ \A q \in R : <<w[1], q, w[2]>> \in votes
  BY DEF ElectionInv, Elected
<1>3. PICK p \in Q \cap R : TRUE
  <2>1. Cardinality(Q) \in Nat /\ Cardinality(R) \in Nat
    BY ServerFacts, FS_Subset, FS_CardinalityType
  <2>2. 2 * Cardinality(Q) > N /\ 2 * Cardinality(R) > N /\ N \in Nat
    BY <1>1, <1>2, NAssumption DEF Majority
  <2>3. Cardinality(Q) + Cardinality(R) > N
    BY <2>1, <2>2
  <2> QED BY <2>3, ServerFacts, FS_MajoritiesIntersect
<1>4. <<v[1], p, v[2]>> \in votes /\ <<v[1], p, w[2]>> \in votes
  BY <1>1, <1>2, <1>3
<1>5. p \in restarted
  BY <1>4 DEF ElectionInv, VoteOncePerTerm
<1> QED BY <1>4, <1>5

\* Nobody votes for two candidates in one term unless its process was replaced
\* (raft.py:42, 147-150), for any number of nodes, terms, retries and restarts.
THEOREM RaftVoteOncePerTerm == Spec => []VoteOncePerTerm
<1>1. Init => TypeInv /\ ElectionInv
  BY InitType, InitElection
<1>2. TypeInv /\ ElectionInv /\ [Next]_vars => TypeInv' /\ ElectionInv'
  BY StepType, StepElection
<1>3. ElectionInv => VoteOncePerTerm
  BY DEF ElectionInv
<1> QED BY <1>1, <1>2, <1>3, PTL DEF Spec

\* Two elections of one term won with the term unchanged have a voter in common
\* that was replaced in between (raft.py:61-77).
THEOREM RaftCleanElectionSafety == Spec => []CleanElectionSafety
<1>1. Init => TypeInv /\ ElectionInv
  BY InitType, InitElection
<1>2. TypeInv /\ ElectionInv /\ [Next]_vars => TypeInv' /\ ElectionInv'
  BY StepType, StepElection
<1> QED BY <1>1, <1>2, ElectionsAreSafe, PTL DEF Spec

-----------------------------------------------------------------------------
(* Positions that are committed *)

\* A majority has position i in its logs, or had it and restarted.
HeldIn(lg, gone, i) ==
  \E Q \in SUBSET Server : Majority(Q) /\ \A q \in Q \ gone : Len(lg[q]) >= i

AppliedHeld == \A n \in Server : HeldIn(log, restarted, lastApplied[n])
CommitsHeld == \A m \in net \cup waiting : HeldIn(log, restarted, m.commit)

\* Who acked a submission has its position.
AcksHeld ==
  \A c \in Cmds : Submission(c) \in active =>
    \A p \in acks[Submission(c)] \ restarted : Len(log[p]) >= at[c].index

\* An append asks for the position of its submission.
Asks(m, c) ==
  /\ Submission(c) \in active /\ m.src = at[c].node
  /\ m.index + 1 = at[c].index /\ Len(m.entries) = 1
AppendsAwaited == \A m \in waiting, c \in Cmds : m.by = Submission(c) => Asks(m, c)

CommitInv == AppliedWithinLog /\ AppliedHeld /\ CommitsHeld /\ AcksHeld /\ AppendsAwaited

LEMMA AllAreMajority == Majority(Server)
BY ServerFacts, NAssumption DEF Majority

LEMMA CommitOfMessage == \A m \in Message : m.commit \in Nat /\ m.commit <= m.commit
<1> SUFFICES ASSUME NEW m \in Message PROVE m.commit \in Nat /\ m.commit <= m.commit
  OBVIOUS
<1>1. m.commit \in Nat
  BY DEF Message
<1> QED BY <1>1

LEMMA ZeroIsHeld ==
  ASSUME NEW lg \in [Server -> Seq(Entry)], NEW gone PROVE HeldIn(lg, gone, 0)
<1>1. \A q \in Server : Len(lg[q]) \in Nat
  OBVIOUS
<1> QED BY <1>1, AllAreMajority DEF HeldIn

\* Logs only grow, but for those of nodes that restarted.
LEMMA HeldStays ==
  ASSUME NEW lg \in [Server -> Seq(Entry)], NEW lh \in [Server -> Seq(Entry)],
         NEW gone, NEW gonh, gone \subseteq gonh,
         \A q \in Server \ gonh : Len(lh[q]) >= Len(lg[q]),
         NEW i \in Nat, NEW j \in Nat, i <= j, HeldIn(lg, gone, j)
  PROVE  HeldIn(lh, gonh, i)
<1>1. \A q \in Server : Len(lg[q]) \in Nat /\ Len(lh[q]) \in Nat
  OBVIOUS
<1>2. PICK Q \in SUBSET Server : Majority(Q) /\ \A q \in Q \ gone : Len(lg[q]) >= j
  BY DEF HeldIn
<1>3. ASSUME NEW q \in Q \ gonh PROVE Len(lh[q]) >= i
  <2>1. Len(lh[q]) >= Len(lg[q]) /\ Len(lg[q]) >= j /\ Len(lg[q]) \in Nat /\ Len(lh[q]) \in Nat
    BY <1>1, <1>2
  <2> QED BY <2>1
<1> QED BY <1>2, <1>3 DEF HeldIn

\* Steps that leave logs, commit indexes and submissions alone.
LEMMA QuietCommit ==
  ASSUME TypeInv, CommitInv,
         UNCHANGED <<log, commitIndex, lastApplied, restarted, at>>,
         \A m \in net' \cup waiting' : HeldIn(log, restarted, m.commit),
         \A c \in Cmds : /\ Submission(c) \in active' <=> Submission(c) \in active
                         /\ acks'[Submission(c)] = acks[Submission(c)],
         \A m \in waiting', c \in Cmds : m.by = Submission(c) => Asks(m, c)
  PROVE  CommitInv'
<1>1. AppliedWithinLog' /\ AppliedHeld' /\ CommitsHeld'
  BY DEF CommitInv, AppliedWithinLog, AppliedHeld, CommitsHeld
<1>2. AcksHeld'
  BY DEF CommitInv, AcksHeld
<1>3. AppendsAwaited'
  BY DEF CommitInv, AppendsAwaited, Asks
<1> QED BY <1>1, <1>2, <1>3 DEF CommitInv

LEMMA InitCommit == Init => CommitInv
<1> SUFFICES ASSUME Init PROVE CommitInv
  OBVIOUS
<1>1. log \in [Server -> Seq(Entry)] /\ \A n \in Server : Len(log[n]) = 0
  BY InitType DEF Init, TypeInv, TypeOK
<1>2. AppliedHeld
  BY <1>1, ZeroIsHeld DEF Init, AppliedHeld
<1>3. AppliedWithinLog /\ CommitsHeld /\ AcksHeld /\ AppendsAwaited
  BY <1>1 DEF Init, AppliedWithinLog, CommitsHeld, AcksHeld, AppendsAwaited
<1> QED BY <1>2, <1>3 DEF CommitInv

\* The commit index a node sends.
LEMMA CommitIsHeld ==
  ASSUME TypeInv, CommitInv, NEW n \in Server PROVE HeldIn(log, restarted, commitIndex[n])
<1>1. commitIndex[n] \in Nat /\ lastApplied[n] \in Nat /\ log \in [Server -> Seq(Entry)]
  BY DEF TypeInv, TypeOK
<1>2. \A q \in Server \ restarted : Len(log[q]) >= Len(log[q])
  BY <1>1
<1>3. commitIndex[n] <= lastApplied[n] /\ HeldIn(log, restarted, lastApplied[n])
  BY DEF CommitInv, AppliedWithinLog, AppliedHeld
<1> QED BY <1>1, <1>2, <1>3, HeldStays

LEMMA QuietStepsCommit ==
  ASSUME TypeInv, CommitInv,
         \/ \E n \in Server : \/ StartElection(n) \/ SendVoteRequest(n) \/ FinishElection(n)
                              \/ StartRound(n) \/ SendHeartbeat(n)
         \/ \E m \in net, answered \in BOOLEAN : HandleRequestVote(m, answered)
         \/ \E m \in waiting : Retry(m) \/ GiveUp(m)
  PROVE  CommitInv'
<1>1. ASSUME NEW n \in Server, StartElection(n) \/ SendVoteRequest(n) \/ StartRound(n) \/ SendHeartbeat(n)
      PROVE  CommitInv'
  <2>1. PICK k, p, m :
          /\ k \in {Election(n), Heartbeat(n)}
          /\ m.by = k /\ m.commit \in {0, commitIndex[n]}
          /\ Begin(k, n, p, m) \/ Continue(k, p, m)
    <3>1. CASE StartElection(n) \/ SendVoteRequest(n)
      <4>1. PICK p \in Server, t \in {currentTerm[n], currentTerm[n] + 1} :
              \/ Begin(Election(n), n, p, VoteRequest(n, p, t))
              \/ Continue(Election(n), p, VoteRequest(n, p, t))
        BY <3>1 DEF StartElection, SendVoteRequest
      <4>2. VoteRequest(n, p, t).by = Election(n) /\ VoteRequest(n, p, t).commit = 0
        BY DEF VoteRequest
      <4> QED BY <4>1, <4>2
    <3>2. CASE StartRound(n) \/ SendHeartbeat(n)
      <4>1. PICK p \in Server : \/ Begin(Heartbeat(n), n, p, BeatRequest(n, p))
                                \/ Continue(Heartbeat(n), p, BeatRequest(n, p))
        BY <3>2 DEF StartRound, SendHeartbeat
      <4>2. BeatRequest(n, p).by = Heartbeat(n) /\ BeatRequest(n, p).commit = commitIndex[n]
        BY DEF BeatRequest
      <4> QED BY <4>1, <4>2
    <3> QED BY <1>1, <3>1, <3>2
  <2>2. HeldIn(log, restarted, m.commit)
    <3>1. HeldIn(log, restarted, 0)
      BY ZeroIsHeld DEF TypeInv, TypeOK
    <3>2. HeldIn(log, restarted, commitIndex[n])
      BY CommitIsHeld
    <3> QED BY <2>1, <3>1, <3>2
  <2>3. /\ net' = net \cup {m} /\ waiting' = waiting \cup {m}
        /\ acks' = acks \/ acks' = [acks EXCEPT ![k] = {n}]
    BY <2>1 DEF Begin, Continue, Send
  <2>4. UNCHANGED <<log, commitIndex, lastApplied, restarted, at>>
    BY <1>1, <2>1 DEF StartElection, SendVoteRequest, StartRound, SendHeartbeat, Continue, node
  <2>5. \A c \in Cmds : Submission(c) \in active' <=> Submission(c) \in active
    <3>1. active' = active \/ active' = active \cup {Election(n)}
      BY <1>1 DEF StartElection, SendVoteRequest, StartRound, SendHeartbeat, Continue
    <3> QED BY <3>1, CoroutinesDiffer
  <2>6. \A c \in Cmds : k # Submission(c) /\ acks'[Submission(c)] = acks[Submission(c)]
    BY <2>1, <2>3, CoroutinesDiffer DEF TypeInv, TypeOK
  <2>7. \A l \in waiting', c \in Cmds : l.by = Submission(c) => Asks(l, c)
    BY <2>1, <2>3, <2>6 DEF CommitInv, AppendsAwaited
  <2>8. \A l \in net' \cup waiting' : HeldIn(log, restarted, l.commit)
    BY <2>2, <2>3 DEF CommitInv, CommitsHeld
  <2> QED BY <2>4, <2>5, <2>6, <2>7, <2>8, QuietCommit
<1>2. ASSUME NEW n \in Server, FinishElection(n) PROVE CommitInv'
  <2>1. /\ UNCHANGED <<log, commitIndex, lastApplied, restarted, at, acks, net>>
        /\ active' = active \ {Election(n)} /\ waiting' \subseteq waiting
    BY <1>2 DEF FinishElection
  <2>2. \A c \in Cmds : Submission(c) \in active' <=> Submission(c) \in active
    BY <2>1, CoroutinesDiffer
  <2>3. \A l \in waiting', c \in Cmds : l.by = Submission(c) => Asks(l, c)
    BY <2>1 DEF CommitInv, AppendsAwaited
  <2>4. \A l \in net' \cup waiting' : HeldIn(log, restarted, l.commit)
    BY <2>1 DEF CommitInv, CommitsHeld
  <2> QED BY <2>1, <2>2, <2>3, <2>4, QuietCommit
<1>3. ASSUME NEW m \in net, NEW answered \in BOOLEAN, HandleRequestVote(m, answered)
      PROVE  CommitInv'
  <2>1. PICK ok : Reply(m, ok, answered)
    BY <1>3 DEF HandleRequestVote
  <2>2. m.by = Election(m.src) /\ m.src \in Server
        /\ UNCHANGED <<log, commitIndex, lastApplied, restarted, at, active>>
    BY <1>3, <2>1 DEF HandleRequestVote, Reply, TypeInv, TypeOK, Message
  <2>3. /\ waiting' \subseteq waiting /\ net' = net \ {m}
        /\ acks' = acks \/ acks' = [acks EXCEPT ![m.by] = @ \cup {m.dst}]
    BY <2>1, ReplyEffect
  <2>4. \A c \in Cmds : acks'[Submission(c)] = acks[Submission(c)]
    BY <2>2, <2>3, CoroutinesDiffer DEF TypeInv, TypeOK
  <2>5. \A l \in waiting', c \in Cmds : l.by = Submission(c) => Asks(l, c)
    BY <2>3 DEF CommitInv, AppendsAwaited
  <2>6. \A l \in net' \cup waiting' : HeldIn(log, restarted, l.commit)
    BY <2>3 DEF CommitInv, CommitsHeld
  <2> QED BY <2>2, <2>4, <2>5, <2>6, QuietCommit
<1>4. ASSUME NEW m \in waiting, Retry(m) \/ GiveUp(m) PROVE CommitInv'
  <2> DEFINE again == [m EXCEPT !.attempt = @ + 1]
  <2>1. /\ UNCHANGED <<log, commitIndex, lastApplied, restarted, at, active, acks>>
        /\ net' \subseteq net \cup {again} /\ waiting' \subseteq waiting \cup {again}
    BY <1>4 DEF Retry, GiveUp, node, calls
  <2>2. /\ again.by = m.by /\ again.src = m.src /\ again.index = m.index
        /\ again.entries = m.entries /\ again.commit = m.commit
    <3>1. m \in Message
      BY DEF TypeInv, TypeOK
    <3> QED BY <3>1 DEF Message
  <2> HIDE DEF again
  <2>3. \A l \in waiting', c \in Cmds : l.by = Submission(c) => Asks(l, c)
    BY <2>1, <2>2 DEF CommitInv, AppendsAwaited, Asks
  <2>4. \A l \in net' \cup waiting' : HeldIn(log, restarted, l.commit)
    BY <2>1, <2>2 DEF CommitInv, CommitsHeld
  <2> QED BY <2>1, <2>3, <2>4, QuietCommit
<1> QED BY <1>1, <1>2, <1>3, <1>4

LEMMA SubmitCommit ==
  ASSUME TypeInv, TypeInv', CommitInv, NEW n \in Server, NEW c \in Cmds, Submit(n, c)
  PROVE  CommitInv'
<1> DEFINE lg == Append(log[n], [term |-> currentTerm[n], cmd |-> c])
<1>1. PICK p \in Server :
        Begin(Submission(c), n, p, AppendRequest(c, n, Len(lg), p, lg))
  BY DEF Submit
<1> DEFINE m == AppendRequest(c, n, Len(lg), p, lg)
<1>2. lg \in Seq(Entry) /\ Len(lg) = Len(log[n]) + 1 /\ Len(log[n]) \in Nat
  <2>1. log[n] \in Seq(Entry) /\ [term |-> currentTerm[n], cmd |-> c] \in Entry
    BY DEF TypeInv, TypeOK, Entry
  <2> QED BY <2>1
<1>3. /\ m.by = Submission(c) /\ m.src = n /\ m.index = Len(lg) - 1
      /\ Len(m.entries) = 1 /\ m.commit = commitIndex[n]
  BY DEF AppendRequest
<1> HIDE DEF lg, m
<1>4. /\ log' = [log EXCEPT ![n] = lg]
      /\ at' = [at EXCEPT ![c] = [node |-> n, index |-> Len(lg)]] /\ at[c].node = None
      /\ active' = active \cup {Submission(c)}
      /\ UNCHANGED <<commitIndex, lastApplied, restarted>>
  BY DEF Submit, lg
<1>5. /\ acks' = [acks EXCEPT ![Submission(c)] = {n}]
      /\ net' = net \cup {m} /\ waiting' = waiting \cup {m}
  BY <1>1 DEF Begin, Send, m
<1>6. /\ log \in [Server -> Seq(Entry)] /\ log' \in [Server -> Seq(Entry)]
      /\ lastApplied \in [Server -> Nat] /\ commitIndex \in [Server -> Nat]
      /\ acks \in [Coroutine -> SUBSET Server]
      /\ at \in [Cmds -> [node : Server \cup {None}, index : Nat]]
      /\ net \in SUBSET Message /\ waiting \in SUBSET Message
  BY DEF TypeInv, TypeOK
<1>7. \A q \in Server : /\ Len(log[q]) \in Nat /\ Len(log'[q]) \in Nat
                        /\ Len(log'[q]) >= Len(log[q])
  <2>1. \A q \in Server : log'[q] = IF q = n THEN lg ELSE log[q]
    BY <1>4, <1>6
  <2>2. \A q \in Server : Len(log[q]) \in Nat
    BY <1>6
  <2> QED BY <1>2, <2>1, <2>2
<1>8. Submission(c) \notin active
  <2>1. at[c].node \notin Server
    BY <1>4, ServerFacts
  <2> QED BY <2>1 DEF TypeInv, IndexesInLog
<1>9. ASSUME NEW i \in Nat, HeldIn(log, restarted, i) PROVE HeldIn(log', restarted', i)
  <2>1. restarted \subseteq restarted' /\ i <= i
    BY <1>4
  <2>2. \A q \in Server \ restarted' : Len(log'[q]) >= Len(log[q])
    BY <1>7
  <2> QED BY <1>6, <1>9, <2>1, <2>2, HeldStays
<1>10. AppliedWithinLog'
  BY <1>4, <1>6, <1>7 DEF CommitInv, AppliedWithinLog
<1>11. AppliedHeld'
  BY <1>4, <1>6, <1>9 DEF CommitInv, AppliedHeld
<1>12. CommitsHeld'
  <2>1. HeldIn(log, restarted, m.commit) /\ m.commit \in Nat
    BY <1>3, <1>6, CommitIsHeld
  <2>2. \A l \in net \cup waiting : l.commit \in Nat
    BY <1>6, CommitOfMessage
  <2> QED BY <1>5, <1>9, <2>1, <2>2 DEF CommitInv, CommitsHeld
<1>13. AcksHeld'
  <2> SUFFICES ASSUME NEW d \in Cmds, Submission(d) \in active',
                      NEW q \in acks'[Submission(d)] \ restarted
               PROVE  Len(log'[q]) >= at'[d].index
    BY <1>4 DEF AcksHeld
  <2>1. CASE d = c
    <3>1. q = n /\ at'[c].index = Len(lg) /\ log'[n] = lg
      BY <1>4, <1>5, <1>6, <2>1, CoroutinesDiffer
    <3> QED BY <1>2, <2>1, <3>1
  <2>2. CASE d # c
    <3>1. Submission(d) \in active /\ q \in acks[Submission(d)] /\ at'[d] = at[d]
      BY <1>4, <1>5, <1>6, <2>2, CoroutinesDiffer
    <3>2. Len(log[q]) >= at[d].index /\ q \in Server /\ at[d].index \in Nat
      BY <1>6, <3>1, CoroutinesDiffer DEF CommitInv, AcksHeld
    <3> QED BY <1>7, <3>1, <3>2
  <2> QED BY <2>1, <2>2
<1>14. AppendsAwaited'
  <2> SUFFICES ASSUME NEW l \in waiting', NEW d \in Cmds, l.by = Submission(d)
               PROVE  Asks(l, d)'
    BY DEF AppendsAwaited, Asks
  <2>1. CASE l = m
    <3>1. d = c
      BY <1>3, <2>1, CoroutinesDiffer
    <3>2. at'[c].node = n /\ at'[c].index = Len(lg)
      BY <1>4, <1>6
    <3> QED BY <1>2, <1>3, <1>4, <2>1, <3>1, <3>2 DEF Asks
  <2>2. CASE l \in waiting
    <3>1. Asks(l, d)
      BY <2>2 DEF CommitInv, AppendsAwaited
    <3>2. d # c
      BY <1>8, <3>1 DEF Asks
    <3> QED BY <1>4, <1>6, <3>1, <3>2 DEF Asks
  <2> QED BY <1>5, <2>1, <2>2
<1> QED BY <1>10, <1>11, <1>12, <1>13, <1>14 DEF CommitInv

LEMMA SendAppendCommit ==
  ASSUME TypeInv, CommitInv, NEW c \in Cmds, SendAppend(c) PROVE CommitInv'
<1> DEFINE n == at[c].node
<1>1. PICK p \in Server :
        Continue(Submission(c), p, AppendRequest(c, n, at[c].index, p, log[n]))
  BY DEF SendAppend
<1> DEFINE m == AppendRequest(c, n, at[c].index, p, log[n])
<1>2. /\ m.by = Submission(c) /\ m.src = n /\ m.index = at[c].index - 1
      /\ Len(m.entries) = 1 /\ m.commit = commitIndex[n]
  BY DEF AppendRequest
<1>3. n \in Server /\ at[c].index \in Nat /\ Submission(c) \in active
  BY DEF SendAppend, TypeInv, TypeOK, IndexesInLog
<1> HIDE DEF m
<1>4. /\ net' = net \cup {m} /\ waiting' = waiting \cup {m} /\ UNCHANGED <<active, acks, at>>
      /\ UNCHANGED <<log, commitIndex, lastApplied, restarted>>
  BY <1>1 DEF SendAppend, Continue, Send, node, m
<1>5. Asks(m, c)
  BY <1>2, <1>3 DEF Asks
<1> HIDE DEF n
<1>6. \A l \in waiting', d \in Cmds : l.by = Submission(d) => Asks(l, d)
  BY <1>2, <1>4, <1>5, CoroutinesDiffer DEF CommitInv, AppendsAwaited
<1>7. \A l \in net' \cup waiting' : HeldIn(log, restarted, l.commit)
  BY <1>2, <1>3, <1>4, CommitIsHeld DEF CommitInv, CommitsHeld
<1> QED BY <1>4, <1>6, <1>7, QuietCommit

LEMMA AppliedIsLarger ==
  ASSUME TypeOK, NEW p \in Server, NEW i \in Nat
  PROVE  /\ Applied(p, i) \in Nat /\ Applied(p, i) >= i
         /\ Applied(p, i) \in {i, lastApplied[p]}
<1>1. lastApplied[p] \in Nat
  BY DEF TypeOK
<1> QED BY <1>1 DEF Applied

LEMMA FinishSubmitCommit ==
  ASSUME TypeInv, CommitInv, NEW c \in Cmds, FinishSubmit(c) PROVE CommitInv'
<1> DEFINE n == at[c].node
           i == at[c].index
<1>1. /\ Submission(c) \in active /\ active' = active \ {Submission(c)}
      /\ ~Suspended(Submission(c)) /\ UNCHANGED <<log, acks, at, net, waiting, restarted>>
  BY DEF FinishSubmit, Done, wire
<1>2. \/ UNCHANGED <<commitIndex, lastApplied>>
      \/ /\ Enough(acks[Submission(c)])
         /\ commitIndex' = [commitIndex EXCEPT ![n] = i]
         /\ lastApplied' = [lastApplied EXCEPT ![n] = Applied(n, i)]
  BY DEF FinishSubmit
<1>3. n \in Server /\ i \in Nat /\ i <= Len(log[n])
  BY <1>1 DEF TypeInv, TypeOK, IndexesInLog
<1>4. lastApplied \in [Server -> Nat] /\ commitIndex \in [Server -> Nat]
  BY DEF TypeInv, TypeOK
<1>5. Applied(n, i) >= i /\ Applied(n, i) \in {i, lastApplied[n]}
  BY <1>3, AppliedIsLarger DEF TypeInv
<1>6. Enough(acks[Submission(c)]) => HeldIn(log, restarted, i)
  <2> SUFFICES ASSUME Enough(acks[Submission(c)]) PROVE HeldIn(log, restarted, i)
    OBVIOUS
  <2>1. acks[Submission(c)] \in SUBSET Server
    BY CoroutinesDiffer DEF TypeInv, TypeOK
  <2>2. Majority(acks[Submission(c)])
    BY <2>1, EnoughIsMajority
  <2>3. \A q \in acks[Submission(c)] \ restarted : Len(log[q]) >= i
    BY <1>1 DEF CommitInv, AcksHeld
  <2> QED BY <2>1, <2>2, <2>3 DEF HeldIn
<1> HIDE DEF n, i
<1>7. AppliedWithinLog'
  <2> SUFFICES ASSUME NEW q \in Server
               PROVE  commitIndex'[q] <= lastApplied'[q] /\ lastApplied'[q] <= Len(log[q])
    BY <1>1 DEF AppliedWithinLog
  <2>1. commitIndex[q] <= lastApplied[q] /\ lastApplied[q] <= Len(log[q])
    BY DEF CommitInv, AppliedWithinLog
  <2>2. CASE q # n
    BY <1>2, <1>4, <2>1, <2>2
  <2>3. CASE q = n
    BY <1>2, <1>3, <1>4, <1>5, <2>1, <2>3
  <2> QED BY <2>2, <2>3
<1>8. AppliedHeld'
  <2> SUFFICES ASSUME NEW q \in Server PROVE HeldIn(log, restarted, lastApplied'[q])
    BY <1>1 DEF AppliedHeld
  <2>1. HeldIn(log, restarted, lastApplied[q])
    BY DEF CommitInv, AppliedHeld
  <2> QED BY <1>2, <1>3, <1>4, <1>5, <1>6, <2>1
<1>9. CommitsHeld' /\ AcksHeld'
  BY <1>1 DEF CommitInv, CommitsHeld, AcksHeld
<1>10. AppendsAwaited'
  <2> SUFFICES ASSUME NEW l \in waiting, NEW d \in Cmds, l.by = Submission(d)
               PROVE  Asks(l, d)'
    BY <1>1 DEF AppendsAwaited, Asks
  <2>1. Asks(l, d) /\ d # c
    BY <1>1 DEF CommitInv, AppendsAwaited, Suspended
  <2> QED BY <1>1, <2>1, CoroutinesDiffer DEF Asks
<1> QED BY <1>7, <1>8, <1>9, <1>10 DEF CommitInv

LEMMA HandleAppendEntriesCommit ==
  ASSUME TypeInv, TypeInv', CommitInv, NEW m \in net, NEW answered \in BOOLEAN,
         HandleAppendEntries(m, answered)
  PROVE  CommitInv'
<1> DEFINE p == m.dst
           fc == FollowerCommit(p, m)
<1>1. PICK ok \in BOOLEAN :
        /\ p \in Server /\ m \in Message /\ Reply(m, ok, answered)
        /\ ok => Matches(p, m) /\ log' = [log EXCEPT ![p] = @ \o m.entries]
        /\ ~ok => UNCHANGED log
  BY AppendHandled DEF TypeInv
<1>2. \/ UNCHANGED <<commitIndex, lastApplied>>
      \/ /\ log' = [log EXCEPT ![p] = @ \o m.entries]
         /\ commitIndex' = [commitIndex EXCEPT ![p] = fc]
         /\ lastApplied' = [lastApplied EXCEPT ![p] = Applied(p, fc)]
  BY AppendHandled DEF TypeInv
<1>3. restarted' = restarted /\ at' = at /\ active' = active
  BY <1>1, AppendHandled DEF TypeInv, Reply
<1>4. /\ waiting' \subseteq waiting /\ net' = net \ {m}
      /\ \/ acks' = acks
         \/ ok /\ m \in waiting /\ acks' = [acks EXCEPT ![m.by] = @ \cup {p}]
  BY <1>1, ReplyEffect
<1>5. /\ log \in [Server -> Seq(Entry)] /\ log' \in [Server -> Seq(Entry)]
      /\ lastApplied \in [Server -> Nat] /\ commitIndex \in [Server -> Nat]
      /\ acks \in [Coroutine -> SUBSET Server]
      /\ at \in [Cmds -> [node : Server \cup {None}, index : Nat]]
      /\ net \in SUBSET Message /\ waiting \in SUBSET Message
  BY DEF TypeInv, TypeOK
<1>6. p \in Server /\ m.entries \in Seq(Entry) /\ m.commit \in Nat /\ m.index \in Nat
  BY <1>1 DEF Message
<1>7. fc \in Nat /\ fc <= m.commit /\ fc <= Len(log[p]) + Len(m.entries)
  BY <1>1, FollowerCommitIsLess DEF TypeInv
<1>8. Applied(p, fc) >= fc /\ Applied(p, fc) \in {fc, lastApplied[p]}
  BY <1>6, <1>7, AppliedIsLarger DEF TypeInv
<1>14. ok => (m.index > 0 => Len(log[p]) >= m.index)
  BY <1>1 DEF Matches
<1> HIDE DEF p, fc
<1>9. \A q \in Server : /\ Len(log[q]) \in Nat /\ Len(log'[q]) \in Nat
                        /\ Len(log'[q]) >= Len(log[q])
  <2>1. log' = log \/ log' = [log EXCEPT ![p] = @ \o m.entries]
    BY <1>1 DEF p
  <2> QED BY <1>5, <1>6, <2>1, LogExtended
<1>10. log' = [log EXCEPT ![p] = @ \o m.entries] =>
         Len(log'[p]) = Len(log[p]) + Len(m.entries) /\ Len(m.entries) \in Nat
  BY <1>5, <1>6, ConcatProperties
<1>11. ASSUME NEW i \in Nat, NEW j \in Nat, i <= j, HeldIn(log, restarted, j)
       PROVE  HeldIn(log', restarted', i)
  <2>1. restarted \subseteq restarted'
    BY <1>3
  <2>2. \A q \in Server \ restarted' : Len(log'[q]) >= Len(log[q])
    BY <1>9
  <2> QED BY <1>5, <1>11, <2>1, <2>2, HeldStays
<1>12. AppliedWithinLog'
  <2> SUFFICES ASSUME NEW q \in Server
               PROVE  commitIndex'[q] <= lastApplied'[q] /\ lastApplied'[q] <= Len(log'[q])
    BY DEF AppliedWithinLog
  <2>1. /\ commitIndex[q] <= lastApplied[q] /\ lastApplied[q] <= Len(log[q])
        /\ lastApplied[q] <= Len(log'[q]) /\ commitIndex[q] \in Nat /\ lastApplied[q] \in Nat
    <3>1. commitIndex[q] <= lastApplied[q] /\ lastApplied[q] <= Len(log[q])
      BY DEF CommitInv, AppliedWithinLog
    <3> QED BY <1>5, <1>9, <3>1
  <2>2. CASE q # p \/ UNCHANGED <<commitIndex, lastApplied>>
    BY <1>2, <1>5, <2>1, <2>2
  <2>3. CASE q = p /\ ~UNCHANGED <<commitIndex, lastApplied>>
    <3>1. commitIndex'[q] = fc /\ lastApplied'[q] = Applied(p, fc) /\ fc <= Len(log'[p])
      BY <1>2, <1>5, <1>7, <1>10, <2>3
    <3> QED BY <1>8, <2>1, <2>3, <3>1
  <2> QED BY <2>2, <2>3
<1>13. AppliedHeld'
  <2> SUFFICES ASSUME NEW q \in Server PROVE HeldIn(log', restarted', lastApplied'[q])
    BY DEF AppliedHeld
  <2>1. HeldIn(log', restarted', lastApplied[q])
    <3>1. lastApplied[q] \in Nat /\ lastApplied[q] <= lastApplied[q]
      BY <1>5
    <3> QED BY <1>11, <3>1 DEF CommitInv, AppliedHeld
  <2>2. HeldIn(log', restarted', fc)
    BY <1>6, <1>7, <1>11 DEF CommitInv, CommitsHeld
  <2>3. lastApplied'[q] \in {lastApplied[q], fc}
    BY <1>2, <1>5, <1>8
  <2> QED BY <2>1, <2>2, <2>3
<1>15. CommitsHeld'
  <2> SUFFICES ASSUME NEW l \in net \cup waiting PROVE HeldIn(log', restarted', l.commit)
    BY <1>4 DEF CommitsHeld
  <2>1. l \in Message
    BY <1>5
  <2>2. l.commit \in Nat /\ l.commit <= l.commit
    BY <2>1, CommitOfMessage
  <2> QED BY <1>11, <2>2 DEF CommitInv, CommitsHeld
<1>16. AcksHeld'
  <2> SUFFICES ASSUME NEW c \in Cmds, Submission(c) \in active,
                      NEW q \in acks'[Submission(c)] \ restarted
               PROVE  Len(log'[q]) >= at[c].index
    BY <1>3 DEF AcksHeld
  <2>1. at[c].index \in Nat
    BY <1>5
  <2>2. CASE q \in acks[Submission(c)]
    <3>1. Len(log[q]) >= at[c].index /\ q \in Server
      BY <1>5, <2>2, CoroutinesDiffer DEF CommitInv, AcksHeld
    <3> QED BY <1>9, <2>1, <3>1
  <2>3. CASE q \notin acks[Submission(c)]
    <3>1. ok /\ m \in waiting /\ m.by = Submission(c) /\ q = p
      <4>1. acks' # acks
        BY <2>3
      <4>2. ok /\ m \in waiting /\ acks' = [acks EXCEPT ![m.by] = @ \cup {p}]
        BY <1>4, <4>1
      <4>3. m.by = Submission(c) /\ q = p
        BY <1>5, <2>3, <4>2, CoroutinesDiffer
      <4> QED BY <4>2, <4>3
    <3>2. m.index + 1 = at[c].index /\ Len(m.entries) = 1
      BY <3>1 DEF CommitInv, AppendsAwaited, Asks
    <3>3. Len(log'[p]) = Len(log[p]) + 1
      BY <1>1, <1>10, <3>1, <3>2 DEF p
    <3> QED BY <1>6, <1>9, <1>14, <3>1, <3>2, <3>3
  <2> QED BY <2>2, <2>3
<1>17. AppendsAwaited'
  BY <1>3, <1>4 DEF CommitInv, AppendsAwaited, Asks
<1> QED BY <1>12, <1>13, <1>15, <1>16, <1>17 DEF CommitInv

LEMMA RestartCommit ==
  ASSUME TypeInv, TypeInv', CommitInv, NEW n \in Server, Restart(n) PROVE CommitInv'
<1>1. /\ log' = [log EXCEPT ![n] = <<>>]
      /\ commitIndex' = [commitIndex EXCEPT ![n] = 0]
      /\ lastApplied' = [lastApplied EXCEPT ![n] = 0]
      /\ active' = active \ CoroutinesOf(n) /\ at' = at
      /\ waiting' = {m \in waiting : m.src # n}
      /\ restarted' = restarted \cup {n}
  BY DEF Restart
<1>2. /\ log \in [Server -> Seq(Entry)] /\ log' \in [Server -> Seq(Entry)]
      /\ lastApplied \in [Server -> Nat] /\ commitIndex \in [Server -> Nat]
      /\ net \in SUBSET Message /\ waiting \in SUBSET Message
  BY DEF TypeInv, TypeOK
<1>3. /\ \A q \in Server \ {n} : /\ log'[q] = log[q] /\ lastApplied'[q] = lastApplied[q]
                                 /\ commitIndex'[q] = commitIndex[q]
      /\ commitIndex'[n] = 0 /\ lastApplied'[n] = 0
  BY <1>1, <1>2
<1>4. ASSUME NEW i \in Nat, HeldIn(log, restarted, i) PROVE HeldIn(log', restarted', i)
  <2>1. restarted \subseteq restarted' /\ i <= i
    BY <1>1
  <2>2. \A q \in Server \ restarted' : Len(log'[q]) >= Len(log[q])
    BY <1>1, <1>2, <1>3
  <2> QED BY <1>2, <1>4, <2>1, <2>2, HeldStays
<1>5. AppliedWithinLog'
  <2>1. Len(log'[n]) \in Nat
    BY <1>2
  <2> QED BY <1>3, <2>1 DEF CommitInv, AppliedWithinLog
<1>6. AppliedHeld'
  <2> SUFFICES ASSUME NEW q \in Server PROVE HeldIn(log', restarted', lastApplied'[q])
    BY DEF AppliedHeld
  <2>1. CASE q = n
    BY <1>2, <1>3, <2>1, ZeroIsHeld
  <2>2. CASE q # n
    BY <1>2, <1>3, <1>4, <2>2 DEF CommitInv, AppliedHeld
  <2> QED BY <2>1, <2>2
<1>7. CommitsHeld'
  <2> SUFFICES ASSUME NEW l \in net' \cup waiting' PROVE HeldIn(log', restarted', l.commit)
    BY DEF CommitsHeld
  <2>1. PICK o \in net \cup waiting : l.commit = o.commit
    <3>1. CASE l \in waiting \cup net
      BY <3>1
    <3>2. CASE l \notin waiting \cup net
      <4>1. PICK o \in net : l = [o EXCEPT !.attempt = 0]
        <5>1. net' = {o \in net : o.src # n /\ o.dst # n}
                       \cup {[o EXCEPT !.attempt = 0] : o \in {k \in net : k.src = n}}
          BY DEF Restart
        <5>2. l \in {[o EXCEPT !.attempt = 0] : o \in {k \in net : k.src = n}}
          BY <1>1, <3>2, <5>1
        <5> QED BY <5>2
      <4>2. o \in Message
        BY <1>2
      <4>3. l.commit = o.commit
        BY <4>1, <4>2 DEF Message
      <4> QED BY <4>3
    <3> QED BY <3>1, <3>2
  <2>2. o.commit \in Nat
    BY <1>2, CommitOfMessage
  <2> QED BY <1>4, <2>1, <2>2 DEF CommitInv, CommitsHeld
<1>8. \A c \in Cmds : Submission(c) \in active' =>
        Submission(c) \in active /\ acks'[Submission(c)] = acks[Submission(c)]
  BY <1>1, CoroutinesDiffer DEF Restart
<1>9. AcksHeld'
  <2> SUFFICES ASSUME NEW c \in Cmds, Submission(c) \in active',
                      NEW q \in acks[Submission(c)] \ restarted'
               PROVE  Len(log'[q]) >= at[c].index
    BY <1>1, <1>8 DEF AcksHeld
  <2>1. Len(log[q]) >= at[c].index /\ q \in Server \ {n}
    BY <1>1, <1>8, CoroutinesDiffer DEF CommitInv, AcksHeld, TypeInv, TypeOK
  <2> QED BY <1>3, <2>1
<1>10. AppendsAwaited'
  <2> SUFFICES ASSUME NEW l \in waiting', NEW c \in Cmds, l.by = Submission(c)
               PROVE  Asks(l, c)'
    BY DEF AppendsAwaited, Asks
  <2>1. Asks(l, c) /\ at[c].node # n
    BY <1>1 DEF CommitInv, AppendsAwaited, Asks
  <2>2. Submission(c) \notin CoroutinesOf(n)
    BY <2>1, CoroutinesDiffer DEF CoroutinesOf
  <2> QED BY <1>1, <2>1, <2>2 DEF Asks
<1> QED BY <1>5, <1>6, <1>7, <1>9, <1>10 DEF CommitInv

LEMMA StepCommit == ASSUME TypeInv, CommitInv, [Next]_vars PROVE CommitInv'
<1>1. TypeInv'
  BY StepType
<1>2. CASE UNCHANGED vars
  BY <1>2 DEF vars, node, calls, wire, CommitInv, AppliedWithinLog, AppliedHeld, CommitsHeld,
              AcksHeld, AppendsAwaited, Asks
<1>3. ASSUME NEW n \in Server, Restart(n) \/ \E c \in Cmds : Submit(n, c) PROVE CommitInv'
  BY <1>1, <1>3, RestartCommit, SubmitCommit
<1>4. ASSUME NEW c \in Cmds, SendAppend(c) \/ FinishSubmit(c) PROVE CommitInv'
  BY <1>4, SendAppendCommit, FinishSubmitCommit
<1>5. ASSUME NEW m \in net, NEW answered \in BOOLEAN, HandleAppendEntries(m, answered)
      PROVE  CommitInv'
  BY <1>1, <1>5, HandleAppendEntriesCommit
<1> QED BY <1>2, <1>3, <1>4, <1>5, QuietStepsCommit DEF Next

\* The apply loop never runs past its log, and what is marked committed is
\* applied, whatever commit indexes jump forward and backward (raft.py:138, 168-178).
THEOREM RaftAppliedWithinLog == Spec => []AppliedWithinLog
<1>1. Init => TypeInv /\ CommitInv
  BY InitType, InitCommit
<1>2. TypeInv /\ CommitInv /\ [Next]_vars => TypeInv' /\ CommitInv'
  BY StepType, StepCommit
<1>3. CommitInv => AppliedWithinLog
  BY DEF CommitInv
<1> QED BY <1>1, <1>2, <1>3, PTL DEF Spec

\* What any node applied lies within the logs of a majority, apart from the logs
\* that restarts lost (raft.py:117-140, 152-178).
THEOREM RaftCommitNeedsQuorum == Spec => []CommitNeedsQuorum
<1>1. Init => TypeInv /\ CommitInv
  BY InitType, InitCommit
<1>2. TypeInv /\ CommitInv /\ [Next]_vars => TypeInv' /\ CommitInv'
  BY StepType, StepCommit
<1>3. CommitInv => CommitNeedsQuorum
  BY DEF CommitInv, AppliedHeld, HeldIn, CommitNeedsQuorum
<1> QED BY <1>1, <1>2, <1>3, PTL DEF Spec

-----------------------------------------------------------------------------
(* The logs, as long as the protocol is serial *)

\* There is no term but the first, so a candidate's term is that of its round.
OnlyFirstTerm ==
  /\ \A n \in Server :
       currentTerm[n] <= 1 /\ (Election(n) \in active => began[n] = 1 /\ currentTerm[n] = 1)
  /\ \A m \in net \cup waiting : m.term <= 1

\* Who leads, and who took a command, has won.
LeadersWon ==
  /\ \A n \in Server : role[n] = "leader" => <<1, n>> \in won
  /\ \A c \in Cmds : at[c].node # None => <<1, at[c].node>> \in won

\* The leader's log is the list of the commands in the order of their submission.
PositionsKept ==
  /\ \A c \in Cmds : at[c].node # None =>
       at[c].index \in 1..Len(log[at[c].node]) /\ log[at[c].node][at[c].index].cmd = c
  /\ \A v \in won : \A i \in 1..Len(log[v[2]]) :
       at[log[v[2]][i].cmd].node = v[2] /\ at[log[v[2]][i].cmd].index = i

\* Every log is a prefix of the leader's.
LogsFollow ==
  /\ won = {} => \A p \in Server : log[p] = <<>>
  /\ \A v \in won, p \in Server :
       Len(log[p]) <= Len(log[v[2]]) /\ \A i \in 1..Len(log[p]) : log[p][i].cmd = log[v[2]][i].cmd

\* A request to append is for an entry its receiver has not, and there is no
\* other one for the same entry and receiver.
AppendFits(m, c) ==
  /\ at[c].node # None /\ m.src = at[c].node /\ m.dst # m.src
  /\ m.index = at[c].index - 1 /\ Len(log[m.dst]) <= m.index
  /\ Len(m.entries) = 1 /\ m.entries[1].cmd = c
AppendsFit ==
  /\ \A m \in net, c \in Cmds : m.by = Submission(c) => AppendFits(m, c)
  /\ \A m, l \in net, c \in Cmds :
       m.by = Submission(c) /\ l.by = Submission(c) /\ m.dst = l.dst => m = l
  /\ \A m \in net : m.entries = <<>> \/ \E c \in Cmds : m.by = Submission(c)
  /\ \A m \in waiting, c \in Cmds : m.by = Submission(c) => m.entries # <<>>

\* A peer that a submission has still to ask has not its entry, nor is the entry
\* on its way to it; and the entry is the last one of the leader.
AsksOnce ==
  \A c \in Cmds : Submission(c) \in active =>
    /\ at[c].node # None /\ at[c].index = Len(log[at[c].node])
    /\ \A p \in todo[Submission(c)] :
         /\ p # at[c].node /\ Len(log[p]) < at[c].index
         /\ \A m \in net : m.by = Submission(c) => m.dst # p

LedLogs == LeadersWon /\ PositionsKept /\ LogsFollow /\ AppendsFit /\ AsksOnce
LogInv == Serial => OnlyFirstTerm /\ LedLogs

\* What made a behaviour not serial stays: it is a property of its history.
LEMMA SerialBefore == ASSUME [Next]_vars, Serial' PROVE Serial
<1> DEFINE Grown == /\ won \subseteq won' /\ restarted \subseteq restarted'
                    /\ (repeated => repeated') /\ (overlapped => overlapped')
<1>1. Grown
  <2>1. CASE UNCHANGED vars
    BY <2>1 DEF vars, history
  <2>2. ASSUME NEW n \in Server, \/ StartElection(n) \/ SendVoteRequest(n) \/ FinishElection(n)
                                 \/ StartRound(n) \/ SendHeartbeat(n) \/ Restart(n)
        PROVE  Grown
    BY <2>2 DEF StartElection, SendVoteRequest, FinishElection, StartRound, SendHeartbeat,
                Restart, history
  <2>3. ASSUME NEW n \in Server, NEW c \in Cmds, Submit(n, c) PROVE Grown
    BY <2>3 DEF Submit
  <2>4. ASSUME NEW c \in Cmds, SendAppend(c) \/ FinishSubmit(c) PROVE Grown
    BY <2>4 DEF SendAppend, FinishSubmit, history
  <2>5. ASSUME NEW m \in net, NEW answered \in BOOLEAN,
               HandleRequestVote(m, answered) \/ HandleAppendEntries(m, answered)
        PROVE  Grown
    <3>1. won' = won /\ repeated' = repeated /\ overlapped' = overlapped /\ restarted' = restarted
      <4>1. CASE HandleRequestVote(m, answered)
        BY <4>1 DEF HandleRequestVote
      <4>2. CASE HandleAppendEntries(m, answered)
        BY <4>2 DEF HandleAppendEntries, history
      <4> QED BY <2>5, <4>1, <4>2
    <3> QED BY <3>1
  <2>6. ASSUME NEW m \in waiting, Retry(m) \/ GiveUp(m) PROVE Grown
    <3>1. won' = won /\ overlapped' = overlapped /\ restarted' = restarted
          /\ (repeated => repeated')
      <4>1. CASE Retry(m)
        BY <4>1 DEF Retry
      <4>2. CASE GiveUp(m)
        BY <4>2 DEF GiveUp, history
      <4> QED BY <2>6, <4>1, <4>2
    <3> QED BY <3>1
  <2> HIDE DEF Grown
  <2> QED BY <2>1, <2>2, <2>3, <2>4, <2>5, <2>6 DEF Next
<1> QED BY <1>1 DEF Serial, LedByOne

\* Messages of coroutines other than submissions.
LEMMA NotSubmissions ==
  /\ \A n \in Server : \A p, t : \A c \in Cmds : VoteRequest(n, p, t).by # Submission(c)
  /\ \A n \in Server : \A p : \A c \in Cmds : BeatRequest(n, p).by # Submission(c)
  /\ \A n \in Server : \A p, t : VoteRequest(n, p, t).entries = <<>> /\ VoteRequest(n, p, t).term = t
  /\ \A n \in Server : \A p :
       BeatRequest(n, p).entries = <<>> /\ BeatRequest(n, p).term = currentTerm[n]
BY CoroutinesDiffer DEF VoteRequest, BeatRequest

LEMMA InitLogs == Init => LogInv
<1> SUFFICES ASSUME Init PROVE OnlyFirstTerm /\ LedLogs
  BY DEF LogInv
<1>1. OnlyFirstTerm /\ LeadersWon /\ LogsFollow
  BY DEF Init, OnlyFirstTerm, LeadersWon, LogsFollow
<1>2. PositionsKept /\ AppendsFit /\ AsksOnce
  BY DEF Init, PositionsKept, AppendsFit, AsksOnce
<1> QED BY <1>1, <1>2 DEF LedLogs

\* Steps that leave the logs and the submissions in progress alone.
LEMMA QuietLogs ==
  ASSUME LedLogs, UNCHANGED <<log, at, won>>,
         \A n \in Server : role'[n] = "leader" => role[n] = "leader",
         \A c \in Cmds : /\ Submission(c) \in active' => Submission(c) \in active
                         /\ todo'[Submission(c)] = todo[Submission(c)],
         \A m \in net' : m \in net \/ (m.entries = <<>> /\ \A c \in Cmds : m.by # Submission(c)),
         \A m \in waiting' : m \in waiting \/ \A c \in Cmds : m.by # Submission(c)
  PROVE  LedLogs'
<1>1. LeadersWon' /\ PositionsKept' /\ LogsFollow'
  BY DEF LedLogs, LeadersWon, PositionsKept, LogsFollow
<1>2. AppendsFit'
  BY DEF LedLogs, AppendsFit, AppendFits
<1>3. AsksOnce'
  BY DEF LedLogs, AsksOnce
<1> QED BY <1>1, <1>2, <1>3 DEF LedLogs

LEMMA FirstTermStays ==
  ASSUME TypeInv, Serial, Serial', OnlyFirstTerm, [Next]_vars PROVE OnlyFirstTerm'
<1>1. CASE UNCHANGED vars
  BY <1>1 DEF OnlyFirstTerm, vars, node, calls, wire, history
<1>2. ASSUME NEW n \in Server, StartElection(n) PROVE OnlyFirstTerm'
  <2> DEFINE t == currentTerm[n] + 1
  <2>1. PICK p \in Server : Begin(Election(n), n, p, VoteRequest(n, p, t))
    BY <1>2 DEF StartElection
  <2>2. /\ currentTerm' = [currentTerm EXCEPT ![n] = t] /\ began' = [began EXCEPT ![n] = t]
        /\ active' = active \cup {Election(n)} /\ t <= 1
    BY <1>2 DEF StartElection, Serial
  <2>3. t = 1
    BY <2>2 DEF TypeInv, TypeOK
  <2>4. /\ net' = net \cup {VoteRequest(n, p, t)} /\ waiting' = waiting \cup {VoteRequest(n, p, t)}
        /\ VoteRequest(n, p, t).term = t
    BY <2>1 DEF Begin, Send, VoteRequest
  <2> HIDE DEF t
  <2>5. \A k \in Server : k # n /\ Election(k) \in active' => Election(k) \in active
    BY <2>2, CoroutinesDiffer
  <2> QED BY <2>2, <2>3, <2>4, <2>5 DEF OnlyFirstTerm, TypeInv, TypeOK
<1>3. ASSUME NEW n \in Server, SendVoteRequest(n) PROVE OnlyFirstTerm'
  <2>1. PICK p \in Server : Continue(Election(n), p, VoteRequest(n, p, currentTerm[n]))
    BY <1>3 DEF SendVoteRequest
  <2>2. VoteRequest(n, p, currentTerm[n]).term = currentTerm[n]
    BY DEF VoteRequest
  <2> QED BY <1>3, <2>1, <2>2 DEF OnlyFirstTerm, SendVoteRequest, Continue, Send, node, history
<1>4. ASSUME NEW n \in Server, FinishElection(n) PROVE OnlyFirstTerm'
  <2>1. waiting' \subseteq waiting
    BY <1>4 DEF FinishElection
  <2> QED BY <1>4, <2>1 DEF OnlyFirstTerm, FinishElection
<1>5. ASSUME NEW n \in Server, StartRound(n) PROVE OnlyFirstTerm'
  <2>1. PICK p \in Server : Begin(Heartbeat(n), n, p, BeatRequest(n, p))
    BY <1>5 DEF StartRound
  <2>2. BeatRequest(n, p).term = currentTerm[n]
    BY DEF BeatRequest
  <2> QED BY <1>5, <2>1, <2>2 DEF OnlyFirstTerm, StartRound, Begin, Send, node, history
<1>6. ASSUME NEW n \in Server, SendHeartbeat(n) PROVE OnlyFirstTerm'
  <2>1. PICK p \in Server : Continue(Heartbeat(n), p, BeatRequest(n, p))
    BY <1>6 DEF SendHeartbeat
  <2>2. BeatRequest(n, p).term = currentTerm[n]
    BY DEF BeatRequest
  <2> QED BY <1>6, <2>1, <2>2 DEF OnlyFirstTerm, SendHeartbeat, Continue, Send, node, history
<1>7. ASSUME NEW n \in Server, NEW c \in Cmds, Submit(n, c) PROVE OnlyFirstTerm'
  <2> DEFINE lg == Append(log[n], [term |-> currentTerm[n], cmd |-> c])
  <2>1. PICK p \in Server : Begin(Submission(c), n, p, AppendRequest(c, n, Len(lg), p, lg))
    BY <1>7 DEF Submit
  <2>2. AppendRequest(c, n, Len(lg), p, lg).term = currentTerm[n]
    BY DEF AppendRequest
  <2>3. \A k \in Server : Election(k) \in active' => Election(k) \in active
    BY <1>7, CoroutinesDiffer DEF Submit
  <2>4. UNCHANGED <<currentTerm, began>>
    BY <1>7 DEF Submit
  <2> HIDE DEF lg
  <2> QED BY <2>1, <2>2, <2>3, <2>4 DEF OnlyFirstTerm, Begin, Send
<1>8. ASSUME NEW c \in Cmds, SendAppend(c) PROVE OnlyFirstTerm'
  <2> DEFINE n == at[c].node
  <2>1. PICK p \in Server :
          Continue(Submission(c), p, AppendRequest(c, n, at[c].index, p, log[n]))
    BY <1>8 DEF SendAppend
  <2>2. AppendRequest(c, n, at[c].index, p, log[n]).term = currentTerm[n] /\ n \in Server
    BY <1>8 DEF AppendRequest, SendAppend, TypeInv, IndexesInLog
  <2> QED BY <1>8, <2>1, <2>2 DEF OnlyFirstTerm, SendAppend, Continue, Send, node, history
<1>9. ASSUME NEW c \in Cmds, FinishSubmit(c) PROVE OnlyFirstTerm'
  BY <1>9 DEF OnlyFirstTerm, FinishSubmit, wire, history
<1>10. ASSUME NEW m \in net, NEW answered \in BOOLEAN, HandleRequestVote(m, answered)
       PROVE  OnlyFirstTerm'
  <2>1. waiting' \subseteq waiting /\ net' \subseteq net /\ UNCHANGED active
    BY <1>10, ReplyEffect DEF HandleRequestVote
  <2>2. \/ UNCHANGED currentTerm
        \/ m.term > currentTerm[m.dst] /\ currentTerm' = [currentTerm EXCEPT ![m.dst] = m.term]
    BY <1>10 DEF HandleRequestVote
  <2>3. m.term \in Nat /\ m.term <= 1 /\ currentTerm \in [Server -> Nat] /\ UNCHANGED began
    BY <1>10 DEF OnlyFirstTerm, TypeInv, TypeOK, Message, HandleRequestVote
  <2> QED BY <2>1, <2>2, <2>3 DEF OnlyFirstTerm
<1>11. ASSUME NEW m \in net, NEW answered \in BOOLEAN, HandleAppendEntries(m, answered)
       PROVE  OnlyFirstTerm'
  <2>1. \E ok \in BOOLEAN : Reply(m, ok, answered)
    BY <1>11, AppendHandled DEF TypeInv
  <2>2. waiting' \subseteq waiting /\ net' \subseteq net /\ UNCHANGED active
    BY <2>1, ReplyEffect
  <2>3. UNCHANGED <<currentTerm, began>>
    BY <1>11 DEF HandleAppendEntries, node, history
  <2> QED BY <2>2, <2>3 DEF OnlyFirstTerm
<1>12. ASSUME NEW m \in waiting, Retry(m) PROVE OnlyFirstTerm'
  <2>1. [m EXCEPT !.attempt = @ + 1].term = m.term
    BY DEF TypeInv, TypeOK, Message
  <2> QED BY <1>12, <2>1 DEF OnlyFirstTerm, Retry, node, calls
<1>13. ASSUME NEW m \in waiting, GiveUp(m) PROVE OnlyFirstTerm'
  BY <1>13 DEF OnlyFirstTerm, GiveUp, node, calls, history
<1>14. ASSUME NEW n \in Server, Restart(n) PROVE OnlyFirstTerm'
  <2>1. \A m \in net : [m EXCEPT !.attempt = 0].term = m.term
    BY DEF TypeInv, TypeOK, Message
  <2>2. \A m \in net' : m.term <= 1
    BY <1>14, <2>1 DEF Restart, OnlyFirstTerm
  <2>3. /\ currentTerm' = [currentTerm EXCEPT ![n] = 0] /\ UNCHANGED began
        /\ active' = active \ CoroutinesOf(n) /\ waiting' \subseteq waiting
        /\ Election(n) \in CoroutinesOf(n)
    BY <1>14 DEF Restart, history, CoroutinesOf
  <2> QED BY <2>2, <2>3 DEF OnlyFirstTerm, TypeInv, TypeOK
<1> QED BY <1>1, <1>2, <1>3, <1>4, <1>5, <1>6, <1>7, <1>8, <1>9, <1>10, <1>11, <1>12, <1>13, <1>14
        DEF Next

\* The steps of other coroutines than submissions, the ends of submissions, and
\* what post_json does.
LEMMA QuietStepsLogs ==
  ASSUME TypeInv, Serial, Serial', OnlyFirstTerm, LedLogs,
         \/ UNCHANGED vars
         \/ \E n \in Server : \/ StartElection(n) \/ SendVoteRequest(n)
                             \/ StartRound(n) \/ SendHeartbeat(n)
         \/ \E c \in Cmds : FinishSubmit(c)
         \/ \E m \in net, answered \in BOOLEAN : HandleRequestVote(m, answered)
         \/ \E m \in waiting : Retry(m) \/ GiveUp(m)
  PROVE  LedLogs'
<1>1. CASE UNCHANGED vars
  BY <1>1, QuietLogs DEF vars, node, calls, wire, history
<1>2. ASSUME NEW n \in Server, StartElection(n) PROVE LedLogs'
  <2> DEFINE t == currentTerm[n] + 1
  <2>1. PICK p \in Server : Begin(Election(n), n, p, VoteRequest(n, p, t))
    BY <1>2 DEF StartElection
  <2>2. /\ UNCHANGED <<log, at, won>> /\ active' = active \cup {Election(n)}
        /\ role' = [role EXCEPT ![n] = "candidate"]
    BY <1>2 DEF StartElection
  <2>3. /\ net' = net \cup {VoteRequest(n, p, t)} /\ waiting' = waiting \cup {VoteRequest(n, p, t)}
        /\ todo' = [todo EXCEPT ![Election(n)] = Peers(n) \ {p}]
    BY <2>1 DEF Begin, Send
  <2> HIDE DEF t
  <2>4. \A c \in Cmds : /\ Submission(c) \in active' => Submission(c) \in active
                        /\ todo'[Submission(c)] = todo[Submission(c)]
    BY <2>2, <2>3, CoroutinesDiffer DEF TypeInv, TypeOK
  <2>5. \A k \in Server : role'[k] = "leader" => role[k] = "leader"
    BY <2>2 DEF TypeInv, TypeOK
  <2>6. VoteRequest(n, p, t).entries = <<>> /\ \A c \in Cmds : VoteRequest(n, p, t).by # Submission(c)
    BY NotSubmissions
  <2> QED BY <2>2, <2>3, <2>4, <2>5, <2>6, QuietLogs
<1>3. ASSUME NEW n \in Server, SendVoteRequest(n) PROVE LedLogs'
  <2> DEFINE t == currentTerm[n]
  <2>1. PICK p \in Server : Continue(Election(n), p, VoteRequest(n, p, t))
    BY <1>3 DEF SendVoteRequest
  <2>2. UNCHANGED <<log, at, won, active, role>>
    BY <1>3, <2>1 DEF SendVoteRequest, Continue, node, history
  <2>3. /\ net' = net \cup {VoteRequest(n, p, t)} /\ waiting' = waiting \cup {VoteRequest(n, p, t)}
        /\ todo' = [todo EXCEPT ![Election(n)] = @ \ {p}]
    BY <2>1 DEF Continue, Send
  <2> HIDE DEF t
  <2>4. \A c \in Cmds : todo'[Submission(c)] = todo[Submission(c)]
    BY <2>3, CoroutinesDiffer DEF TypeInv, TypeOK
  <2>5. VoteRequest(n, p, t).entries = <<>> /\ \A c \in Cmds : VoteRequest(n, p, t).by # Submission(c)
    BY NotSubmissions
  <2> QED BY <2>2, <2>3, <2>4, <2>5, QuietLogs
<1>4. ASSUME NEW n \in Server, StartRound(n) PROVE LedLogs'
  <2>1. PICK p \in Server : Begin(Heartbeat(n), n, p, BeatRequest(n, p))
    BY <1>4 DEF StartRound
  <2>2. UNCHANGED <<log, at, won, active, role>>
    BY <1>4 DEF StartRound, node, history
  <2>3. /\ net' = net \cup {BeatRequest(n, p)} /\ waiting' = waiting \cup {BeatRequest(n, p)}
        /\ todo' = [todo EXCEPT ![Heartbeat(n)] = Peers(n) \ {p}]
    BY <2>1 DEF Begin, Send
  <2>4. \A c \in Cmds : todo'[Submission(c)] = todo[Submission(c)]
    BY <2>3, CoroutinesDiffer DEF TypeInv, TypeOK
  <2>5. BeatRequest(n, p).entries = <<>> /\ \A c \in Cmds : BeatRequest(n, p).by # Submission(c)
    BY NotSubmissions
  <2> QED BY <2>2, <2>3, <2>4, <2>5, QuietLogs
<1>5. ASSUME NEW n \in Server, SendHeartbeat(n) PROVE LedLogs'
  <2>1. PICK p \in Server : Continue(Heartbeat(n), p, BeatRequest(n, p))
    BY <1>5 DEF SendHeartbeat
  <2>2. UNCHANGED <<log, at, won, active, role>>
    BY <1>5, <2>1 DEF SendHeartbeat, Continue, node, history
  <2>3. /\ net' = net \cup {BeatRequest(n, p)} /\ waiting' = waiting \cup {BeatRequest(n, p)}
        /\ todo' = [todo EXCEPT ![Heartbeat(n)] = @ \ {p}]
    BY <2>1 DEF Continue, Send
  <2>4. \A c \in Cmds : todo'[Submission(c)] = todo[Submission(c)]
    BY <2>3, CoroutinesDiffer DEF TypeInv, TypeOK
  <2>5. BeatRequest(n, p).entries = <<>> /\ \A c \in Cmds : BeatRequest(n, p).by # Submission(c)
    BY NotSubmissions
  <2> QED BY <2>2, <2>3, <2>4, <2>5, QuietLogs
<1>6. ASSUME NEW c \in Cmds, FinishSubmit(c) PROVE LedLogs'
  <2>1. /\ UNCHANGED <<log, at, won, role, net, waiting, todo>>
        /\ active' = active \ {Submission(c)}
    BY <1>6 DEF FinishSubmit, wire, history
  <2> QED BY <2>1, QuietLogs
<1>7. ASSUME NEW m \in net, NEW answered \in BOOLEAN, HandleRequestVote(m, answered)
      PROVE  LedLogs'
  <2>1. waiting' \subseteq waiting /\ net' = net \ {m} /\ UNCHANGED <<active, todo, at>>
    BY <1>7, ReplyEffect DEF HandleRequestVote, Reply
  <2>2. UNCHANGED <<log, won>> /\ \A k \in Server : role'[k] = "leader" => role[k] = "leader"
    BY <1>7 DEF HandleRequestVote, TypeInv, TypeOK, Message
  <2> QED BY <2>1, <2>2, QuietLogs
<1>8. ASSUME NEW m \in waiting, Retry(m) PROVE LedLogs'
  <2> DEFINE again == [m EXCEPT !.attempt = @ + 1]
  <2>1. /\ net' = net \cup {again} /\ waiting' = (waiting \ {m}) \cup {again}
        /\ UNCHANGED <<log, at, won, role, active, todo>>
    BY <1>8 DEF Retry, node, calls
  <2>2. m.entries = <<>>
    <3>1. repeated' = (repeated \/ m.entries # <<>>)
      BY <1>8 DEF Retry
    <3> QED BY <3>1 DEF Serial
  <2>3. \A c \in Cmds : m.by # Submission(c)
    BY <2>2 DEF LedLogs, AppendsFit
  <2>4. again.entries = <<>> /\ again.by = m.by
    BY <2>2 DEF TypeInv, TypeOK, Message
  <2> HIDE DEF again
  <2> QED BY <2>1, <2>3, <2>4, QuietLogs
<1>9. ASSUME NEW m \in waiting, GiveUp(m) PROVE LedLogs'
  <2>1. /\ waiting' = waiting \ {m} /\ UNCHANGED <<net, log, at, won, role, active, todo>>
    BY <1>9 DEF GiveUp, node, calls, history
  <2> QED BY <2>1, QuietLogs
<1> QED BY <1>1, <1>2, <1>3, <1>4, <1>5, <1>6, <1>7, <1>8, <1>9

\* Only the winner takes commands.
LEMMA OneWinner ==
  ASSUME Serial, LedLogs, NEW n, <<1, n>> \in won
  PROVE  /\ \A v \in won : v = <<1, n>> /\ v[2] = n
         /\ \A c \in Cmds : at[c].node # None => at[c].node = n
<1>1. \A v \in won : v = <<1, n>>
  BY DEF Serial, LedByOne
<1>2. ASSUME NEW c \in Cmds, at[c].node # None PROVE at[c].node = n
  <2>1. <<1, at[c].node>> \in won
    BY <1>2 DEF LedLogs, LeadersWon
  <2> QED BY <1>1, <2>1
<1> QED BY <1>1, <1>2

LEMMA FinishElectionLogs ==
  ASSUME TypeInv, Serial, Serial', OnlyFirstTerm, LedLogs, NEW n \in Server, FinishElection(n)
  PROVE  LedLogs'
<1>1. began[n] = 1 /\ currentTerm[n] = 1
  BY DEF FinishElection, Done, OnlyFirstTerm
<1>2. /\ UNCHANGED <<log, at, net>> /\ active' = active \ {Election(n)} /\ waiting' \subseteq waiting
      /\ \A c \in Cmds : todo'[Submission(c)] = todo[Submission(c)]
  BY CoroutinesDiffer DEF FinishElection, TypeInv, TypeOK
<1>3. CASE UNCHANGED <<role, won>>
  BY <1>2, <1>3, QuietLogs
<1>4. CASE role' = [role EXCEPT ![n] = "leader"] /\ won' = won \cup {<<1, n>>}
  <2>1. \A v \in won' : v = <<1, n>>
    BY <1>4 DEF Serial, LedByOne
  <2>2. LeadersWon'
    BY <1>2, <1>4 DEF LedLogs, LeadersWon, TypeInv, TypeOK
  <2>3. PositionsKept' /\ LogsFollow'
    <3>1. CASE won = {}
      <4>1. \A p \in Server : log'[p] = <<>> /\ Len(log'[p]) = 0
        BY <1>2, <3>1 DEF LedLogs, LogsFollow
      <4>2. \A c \in Cmds : at'[c].node = None
        BY <1>2, <3>1 DEF LedLogs, LeadersWon
      <4>3. won' # {} /\ \A v \in won' : v[2] \in Server
        <5>1. won' # {} /\ <<1, n>>[2] = n
          BY <1>4
        <5> QED BY <2>1, <5>1
      <4>4. PositionsKept'
        <5>1. ASSUME NEW v \in won', NEW i \in 1..Len(log'[v[2]]) PROVE FALSE
          <6>1. Len(log'[v[2]]) = 0
            BY <4>1, <4>3
          <6> QED BY <6>1
        <5> QED BY <4>2, <5>1 DEF PositionsKept
      <4>5. LogsFollow'
        <5>1. ASSUME NEW v \in won', NEW p \in Server
              PROVE  Len(log'[p]) = 0 /\ Len(log'[v[2]]) = 0
          BY <4>1, <4>3
        <5> QED BY <4>3, <5>1 DEF LogsFollow
      <4> QED BY <4>4, <4>5
    <3>2. CASE won # {}
      <4>1. won' = won
        <5>1. <<1, n>> \in won
          BY <1>4, <2>1, <3>2
        <5> QED BY <1>4, <5>1
      <4> QED BY <1>2, <4>1 DEF LedLogs, PositionsKept, LogsFollow
    <3> QED BY <3>1, <3>2
  <2>4. AppendsFit' /\ AsksOnce'
    BY <1>2 DEF LedLogs, AppendsFit, AppendFits, AsksOnce
  <2> QED BY <2>2, <2>3, <2>4 DEF LedLogs
<1> QED BY <1>1, <1>3, <1>4 DEF FinishElection

LEMMA SubmitLogs ==
  ASSUME TypeInv, Serial, Serial', LedLogs, NEW n \in Server, NEW c \in Cmds, Submit(n, c)
  PROVE  LedLogs'
<1> DEFINE e == [term |-> currentTerm[n], cmd |-> c]
           lg == Append(log[n], e)
           k == Submission(c)
<1>1. /\ log \in [Server -> Seq(Entry)] /\ at \in [Cmds -> [node : Server \cup {None}, index : Nat]]
      /\ todo \in [Coroutine -> SUBSET Server]
  BY DEF TypeInv, TypeOK
<1>2. /\ log' = [log EXCEPT ![n] = lg] /\ at' = [at EXCEPT ![c] = [node |-> n, index |-> Len(lg)]]
      /\ active' = active \cup {k} /\ UNCHANGED <<role, won>>
      /\ at[c].node = None /\ <<1, n>> \in won
  BY DEF Submit, LedLogs, LeadersWon
<1>3. \A d \in Cmds : Submission(d) \notin active
  <2>1. overlapped' = (overlapped \/ \E d \in Cmds : Submission(d) \in active)
    BY DEF Submit
  <2> QED BY <2>1 DEF Serial
<1>4. PICK p \in Server : Begin(k, n, p, AppendRequest(c, n, Len(lg), p, lg))
  BY DEF Submit
<1>5. PICK m : m = AppendRequest(c, n, Len(lg), p, lg)
  OBVIOUS
<1>6. /\ Len(log[n]) \in Nat /\ Len(lg) = Len(log[n]) + 1 /\ lg[Len(lg)] = e
      /\ \A i \in 1..Len(log[n]) : lg[i] = log[n][i]
  <2>1. log[n] \in Seq(Entry) /\ e \in Entry
    BY <1>1 DEF Entry, TypeInv, TypeOK
  <2> QED BY <2>1
<1>7. /\ m.by = k /\ m.src = n /\ m.dst = p /\ m.index = Len(lg) - 1
      /\ Len(m.entries) = 1 /\ m.entries[1].cmd = c /\ m.entries # <<>>
  BY <1>6, <1>5 DEF AppendRequest
<1>8. /\ net' = net \cup {m} /\ waiting' = waiting \cup {m} /\ p \in Peers(n)
      /\ todo' = [todo EXCEPT ![k] = Peers(n) \ {p}]
  BY <1>4, <1>5 DEF Begin, Send, IsFirst
<1>9. /\ \A v \in won : v = <<1, n>> /\ v[2] = n
      /\ \A d \in Cmds : at[d].node # None => at[d].node = n /\ d # c
  BY <1>2, OneWinner
<1> HIDE DEF lg
<1>10. /\ at'[c].node = n /\ at'[c].index = Len(lg) /\ n # None
       /\ \A d \in Cmds : d # c => at'[d] = at[d]
       /\ log'[n] = lg /\ \A q \in Server : q # n => log'[q] = log[q]
  BY <1>1, <1>2, ServerFacts
<1>11. \A d \in Cmds : d # c => Submission(d) # k
  BY CoroutinesDiffer
<1>12. LeadersWon'
  BY <1>2, <1>9, <1>10 DEF LedLogs, LeadersWon
<1>13. PositionsKept'
  <2>1. ASSUME NEW d \in Cmds, at'[d].node # None
        PROVE  at'[d].index \in 1..Len(log'[at'[d].node]) /\ log'[at'[d].node][at'[d].index].cmd = d
    <3>1. CASE d = c
      BY <1>6, <1>10, <3>1
    <3>2. CASE d # c
      <4>1. at'[d] = at[d] /\ at[d].node = n /\ at[d].node # None
        BY <1>9, <1>10, <2>1, <3>2
      <4>2. at[d].index \in 1..Len(log[n]) /\ log[n][at[d].index].cmd = d
        BY <4>1 DEF LedLogs, PositionsKept
      <4> QED BY <1>6, <1>10, <4>1, <4>2
    <3> QED BY <3>1, <3>2
  <2>2. ASSUME NEW v \in won', NEW i \in 1..Len(log'[v[2]])
        PROVE  LET d == log'[v[2]][i].cmd IN at'[d].node = v[2] /\ at'[d].index = i
    <3>1. v \in won /\ v[2] = n /\ i \in 1..Len(lg) /\ log'[n] = lg
      BY <1>2, <1>9, <1>10, <2>2
    <3>2. CASE i = Len(lg)
      BY <1>6, <1>10, <3>1, <3>2
    <3>3. CASE i # Len(lg)
      <4>1. i \in 1..Len(log[n]) /\ lg[i] = log[n][i]
        BY <1>6, <3>1, <3>3
      <4>2. log[n][i].cmd \in Cmds
        <5>1. log[n] \in Seq(Entry)
          BY <1>1
        <5>2. log[n][i] \in Entry
          BY <4>1, <5>1
        <5> QED BY <5>2 DEF Entry
      <4>3. at[log[n][i].cmd].node = n /\ at[log[n][i].cmd].index = i
        BY <3>1, <4>1 DEF LedLogs, PositionsKept
      <4>4. log[n][i].cmd # c
        BY <1>2, <1>10, <4>3
      <4> QED BY <1>10, <3>1, <4>1, <4>2, <4>3, <4>4
    <3> QED BY <3>2, <3>3
  <2> QED BY <2>1, <2>2 DEF PositionsKept
<1>14. \A q \in Server : Len(log[q]) \in Nat /\ Len(log[q]) <= Len(log[n])
  BY <1>1, <1>2, <1>9 DEF LedLogs, LogsFollow
<1>15. LogsFollow'
  <2> SUFFICES ASSUME NEW q \in Server
               PROVE  /\ Len(log'[q]) <= Len(lg)
                      /\ \A i \in 1..Len(log'[q]) : log'[q][i].cmd = lg[i].cmd
    BY <1>2, <1>9, <1>10 DEF LogsFollow
  <2>1. CASE q = n
    BY <1>6, <1>10, <2>1
  <2>2. CASE q # n
    <3>1. \A i \in 1..Len(log[q]) : log[q][i].cmd = log[n][i].cmd
      BY <1>2, <1>9 DEF LedLogs, LogsFollow
    <3>2. \A i \in 1..Len(log[q]) : lg[i] = log[n][i]
      BY <1>6, <1>14
    <3> QED BY <1>6, <1>10, <1>14, <2>2, <3>1, <3>2
  <2> QED BY <2>1, <2>2
<1>16. AppendsFit'
  <2>1. ASSUME NEW l \in net, NEW d \in Cmds, l.by = Submission(d)
        PROVE  d # c /\ AppendFits(l, d) /\ AppendFits(l, d)'
    <3>1. AppendFits(l, d)
      BY <2>1 DEF LedLogs, AppendsFit
    <3>2. d # c /\ at'[d] = at[d] /\ l.src = n /\ l.dst # n /\ l.dst \in Server
      BY <1>9, <1>10, <3>1 DEF AppendFits, TypeInv, TypeOK, Message
    <3> QED BY <1>10, <3>1, <3>2 DEF AppendFits
  <2>2. AppendFits(m, c)'
    BY <1>6, <1>7, <1>8, <1>10, <1>14 DEF AppendFits, Peers
  <2>3. ASSUME NEW l \in net', NEW d \in Cmds, l.by = Submission(d) PROVE AppendFits(l, d)'
    BY <1>7, <1>8, <1>11, <2>1, <2>2, <2>3
  <2>4. ASSUME NEW l \in net', NEW j \in net', NEW d \in Cmds,
               l.by = Submission(d), j.by = Submission(d), l.dst = j.dst
        PROVE  l = j
    <3>1. CASE d = c
      BY <1>8, <2>1, <2>4, <3>1
    <3>2. CASE d # c
      BY <1>7, <1>8, <1>11, <2>4, <3>2 DEF LedLogs, AppendsFit
    <3> QED BY <3>1, <3>2
  <2>5. \A l \in net' : l.entries = <<>> \/ \E d \in Cmds : l.by = Submission(d)
    BY <1>7, <1>8 DEF LedLogs, AppendsFit
  <2>6. \A l \in waiting', d \in Cmds : l.by = Submission(d) => l.entries # <<>>
    BY <1>7, <1>8 DEF LedLogs, AppendsFit
  <2>7. QED BY <2>3, <2>4, <2>5, <2>6 DEF AppendsFit
<1>17. AsksOnce'
  <2>1. \A d \in Cmds : Submission(d) \in active' => d = c
    BY <1>2, <1>3, <1>11
  <2>2. todo'[k] = Peers(n) \ {p}
    BY <1>1, <1>8, CoroutinesDiffer
  <2>3. ASSUME NEW q \in Peers(n), q # p
        PROVE  /\ q # n /\ Len(log'[q]) < Len(lg)
               /\ \A l \in net' : l.by = k => l.dst # q
    <3>1. q \in Server /\ q # n
      BY <2>3 DEF Peers
    <3>2. \A l \in net : l.by # k
      <4>1. ASSUME NEW l \in net, l.by = Submission(c) PROVE FALSE
        <5>1. AppendFits(l, c)
          BY <4>1 DEF LedLogs, AppendsFit
        <5> QED BY <1>2, <5>1 DEF AppendFits
      <4> QED BY <4>1
    <3> QED BY <1>6, <1>7, <1>8, <1>10, <1>14, <2>3, <3>1, <3>2
  <2> QED BY <1>10, <2>1, <2>2, <2>3 DEF AsksOnce
<1> QED BY <1>12, <1>13, <1>15, <1>16, <1>17 DEF LedLogs

LEMMA SendAppendLogs ==
  ASSUME TypeInv, Serial, LedLogs, NEW c \in Cmds, SendAppend(c)
  PROVE  LedLogs'
<1> DEFINE n == at[c].node
           k == Submission(c)
           lg == log[n]
<1>1. /\ n \in Server /\ n # None /\ at[c].index = Len(lg) /\ k \in active
      /\ at[c].index \in 1..Len(lg)
  BY DEF SendAppend, LedLogs, AsksOnce, TypeInv, IndexesInLog
<1>2. lg[Len(lg)].cmd = c
  BY <1>1 DEF LedLogs, PositionsKept
<1>3. PICK p \in Server : Continue(k, p, AppendRequest(c, n, at[c].index, p, lg))
  BY DEF SendAppend
<1>4. PICK m : m = AppendRequest(c, n, at[c].index, p, lg)
  OBVIOUS
<1>5. /\ m.by = k /\ m.src = n /\ m.dst = p /\ m.index = at[c].index - 1
      /\ Len(m.entries) = 1 /\ m.entries[1].cmd = c /\ m.entries # <<>>
  BY <1>2, <1>4 DEF AppendRequest
<1>6. /\ net' = net \cup {m} /\ waiting' = waiting \cup {m} /\ p \in todo[k]
      /\ todo' = [todo EXCEPT ![k] = @ \ {p}] /\ UNCHANGED <<active, at, log, role, won>>
  BY <1>3, <1>4 DEF Continue, Send, IsNext, SendAppend, node, history
<1>7. /\ p # n /\ Len(log[p]) < at[c].index
      /\ \A l \in net : l.by = k => l.dst # p
  BY <1>1, <1>6 DEF LedLogs, AsksOnce
<1>8. todo \in [Coroutine -> SUBSET Server] /\ Len(log[p]) \in Nat
  BY DEF TypeInv, TypeOK
<1>9. AppendFits(m, c)'
  BY <1>1, <1>5, <1>6, <1>7, <1>8 DEF AppendFits
<1> HIDE DEF lg
<1>10. LeadersWon' /\ PositionsKept' /\ LogsFollow'
  BY <1>6 DEF LedLogs, LeadersWon, PositionsKept, LogsFollow
<1>11. AppendsFit'
  <2>1. ASSUME NEW l \in net', NEW d \in Cmds, l.by = Submission(d) PROVE AppendFits(l, d)'
    <3>1. CASE l \in net
      BY <1>6, <2>1, <3>1 DEF LedLogs, AppendsFit, AppendFits
    <3>2. CASE l = m
      BY <1>5, <1>9, <2>1, <3>2, CoroutinesDiffer
    <3> QED BY <1>6, <3>1, <3>2
  <2>2. ASSUME NEW l \in net', NEW j \in net', NEW d \in Cmds,
               l.by = Submission(d), j.by = Submission(d), l.dst = j.dst
        PROVE  l = j
    <3>1. CASE l \in net /\ j \in net
      BY <2>2, <3>1 DEF LedLogs, AppendsFit
    <3>2. CASE l = m \/ j = m
      BY <1>5, <1>6, <1>7, <2>2, <3>2, CoroutinesDiffer
    <3> QED BY <1>6, <3>1, <3>2
  <2>3. \A l \in net' : l.entries = <<>> \/ \E d \in Cmds : l.by = Submission(d)
    BY <1>5, <1>6 DEF LedLogs, AppendsFit
  <2>4. \A l \in waiting', d \in Cmds : l.by = Submission(d) => l.entries # <<>>
    BY <1>5, <1>6 DEF LedLogs, AppendsFit
  <2> QED BY <2>1, <2>2, <2>3, <2>4 DEF AppendsFit
<1>12. AsksOnce'
  <2> SUFFICES ASSUME NEW d \in Cmds, Submission(d) \in active
               PROVE  /\ at[d].node # None /\ at[d].index = Len(log[at[d].node])
                      /\ \A q \in todo'[Submission(d)] :
                           /\ q # at[d].node /\ Len(log[q]) < at[d].index
                           /\ \A l \in net' : l.by = Submission(d) => l.dst # q
    BY <1>6 DEF AsksOnce
  <2>1. CASE d = c
    <3>1. todo'[k] = todo[k] \ {p}
      BY <1>6, <1>8, CoroutinesDiffer
    <3> QED BY <1>1, <1>5, <1>6, <2>1, <3>1 DEF LedLogs, AsksOnce
  <2>2. CASE d # c
    <3>1. Submission(d) # k /\ todo'[Submission(d)] = todo[Submission(d)]
      BY <1>6, <1>8, <2>2, CoroutinesDiffer
    <3> QED BY <1>5, <1>6, <3>1 DEF LedLogs, AsksOnce
  <2> QED BY <2>1, <2>2
<1> QED BY <1>10, <1>11, <1>12 DEF LedLogs

\* An append that is accepted adds the next of the leader's entries to a log.
LEMMA AcceptedAppend ==
  ASSUME TypeInv, Serial, LedLogs, NEW m \in net, NEW c \in Cmds, m.by = Submission(c),
         Matches(m.dst, m)
  PROVE  /\ at[c].node \in Server /\ m.dst \in Server /\ m.dst # at[c].node /\ at[c].node # None
         /\ <<1, at[c].node>> \in won
         /\ Len(log[m.dst]) \in Nat /\ at[c].index = Len(log[m.dst]) + 1
         /\ Len(m.entries) = 1 /\ m.entries[1].cmd = c /\ m.entries \in Seq(Entry)
<1>1. AppendFits(m, c)
  BY DEF LedLogs, AppendsFit
<1>2. /\ m.dst \in Server /\ m.src \in Server /\ m.index \in Nat /\ m.entries \in Seq(Entry)
      /\ Len(log[m.dst]) \in Nat
  <2>1. m \in Message /\ log \in [Server -> Seq(Entry)]
    BY DEF TypeInv, TypeOK
  <2> QED BY <2>1 DEF Message
<1>3. at[c].index \in Nat
  BY DEF TypeInv, TypeOK
<1>4. m.index = at[c].index - 1 /\ Len(log[m.dst]) <= m.index
  BY <1>1 DEF AppendFits
<1>5. Len(log[m.dst]) = m.index
  BY <1>2, <1>4 DEF Matches
<1>6. <<1, at[c].node>> \in won
  BY <1>1 DEF AppendFits, LedLogs, LeadersWon
<1> QED BY <1>1, <1>2, <1>3, <1>4, <1>5, <1>6 DEF AppendFits

LEMMA HandleAppendEntriesLogs ==
  ASSUME TypeInv, Serial, LedLogs, NEW m \in net, NEW answered \in BOOLEAN,
         HandleAppendEntries(m, answered)
  PROVE  LedLogs'
<1> DEFINE p == m.dst
<1>1. PICK ok \in BOOLEAN :
        /\ Reply(m, ok, answered)
        /\ ok => Matches(p, m) /\ log' = [log EXCEPT ![p] = @ \o m.entries]
        /\ ~ok => UNCHANGED log
  BY AppendHandled DEF TypeInv
<1>2. /\ waiting' \subseteq waiting /\ net' = net \ {m} /\ UNCHANGED <<active, todo, at>>
  BY <1>1, ReplyEffect DEF Reply
<1>3. p \in Server /\ m.entries \in Seq(Entry) /\ log \in [Server -> Seq(Entry)]
  <2>1. m \in Message /\ log \in [Server -> Seq(Entry)]
    BY DEF TypeInv, TypeOK
  <2> QED BY <2>1 DEF Message
<1>4. UNCHANGED won /\ \A k \in Server : role'[k] = "leader" => role[k] = "leader"
  BY <1>3 DEF HandleAppendEntries, node, history, TypeInv, TypeOK
<1> HIDE DEF p
<1>5. CASE log' = log
  BY <1>2, <1>4, <1>5, QuietLogs
<1>6. CASE log' = [log EXCEPT ![p] = @ \o m.entries] /\ m.entries = <<>>
  <2>1. log' = log
    BY <1>3, <1>6
  <2> QED BY <1>5, <2>1
<1>7. ASSUME NEW c \in Cmds, m.by = Submission(c), ok PROVE LedLogs'
  <2> DEFINE n == at[c].node
             i == at[c].index
  <2>1. /\ n \in Server /\ p # n /\ n # None /\ <<1, n>> \in won
        /\ Len(log[p]) \in Nat /\ i = Len(log[p]) + 1
        /\ Len(m.entries) = 1 /\ m.entries[1].cmd = c /\ m.entries \in Seq(Entry)
    BY <1>1, <1>7, AcceptedAppend DEF p
  <2>2. /\ Len(log'[p]) = i /\ log'[p][i].cmd = c
        /\ \A j \in 1..Len(log[p]) : log'[p][j] = log[p][j]
        /\ \A q \in Server : q # p => log'[q] = log[q]
    <3>1. log' = [log EXCEPT ![p] = @ \o m.entries]
      BY <1>1, <1>7
    <3>2. log'[p] = log[p] \o m.entries /\ \A q \in Server : q # p => log'[q] = log[q]
      BY <1>3, <3>1
    <3>3. /\ Len(log'[p]) = Len(log[p]) + 1 /\ log'[p][Len(log[p]) + 1] = m.entries[1]
          /\ \A j \in 1..Len(log[p]) : log'[p][j] = log[p][j]
      <4> DEFINE s == log[p]
                 t == m.entries
      <4>1. s \in Seq(Entry) /\ t \in Seq(Entry) /\ Len(s) \in Nat /\ Len(t) = 1
        BY <1>3, <2>1
      <4> HIDE DEF s, t
      <4>2. /\ Len(s \o t) = Len(s) + 1 /\ (s \o t)[Len(s) + 1] = t[1]
            /\ \A j \in 1..Len(s) : (s \o t)[j] = s[j]
        <5>1. /\ Len(s \o t) = Len(s) + Len(t)
              /\ \A j \in 1..Len(s) + Len(t) : (s \o t)[j] = IF j <= Len(s) THEN s[j] ELSE t[j - Len(s)]
          BY <4>1, ConcatProperties
        <5>2. PICK len \in Nat : len = Len(s)
          BY <4>1
        <5> QED BY <4>1, <5>1, <5>2
      <4> QED BY <3>2, <4>2 DEF s, t
    <3> QED BY <2>1, <3>2, <3>3
  <2>3. i \in 1..Len(log[n]) /\ log[n][i].cmd = c
    BY <2>1 DEF LedLogs, PositionsKept
  <2>4. /\ \A v \in won : v[2] = n
        /\ \A d \in Cmds : at[d].node # None => at[d].node = n
    BY <2>1, OneWinner
  <2> HIDE DEF n, i
  <2>5. LeadersWon' /\ PositionsKept'
    <3>1. LeadersWon'
      BY <1>2, <1>4 DEF LedLogs, LeadersWon
    <3>2. log'[n] = log[n]
      BY <2>1, <2>2
    <3>3. ASSUME NEW d \in Cmds, at'[d].node # None
          PROVE  at'[d].index \in 1..Len(log'[at'[d].node]) /\ log'[at'[d].node][at'[d].index].cmd = d
      BY <1>2, <2>4, <3>2, <3>3 DEF LedLogs, PositionsKept
    <3>4. ASSUME NEW v \in won', NEW j \in 1..Len(log'[v[2]])
          PROVE  LET d == log'[v[2]][j].cmd IN at'[d].node = v[2] /\ at'[d].index = j
      BY <1>2, <1>4, <2>4, <3>2, <3>4 DEF LedLogs, PositionsKept
    <3> QED BY <3>1, <3>3, <3>4 DEF PositionsKept
  <2>6. LogsFollow'
    <3> SUFFICES ASSUME NEW q \in Server
                 PROVE  /\ Len(log'[q]) <= Len(log[n])
                        /\ \A j \in 1..Len(log'[q]) : log'[q][j].cmd = log[n][j].cmd
      BY <1>4, <2>1, <2>2, <2>4 DEF LogsFollow
    <3>1. Len(log[q]) <= Len(log[n]) /\ \A j \in 1..Len(log[q]) : log[q][j].cmd = log[n][j].cmd
      BY <2>1, <2>4 DEF LedLogs, LogsFollow
    <3>2. CASE q = p
      <4>1. Len(log'[q]) <= Len(log[n])
        BY <2>2, <2>3, <3>2, <1>3, <2>1
      <4>2. ASSUME NEW j \in 1..Len(log'[q]) PROVE log'[q][j].cmd = log[n][j].cmd
        <5>1. CASE j = i
          BY <2>2, <2>3, <3>2, <5>1
        <5>2. CASE j # i
          <6>1. j \in 1..Len(log[p])
            BY <2>1, <2>2, <3>2, <5>2
          <6> QED BY <2>2, <3>1, <3>2, <6>1
        <5> QED BY <5>1, <5>2
      <4> QED BY <4>1, <4>2
    <3>3. CASE q # p
      BY <2>2, <3>1, <3>3
    <3> QED BY <3>2, <3>3
  <2>7. ASSUME NEW d \in Cmds, at[d].node # None, d # c PROVE at[d].index # i
    <3>1. log[n][at[d].index].cmd = d
      BY <2>4, <2>7 DEF LedLogs, PositionsKept
    <3> QED BY <2>3, <2>7, <3>1
  <2>8. AppendsFit'
    <3>1. ASSUME NEW l \in net', NEW d \in Cmds, l.by = Submission(d) PROVE AppendFits(l, d)'
      <4>1. AppendFits(l, d) /\ l \in net /\ l # m
        BY <1>2, <3>1 DEF LedLogs, AppendsFit
      <4>2. CASE l.dst # p
        <5>1. l.dst \in Server
          BY <4>1 DEF TypeInv, TypeOK, Message
        <5> QED BY <1>2, <2>2, <4>1, <4>2, <5>1 DEF AppendFits
      <4>3. CASE l.dst = p
        <5>1. d # c
          BY <1>7, <3>1, <4>1, <4>3 DEF LedLogs, AppendsFit, p
        <5>2. at[d].index # i /\ at[d].index \in Nat
          BY <2>7, <4>1, <5>1 DEF AppendFits, TypeInv, TypeOK
        <5>3. l.index = at[d].index - 1 /\ Len(log[p]) <= l.index
          BY <4>1, <4>3 DEF AppendFits
        <5>4. Len(log'[p]) <= l.index
          BY <2>1, <2>2, <5>2, <5>3
        <5> QED BY <1>2, <4>1, <4>3, <5>4 DEF AppendFits
      <4> QED BY <4>2, <4>3
    <3> QED BY <1>2, <3>1 DEF LedLogs, AppendsFit
  <2>9. AsksOnce'
    <3> SUFFICES ASSUME NEW d \in Cmds, Submission(d) \in active
                 PROVE  /\ at[d].node # None /\ at[d].index = Len(log'[at[d].node])
                        /\ \A q \in todo[Submission(d)] :
                             /\ q # at[d].node /\ Len(log'[q]) < at[d].index
                             /\ \A l \in net' : l.by = Submission(d) => l.dst # q
      BY <1>2 DEF AsksOnce
    <3>1. at[d].node = n /\ at[d].node # None /\ at[d].index = Len(log'[n])
      BY <2>1, <2>2, <2>4 DEF LedLogs, AsksOnce
    <3>2. ASSUME NEW q \in todo[Submission(d)]
          PROVE  /\ q # n /\ Len(log'[q]) < at[d].index
                 /\ \A l \in net' : l.by = Submission(d) => l.dst # q
      <4>1. /\ q # n /\ Len(log[q]) < at[d].index
            /\ \A l \in net : l.by = Submission(d) => l.dst # q
        BY <3>1, <3>2 DEF LedLogs, AsksOnce
      <4>2. q \in Server /\ at[d].index \in Nat
        BY CoroutinesDiffer DEF TypeInv, TypeOK
      <4>3. CASE q # p
        BY <1>2, <2>2, <4>1, <4>2, <4>3
      <4>4. CASE q = p
        <5>1. d # c
          BY <1>7, <4>1, <4>4 DEF p
        <5>2. at[d].index # i
          BY <2>7, <3>1, <5>1
        <5> QED BY <1>2, <2>1, <2>2, <4>1, <4>2, <4>4, <5>2
      <4> QED BY <4>3, <4>4
    <3> QED BY <3>1, <3>2
  <2> QED BY <2>5, <2>6, <2>8, <2>9 DEF LedLogs
<1>8. m.entries = <<>> \/ \E c \in Cmds : m.by = Submission(c)
  BY DEF LedLogs, AppendsFit
<1> QED BY <1>1, <1>5, <1>6, <1>7, <1>8

LEMMA RestartLogs ==
  ASSUME TypeInv, Serial, Serial', LedLogs, NEW n \in Server, Restart(n)
  PROVE  LedLogs'
<1>1. /\ UNCHANGED <<at, won>> /\ role' = [role EXCEPT ![n] = "follower"]
      /\ log' = [log EXCEPT ![n] = <<>>] /\ restarted' = restarted \cup {n}
      /\ waiting' \subseteq waiting /\ active' \subseteq active
  BY DEF Restart, history
<1>2. \A v \in won : v[2] # n /\ v[2] \in Server
  BY <1>1 DEF Serial, LedByOne, TypeInv, TypeOK
<1>3. \A c \in Cmds : at[c].node # None => <<1, at[c].node>> \in won /\ at[c].node # n
  <2>1. ASSUME NEW c \in Cmds, at[c].node # None
        PROVE  <<1, at[c].node>> \in won /\ at[c].node # n
    <3>1. <<1, at[c].node>> \in won
      BY <2>1 DEF LedLogs, LeadersWon
    <3>2. <<1, at[c].node>>[2] # n
      BY <1>2, <3>1
    <3> QED BY <3>1, <3>2
  <2> QED BY <2>1
<1>4. /\ log'[n] = <<>> /\ Len(log'[n]) = 0
      /\ \A q \in Server : q # n => log'[q] = log[q]
      /\ \A q \in Server : Len(log'[q]) \in Nat /\ Len(log'[q]) <= Len(log[q]) /\ Len(log[q]) \in Nat
  BY <1>1 DEF TypeInv, TypeOK
<1>5. ASSUME NEW l \in net', NEW c \in Cmds, l.by = Submission(c)
      PROVE  l \in net /\ l.dst # n /\ l.dst \in Server
  <2>1. CASE l \in net /\ l.src # n /\ l.dst # n
    BY <2>1 DEF TypeInv, TypeOK, Message
  <2>2. ASSUME NEW m \in net, m.src = n, l = [m EXCEPT !.attempt = 0] PROVE FALSE
    <3>1. l.by = m.by /\ m.src = n
      BY <2>2 DEF TypeInv, TypeOK, Message
    <3>2. AppendFits(m, c)
      BY <1>5, <3>1 DEF LedLogs, AppendsFit
    <3> QED BY <1>3, <2>2, <3>2 DEF AppendFits
  <2> QED BY <2>1, <2>2 DEF Restart
<1>6. \A l \in net' : l.entries = <<>> \/ \E c \in Cmds : l.by = Submission(c)
  <2>1. \A m \in net : LET l == [m EXCEPT !.attempt = 0]
                       IN  l.by = m.by /\ l.entries = m.entries
    BY DEF TypeInv, TypeOK, Message
  <2>2. \A m \in net : m.entries = <<>> \/ \E c \in Cmds : m.by = Submission(c)
    BY DEF LedLogs, AppendsFit
  <2>3. \A l \in net' : l \in net \/ \E m \in net : l = [m EXCEPT !.attempt = 0]
    BY DEF Restart
  <2> QED BY <2>1, <2>2, <2>3
<1>7. \A c \in Cmds : Submission(c) \in active =>
        Submission(c) \notin CoroutinesOf(n) /\ todo'[Submission(c)] = todo[Submission(c)]
  <2>1. ASSUME NEW c \in Cmds, Submission(c) \in active PROVE Submission(c) \notin CoroutinesOf(n)
    <3>1. at[c].node # n
      BY <1>3, <2>1 DEF LedLogs, AsksOnce
    <3> QED BY <3>1, CoroutinesDiffer DEF CoroutinesOf
  <2> QED BY <2>1, CoroutinesDiffer DEF Restart
<1>8. LeadersWon'
  BY <1>1 DEF LedLogs, LeadersWon, TypeInv, TypeOK
<1>9. PositionsKept'
  <2>1. \A c \in Cmds : at[c].node # None => at[c].node \in Server
    BY DEF TypeInv, TypeOK
  <2>2. ASSUME NEW d \in Cmds, at'[d].node # None
        PROVE  at'[d].index \in 1..Len(log'[at'[d].node]) /\ log'[at'[d].node][at'[d].index].cmd = d
    <3>1. at'[d] = at[d] /\ log'[at[d].node] = log[at[d].node]
      BY <1>1, <1>3, <1>4, <2>1, <2>2
    <3> QED BY <2>2, <3>1 DEF LedLogs, PositionsKept
  <2>3. ASSUME NEW v \in won', NEW j \in 1..Len(log'[v[2]])
        PROVE  LET d == log'[v[2]][j].cmd IN at'[d].node = v[2] /\ at'[d].index = j
    <3>1. v \in won /\ at' = at /\ log'[v[2]] = log[v[2]]
      BY <1>1, <1>2, <1>4
    <3> QED BY <2>3, <3>1 DEF LedLogs, PositionsKept
  <2> QED BY <2>2, <2>3 DEF PositionsKept
<1>10. LogsFollow'
  <2>1. won = {} => \A q \in Server : log'[q] = <<>>
    BY <1>4 DEF LedLogs, LogsFollow
  <2>2. ASSUME NEW v \in won, NEW q \in Server
        PROVE  /\ Len(log'[q]) <= Len(log'[v[2]])
               /\ \A i \in 1..Len(log'[q]) : log'[q][i].cmd = log'[v[2]][i].cmd
    <3>1. log'[v[2]] = log[v[2]] /\ Len(log[v[2]]) \in Nat
      BY <1>2, <1>4
    <3>2. Len(log[q]) <= Len(log[v[2]]) /\ \A i \in 1..Len(log[q]) : log[q][i].cmd = log[v[2]][i].cmd
      BY DEF LedLogs, LogsFollow
    <3>3. CASE q = n
      BY <1>4, <3>1, <3>3
    <3>4. CASE q # n
      BY <1>4, <3>1, <3>2, <3>4
    <3> QED BY <3>3, <3>4
  <2> QED BY <1>1, <2>1, <2>2 DEF LogsFollow
<1>11. AppendsFit'
  <2>1. ASSUME NEW l \in net', NEW c \in Cmds, l.by = Submission(c) PROVE AppendFits(l, c)'
    <3>1. AppendFits(l, c) /\ log'[l.dst] = log[l.dst]
      BY <1>4, <1>5, <2>1 DEF LedLogs, AppendsFit
    <3> QED BY <1>1, <3>1 DEF AppendFits
  <2> QED BY <1>1, <1>5, <1>6, <2>1 DEF LedLogs, AppendsFit
<1>12. AsksOnce'
  <2> SUFFICES ASSUME NEW c \in Cmds, Submission(c) \in active
               PROVE  /\ at[c].node # None /\ at[c].index = Len(log'[at[c].node])
                      /\ \A q \in todo[Submission(c)] :
                           /\ q # at[c].node /\ Len(log'[q]) < at[c].index
                           /\ \A l \in net' : l.by = Submission(c) => l.dst # q
    BY <1>1, <1>7 DEF AsksOnce
  <2>1. at[c].node # None /\ at[c].index = Len(log[at[c].node]) /\ at[c].node \in Server
    BY DEF LedLogs, AsksOnce, TypeInv, TypeOK
  <2>2. log'[at[c].node] = log[at[c].node]
    BY <1>3, <1>4, <2>1
  <2>3. ASSUME NEW q \in todo[Submission(c)]
        PROVE  /\ q # at[c].node /\ Len(log'[q]) < at[c].index
               /\ \A l \in net' : l.by = Submission(c) => l.dst # q
    <3>1. /\ q # at[c].node /\ Len(log[q]) < at[c].index
          /\ \A l \in net : l.by = Submission(c) => l.dst # q
      BY <2>3 DEF LedLogs, AsksOnce
    <3>2. q \in Server /\ at[c].index \in Nat
      BY CoroutinesDiffer DEF TypeInv, TypeOK
    <3> QED BY <1>4, <1>5, <3>1, <3>2
  <2> QED BY <2>1, <2>2, <2>3
<1> QED BY <1>8, <1>9, <1>10, <1>11, <1>12 DEF LedLogs

LEMMA StepLogs ==
  ASSUME TypeInv, LogInv, [Next]_vars PROVE LogInv'
<1> SUFFICES ASSUME Serial' PROVE OnlyFirstTerm' /\ LedLogs'
  BY DEF LogInv
<1>1. Serial /\ OnlyFirstTerm /\ LedLogs
  BY SerialBefore DEF LogInv
<1>2. OnlyFirstTerm'
  BY <1>1, FirstTermStays
<1>3. LedLogs'
  <2>1. ASSUME NEW n \in Server, FinishElection(n) \/ Restart(n) \/ \E c \in Cmds : Submit(n, c)
        PROVE  LedLogs'
    BY <1>1, <2>1, FinishElectionLogs, RestartLogs, SubmitLogs
  <2>2. ASSUME NEW c \in Cmds, SendAppend(c) PROVE LedLogs'
    BY <1>1, <2>2, SendAppendLogs
  <2>3. ASSUME NEW m \in net, NEW answered \in BOOLEAN, HandleAppendEntries(m, answered)
        PROVE  LedLogs'
    BY <1>1, <2>3, HandleAppendEntriesLogs
  <2> QED BY <1>1, <2>1, <2>2, <2>3, QuietStepsLogs DEF Next
<1> QED BY <1>2, <1>3

LEMMA LogsAgree == ASSUME TypeInv, CommitInv, LogInv PROVE SerialReplicationAgrees
<1> SUFFICES ASSUME Serial, NEW n \in Server, NEW k \in Server, NEW i \in 1..lastApplied[n],
                    i <= lastApplied[k]
             PROVE  log[n][i].cmd = log[k][i].cmd
  BY DEF SerialReplicationAgrees, ReplicasAgree, Agree
<1>1. i \in 1..Len(log[n]) /\ i \in 1..Len(log[k])
  BY DEF CommitInv, AppliedWithinLog, TypeInv, TypeOK
<1>2. LogsFollow
  BY DEF LogInv, LedLogs
<1>3. PICK v \in won : TRUE
  BY <1>1, <1>2 DEF LogsFollow
<1> QED BY <1>1, <1>2, <1>3 DEF LogsFollow

\* In one term and under one leader, with no submission overlapping another and no
\* append sent twice, the replicas apply the same commands in the same positions,
\* whatever is lost or late and whoever restarts (raft.py:108-140, 152-178).
THEOREM RaftSerialReplicationAgrees == Spec => []SerialReplicationAgrees
<1>1. Init => TypeInv /\ CommitInv /\ LogInv
  BY InitType, InitCommit, InitLogs
<1>2. TypeInv /\ CommitInv /\ LogInv /\ [Next]_vars => TypeInv' /\ CommitInv' /\ LogInv'
  BY StepType, StepCommit, StepLogs
<1>3. TypeInv /\ CommitInv /\ LogInv => SerialReplicationAgrees
  BY LogsAgree
<1> QED BY <1>1, <1>2, <1>3, PTL DEF Spec

-----------------------------------------------------------------------------
(* The replicated log that the serial behaviours implement *)

Held == [n \in Server |-> CmdsOf(log[n])]
AppliedCmds == [n \in Server |-> SubSeq(CmdsOf(log[n]), 1, lastApplied[n])]

LEMMA PrefixIs ==
  ASSUME NEW s, NEW a \in Nat PROVE SubSeq(s, 1, a) = [i \in 1..a |-> s[i]]
OBVIOUS

\* The commands of a log that is a prefix of another, and of its prefixes.
LEMMA PrefixCmds ==
  ASSUME NEW lg \in Seq(Entry), NEW ld \in Seq(Entry), Len(lg) <= Len(ld),
         \A i \in 1..Len(lg) : lg[i].cmd = ld[i].cmd, NEW a \in 0..Len(lg)
  PROVE  /\ SubSeq(CmdsOf(lg), 1, a) = SubSeq(CmdsOf(ld), 1, a)
         /\ CmdsOf(lg) = SubSeq(CmdsOf(ld), 1, Len(lg))
         /\ Len(CmdsOf(lg)) = Len(lg) /\ Len(SubSeq(CmdsOf(ld), 1, a)) = a
<1>1. Len(lg) \in Nat /\ Len(ld) \in Nat /\ a \in Nat
  OBVIOUS
<1>2. Len(CmdsOf(lg)) = Len(lg)
  BY <1>1 DEF CmdsOf
<1>3. SubSeq(CmdsOf(lg), 1, a) = SubSeq(CmdsOf(ld), 1, a)
  BY <1>1, PrefixIs DEF CmdsOf
<1>4. CmdsOf(lg) = SubSeq(CmdsOf(ld), 1, Len(lg))
  BY <1>1, PrefixIs DEF CmdsOf
<1>5. Len(SubSeq(CmdsOf(ld), 1, a)) = a
  BY <1>1, PrefixIs
<1> QED BY <1>2, <1>3, <1>4, <1>5

\* The order is the longest log: all others are prefixes of it.
OrderIsLog(ld) ==
  /\ Order = CmdsOf(ld)
  /\ \A q \in Server :
       Len(log[q]) <= Len(ld) /\ \A i \in 1..Len(log[q]) : log[q][i].cmd = ld[i].cmd

LEMMA TheOnlyOne ==
  ASSUME NEW S, NEW n, <<1, n>> \in S, \A v \in S : v = <<1, n>>
  PROVE  (CHOOSE v \in S : TRUE)[2] = n /\ S # {}
<1>1. (CHOOSE v \in S : TRUE) = <<1, n>>
  OBVIOUS
<1> QED BY <1>1

LEMMA OrderOfWinner ==
  ASSUME NEW n, <<1, n>> \in won, \A v \in won : v = <<1, n>>
  PROVE  Order = CmdsOf(log[n])
BY TheOnlyOne DEF Order, TheLeader

LEMMA NoCmds == CmdsOf(<<>>) = <<>> /\ SubSeq(CmdsOf(<<>>), 1, 0) = <<>>
<1>1. Len(<<>>) = 0 /\ 1..0 = {}
  OBVIOUS
<1>2. CmdsOf(<<>>) = <<>>
  BY <1>1 DEF CmdsOf
<1> QED BY <1>2

LEMMA OrderIsALog ==
  TypeInv /\ Serial /\ LedLogs => \E ld \in Seq(Entry) : OrderIsLog(ld)
<1> SUFFICES ASSUME TypeInv, Serial, LedLogs PROVE \E ld \in Seq(Entry) : OrderIsLog(ld)
  OBVIOUS
<1>1. CASE won = {}
  <2>1. <<>> \in Seq(Entry) /\ Len(<<>>) = 0 /\ Order = CmdsOf(<<>>)
    BY <1>1, NoCmds DEF Order
  <2>2. \A q \in Server : log[q] = <<>>
    BY <1>1 DEF LedLogs, LogsFollow
  <2>3. ASSUME NEW q \in Server
        PROVE  Len(log[q]) <= Len(<<>>) /\ \A i \in 1..Len(log[q]) : log[q][i].cmd = <<>>[i].cmd
    <3>1. log[q] = <<>> /\ Len(log[q]) = 0
      BY <2>1, <2>2
    <3> QED BY <3>1
  <2>4. OrderIsLog(<<>>)
    BY <2>1, <2>3 DEF OrderIsLog
  <2> QED BY <2>1, <2>4
<1>2. ASSUME NEW v \in won PROVE \E ld \in Seq(Entry) : OrderIsLog(ld)
  <2>1. \A w \in won : w = v
    BY DEF Serial, LedByOne
  <2>2. (CHOOSE w \in won : TRUE) = v
    BY <2>1
  <2>3. v[2] \in Server /\ log[v[2]] \in Seq(Entry)
    BY DEF TypeInv, TypeOK
  <2>4. Order = CmdsOf(log[v[2]])
    BY <2>2 DEF Order, TheLeader
  <2>5. OrderIsLog(log[v[2]])
    BY <2>4 DEF OrderIsLog, LedLogs, LogsFollow
  <2> QED BY <2>3, <2>5
<1> QED BY <1>1, <1>2

LEMMA StutterStep ==
  ASSUME UNCHANGED <<log, lastApplied, restarted>>, Order' = Order
  PROVE  UNCHANGED RL!vars
BY DEF RL!vars, CmdsOf

\* A node takes entries, and applies entries.
LEMMA AdvanceStep ==
  ASSUME TypeInv, TypeInv', CommitInv, CommitInv', NEW ld \in Seq(Entry), OrderIsLog(ld)',
         Order' = Order, UNCHANGED restarted, NEW q \in Server,
         \A k \in Server : k # q => log'[k] = log[k] /\ lastApplied'[k] = lastApplied[k],
         Len(log'[q]) >= Len(log[q]), lastApplied'[q] >= lastApplied[q]
  PROVE  RL!Advance(q)
<1> DEFINE h == Len(log'[q])
           a == lastApplied'[q]
<1>1. /\ log' \in [Server -> Seq(Entry)] /\ log \in [Server -> Seq(Entry)]
      /\ lastApplied' \in [Server -> Nat] /\ lastApplied \in [Server -> Nat]
  BY DEF TypeInv, TypeOK
<1>2. /\ h \in Nat /\ a \in 0..h /\ a \in Nat /\ Len(log[q]) \in Nat
      /\ lastApplied[q] \in 0..Len(log[q]) /\ log'[q] \in Seq(Entry)
  BY <1>1 DEF CommitInv, AppliedWithinLog
<1>3. /\ Order = CmdsOf(ld) /\ h <= Len(ld)
      /\ \A i \in 1..h : log'[q][i].cmd = ld[i].cmd
  BY DEF OrderIsLog
<1>4. /\ SubSeq(CmdsOf(log'[q]), 1, a) = RL!Upto(a)
      /\ CmdsOf(log'[q]) = RL!Upto(h)
  BY <1>2, <1>3, PrefixCmds DEF RL!Upto
<1>5. Held' = [Held EXCEPT ![q] = RL!Upto(h)]
  BY <1>4 DEF Held
<1>6. AppliedCmds' = [AppliedCmds EXCEPT ![q] = RL!Upto(a)]
  BY <1>1, <1>4 DEF AppliedCmds
<1>7. Len(Order) = Len(ld) /\ Len(ld) \in Nat
  BY <1>3 DEF CmdsOf
<1>8. Len(Held[q]) = Len(log[q]) /\ Len(AppliedCmds[q]) = lastApplied[q]
  <2>1. log[q] \in Seq(Entry)
    BY <1>1
  <2>2. Len(CmdsOf(log[q])) = Len(log[q]) /\ Len(SubSeq(CmdsOf(log[q]), 1, lastApplied[q])) = lastApplied[q]
    BY <1>2, <2>1, PrefixCmds
  <2> QED BY <2>2 DEF Held, AppliedCmds
<1>9. h \in Len(Held[q])..Len(Order) /\ a \in Len(AppliedCmds[q])..h
  BY <1>2, <1>3, <1>7, <1>8
<1>10. \E Q \in {S \in SUBSET Server : Majority(S)} : \A k \in Q \ restarted : Len(Held'[k]) >= a
  <2>1. PICK Q \in SUBSET Server : Majority(Q) /\ \A k \in Q \ restarted' : Len(log'[k]) >= a
    BY DEF CommitInv, AppliedHeld, HeldIn
  <2>2. \A k \in Server : Len(Held'[k]) = Len(log'[k])
    BY <1>1 DEF Held, CmdsOf
  <2> QED BY <2>1, <2>2
<1> HIDE DEF h, a
<1> QED BY <1>5, <1>6, <1>9, <1>10 DEF RL!Advance, Held, AppliedCmds

LEMMA ProposeStep ==
  ASSUME TypeInv, TypeInv', CommitInv, Serial, LedLogs, NEW n \in Server, NEW c \in Cmds, Submit(n, c)
  PROVE  RL!Propose(n, c)
<1> DEFINE e == [term |-> currentTerm[n], cmd |-> c]
           lg == Append(log[n], e)
<1>1. /\ log \in [Server -> Seq(Entry)] /\ log' = [log EXCEPT ![n] = lg] /\ log[n] \in Seq(Entry)
      /\ lastApplied \in [Server -> Nat] /\ e \in Entry
      /\ UNCHANGED <<won, lastApplied, restarted>> /\ <<1, n>> \in won /\ at[c].node = None
  BY DEF Submit, LedLogs, LeadersWon, TypeInv, TypeOK, Entry
<1>2. \A v \in won : v = <<1, n>> /\ v[2] = n
  BY <1>1, OneWinner
<1>3. Order = CmdsOf(log[n])
  BY <1>1, <1>2, OrderOfWinner
<1>4. Order' = CmdsOf(lg)
  <2>1. <<1, n>> \in won' /\ \A v \in won' : v = <<1, n>>
    BY <1>1, <1>2
  <2>2. (CHOOSE v \in won' : TRUE)[2] = n /\ won' # {}
    BY <2>1, TheOnlyOne
  <2>3. TheLeader' = n
    BY <2>2 DEF TheLeader
  <2>4. Order' = CmdsOf(log'[n])
    BY <2>2, <2>3 DEF Order
  <2> QED BY <1>1, <2>4
<1>5. CmdsOf(lg) = Append(CmdsOf(log[n]), c)
  <2>1. /\ Len(log[n]) \in Nat /\ Len(lg) = Len(log[n]) + 1 /\ lg[Len(log[n]) + 1] = e
        /\ \A i \in 1..Len(log[n]) : lg[i] = log[n][i]
    BY <1>1
  <2> HIDE DEF lg
  <2>2. e.cmd = c /\ Len(CmdsOf(log[n])) = Len(log[n])
    BY <2>1 DEF CmdsOf
  <2> HIDE DEF e
  <2> QED BY <2>1, <2>2 DEF CmdsOf
<1>6. \A i \in 1..Len(Order) : Order[i] # c
  <2>1. Len(Order) = Len(log[n]) /\ \A i \in 1..Len(log[n]) : Order[i] = log[n][i].cmd
    BY <1>1, <1>3 DEF CmdsOf
  <2>2. \A i \in 1..Len(log[n]) : at[log[n][i].cmd].node = n
    BY <1>1, <1>2 DEF LedLogs, PositionsKept
  <2>3. n # None
    BY ServerFacts
  <2>4. \A i \in 1..Len(log[n]) : log[n][i].cmd # c
    BY <1>1, <2>2, <2>3
  <2> QED BY <2>1, <2>4
<1> HIDE DEF lg
<1>7. Held[n] = Order /\ Held' = [Held EXCEPT ![n] = Order']
  BY <1>1, <1>3, <1>4 DEF Held
<1>8. AppliedCmds' = AppliedCmds
  <2> SUFFICES ASSUME NEW q \in Server
               PROVE  SubSeq(CmdsOf(log'[q]), 1, lastApplied[q]) = SubSeq(CmdsOf(log[q]), 1, lastApplied[q])
    BY <1>1 DEF AppliedCmds
  <2>1. CASE q # n
    BY <1>1, <2>1
  <2>2. CASE q = n
    <3>1. /\ log[n] \in Seq(Entry) /\ lg \in Seq(Entry) /\ Len(log[n]) <= Len(lg)
          /\ \A i \in 1..Len(log[n]) : log[n][i].cmd = lg[i].cmd
          /\ lastApplied[n] \in 0..Len(log[n])
      BY <1>1 DEF lg, CommitInv, AppliedWithinLog
    <3> QED BY <1>1, <2>2, <3>1, PrefixCmds
  <2> QED BY <2>1, <2>2
<1> QED BY <1>1, <1>4, <1>5, <1>3, <1>6, <1>7, <1>8 DEF RL!Propose, Held, AppliedCmds

LEMMA LoseStep ==
  ASSUME TypeInv, Serial', NEW n \in Server, Restart(n) PROVE RL!Lose(n)
<1>1. /\ log' = [log EXCEPT ![n] = <<>>] /\ lastApplied' = [lastApplied EXCEPT ![n] = 0]
      /\ restarted' = restarted \cup {n} /\ won' = won
      /\ log \in [Server -> Seq(Entry)] /\ lastApplied \in [Server -> Nat]
  BY DEF Restart, history, TypeInv, TypeOK
<1>2. Order' = Order
  <2>1. CASE won = {}
    BY <1>1, <2>1 DEF Order
  <2>2. ASSUME NEW v \in won PROVE Order' = Order
    <3>1. (CHOOSE w \in won : TRUE) \in won
      BY <2>2
    <3>2. TheLeader \in Server /\ TheLeader' = TheLeader /\ TheLeader # n
      BY <1>1, <3>1 DEF TheLeader, Serial, LedByOne, TypeInv, TypeOK
    <3>3. log'[TheLeader] = log[TheLeader]
      BY <1>1, <3>2
    <3> QED BY <1>1, <3>2, <3>3 DEF Order
  <2> QED BY <2>1, <2>2
<1>3. Held' = [Held EXCEPT ![n] = <<>>]
  BY <1>1, NoCmds DEF Held
<1>4. AppliedCmds' = [AppliedCmds EXCEPT ![n] = <<>>]
  BY <1>1, NoCmds DEF AppliedCmds
<1> QED BY <1>1, <1>2, <1>3, <1>4 DEF RL!Lose, Held, AppliedCmds

\* The leader's log is empty when it wins, as all logs are.
LEMMA ElectedStep ==
  ASSUME TypeInv, Serial, Serial', OnlyFirstTerm, LedLogs, NEW n \in Server, FinishElection(n)
  PROVE  UNCHANGED RL!vars
<1>1. UNCHANGED <<log, lastApplied, restarted>>
  BY DEF FinishElection
<1>2. won' = won \/ won' = won \cup {<<1, n>>}
  BY DEF FinishElection, Done, OnlyFirstTerm
<1>3. Order' = Order
  <2>1. CASE won' = won
    BY <1>1, <2>1 DEF Order, TheLeader
  <2>2. CASE won' = won \cup {<<1, n>>} /\ won = {}
    <3>1. <<1, n>> \in won' /\ \A v \in won' : v = <<1, n>>
      BY <2>2
    <3>2. (CHOOSE v \in won' : TRUE)[2] = n /\ won' # {}
      BY <3>1, TheOnlyOne
    <3>3. TheLeader' = n
      BY <3>2 DEF TheLeader
    <3>4. Order' = CmdsOf(log'[n])
      BY <3>2, <3>3 DEF Order
    <3>5. log'[n] = <<>>
      BY <1>1, <2>2 DEF LedLogs, LogsFollow
    <3> QED BY <2>2, <3>4, <3>5, NoCmds DEF Order
  <2>3. CASE won' = won \cup {<<1, n>>} /\ won # {}
    <3>1. \A v, w \in won' : v = w
      BY DEF Serial, LedByOne
    <3>2. won' = won
      BY <2>3, <3>1
    <3> QED BY <2>1, <3>2
  <2> QED BY <1>2, <2>1, <2>2, <2>3
<1> QED BY <1>1, <1>3, StutterStep

\* What the winner has not written leaves the order alone.
LEMMA OrderKept ==
  ASSUME won' = won, \A v \in won : log'[v[2]] = log[v[2]] PROVE Order' = Order
<1>1. CASE won = {}
  BY <1>1 DEF Order
<1>2. CASE won # {}
  <2>1. (CHOOSE w \in won : TRUE) \in won
    BY <1>2
  <2>2. TheLeader' = TheLeader /\ log'[TheLeader] = log[TheLeader]
    BY <2>1 DEF TheLeader
  <2> QED BY <2>2 DEF Order
<1> QED BY <1>1, <1>2

LEMMA AppendStep ==
  ASSUME TypeInv, TypeInv', CommitInv, CommitInv', Serial, Serial', LedLogs, LedLogs',
         NEW m \in net, NEW answered \in BOOLEAN, HandleAppendEntries(m, answered)
  PROVE  RL!Advance(m.dst)
<1>1. PICK ok \in BOOLEAN :
        /\ ok => Matches(m.dst, m) /\ log' = [log EXCEPT ![m.dst] = @ \o m.entries]
        /\ ~ok => UNCHANGED log
  BY AppendHandled DEF TypeInv
<1>2. m.dst \in Server /\ m.entries \in Seq(Entry) /\ log \in [Server -> Seq(Entry)]
  <2>1. m \in Message /\ log \in [Server -> Seq(Entry)]
    BY DEF TypeInv, TypeOK
  <2> QED BY <2>1 DEF Message
<1>3. UNCHANGED <<won, restarted>>
  BY DEF HandleAppendEntries, history
<1>4. /\ \A k \in Server : k # m.dst => log'[k] = log[k]
      /\ Len(log'[m.dst]) >= Len(log[m.dst])
      /\ m.entries = <<>> => log' = log
  <2>1. CASE ok
    <3>1. /\ Len(log[m.dst]) \in Nat /\ Len(m.entries) \in Nat
          /\ Len(log[m.dst] \o m.entries) = Len(log[m.dst]) + Len(m.entries)
          /\ m.entries = <<>> => log[m.dst] \o m.entries = log[m.dst]
      <4>1. log[m.dst] \in Seq(Entry)
        BY <1>2
      <4>2. Len(log[m.dst] \o m.entries) = Len(log[m.dst]) + Len(m.entries)
        BY <1>2, <4>1, ConcatProperties
      <4>3. log[m.dst] \o <<>> = log[m.dst]
        BY <4>1, ConcatEmptySeq
      <4> QED BY <1>2, <4>1, <4>2, <4>3, LenProperties
    <3>2. log'[m.dst] = log[m.dst] \o m.entries /\ \A k \in Server : k # m.dst => log'[k] = log[k]
      BY <1>1, <1>2, <2>1
    <3>3. m.entries = <<>> => log' = log
      BY <1>1, <1>2, <2>1, <3>1
    <3>4. Len(log'[m.dst]) = Len(log[m.dst]) + Len(m.entries)
      BY <3>1, <3>2
    <3>5. Len(log'[m.dst]) >= Len(log[m.dst])
      <4> DEFINE a == Len(log[m.dst])
                 b == Len(m.entries)
      <4>1. a \in Nat /\ b \in Nat /\ Len(log'[m.dst]) = a + b
        BY <3>1, <3>4
      <4> HIDE DEF a, b
      <4>2. Len(log'[m.dst]) >= a
        BY <4>1
      <4> QED BY <4>2 DEF a
    <3> QED BY <3>2, <3>3, <3>5
  <2>2. CASE ~ok
    <3>1. log' = log /\ Len(log[m.dst]) \in Nat
      BY <1>1, <1>2, <2>2
    <3> QED BY <3>1
  <2> QED BY <2>1, <2>2
<1>5. /\ \A k \in Server : k # m.dst => lastApplied'[k] = lastApplied[k]
      /\ lastApplied'[m.dst] >= lastApplied[m.dst]
  <2>1. lastApplied \in [Server -> Nat] /\ lastApplied' \in [Server -> Nat]
    BY DEF TypeInv, TypeOK
  <2>2. CASE lastApplied' = lastApplied
    BY <1>2, <2>1, <2>2
  <2>3. CASE lastApplied' = [lastApplied EXCEPT ![m.dst] = Applied(m.dst, FollowerCommit(m.dst, m))]
    <3>1. lastApplied'[m.dst] = lastApplied[m.dst] \/ lastApplied[m.dst] < lastApplied'[m.dst]
      BY <1>2, <2>1, <2>3 DEF Applied
    <3>2. \A k \in Server : k # m.dst => lastApplied'[k] = lastApplied[k]
      BY <2>1, <2>3
    <3> QED BY <1>2, <2>1, <3>1, <3>2
  <2> QED BY <2>2, <2>3 DEF HandleAppendEntries, node
<1>6. \A v \in won : log'[v[2]] = log[v[2]]
  <2>1. CASE log' = log
    BY <2>1
  <2>2. ASSUME NEW c \in Cmds, m.by = Submission(c), ok PROVE \A v \in won : log'[v[2]] = log[v[2]]
    <3>1. m.dst # at[c].node /\ <<1, at[c].node>> \in won /\ at[c].node \in Server
      BY <1>1, <2>2, AcceptedAppend
    <3>2. \A v \in won : v[2] = at[c].node
      BY <3>1, OneWinner
    <3> QED BY <1>4, <3>1, <3>2
  <2>3. CASE m.entries = <<>> /\ ok
    BY <1>4, <2>3
  <2>4. m.entries = <<>> \/ \E c \in Cmds : m.by = Submission(c)
    BY DEF LedLogs, AppendsFit
  <2> QED BY <1>1, <2>1, <2>2, <2>3, <2>4
<1>7. Order' = Order
  BY <1>3, <1>6, OrderKept
<1>8. (\E ld \in Seq(Entry) : OrderIsLog(ld))'
  BY OrderIsALog, PTL
<1>9. PICK ld \in Seq(Entry) : OrderIsLog(ld)'
  BY <1>8
<1> QED BY <1>2, <1>3, <1>4, <1>5, <1>7, <1>9, AdvanceStep

\* A submission that is over moves the applied commands of its own node.
LEMMA SubmittedStep ==
  ASSUME TypeInv, TypeInv', CommitInv, CommitInv', Serial, Serial', LedLogs, LedLogs',
         NEW c \in Cmds, FinishSubmit(c)
  PROVE  \E n \in Server : RL!Advance(n)
<1>1. PICK n \in Server : n = at[c].node
  <2>1. at[c].node # None
    BY DEF FinishSubmit, Done, LedLogs, AsksOnce
  <2> QED BY <2>1 DEF TypeInv, TypeOK
<1>2. /\ at[c].index \in Nat /\ log \in [Server -> Seq(Entry)]
      /\ lastApplied \in [Server -> Nat] /\ lastApplied' \in [Server -> Nat]
  BY DEF TypeInv, TypeOK
<1>3. UNCHANGED <<log, won, restarted>>
  BY DEF FinishSubmit, history
<1>4. /\ \A k \in Server : k # n => log'[k] = log[k] /\ lastApplied'[k] = lastApplied[k]
      /\ lastApplied'[n] >= lastApplied[n]
  <2>1. CASE lastApplied' = lastApplied
    BY <1>2, <1>3, <2>1
  <2>2. CASE lastApplied' = [lastApplied EXCEPT ![n] = Applied(n, at[c].index)]
    BY <1>2, <1>3, <2>2 DEF Applied
  <2> QED BY <1>1, <2>1, <2>2 DEF FinishSubmit
<1>5. Len(log'[n]) >= Len(log[n])
  BY <1>2, <1>3
<1>6. Order' = Order
  BY <1>3, OrderKept
<1>7. (\E ld \in Seq(Entry) : OrderIsLog(ld))'
  BY OrderIsALog, PTL
<1>8. PICK ld \in Seq(Entry) : OrderIsLog(ld)'
  BY <1>7
<1> QED BY <1>3, <1>4, <1>5, <1>6, <1>8, AdvanceStep

\* Everything else leaves the logs, and what is applied of them, alone.
LEMMA SilentStep ==
  ASSUME \/ UNCHANGED vars
         \/ \E n \in Server : \/ StartElection(n) \/ SendVoteRequest(n)
                             \/ StartRound(n) \/ SendHeartbeat(n)
         \/ \E c \in Cmds : SendAppend(c)
         \/ \E m \in net, answered \in BOOLEAN : HandleRequestVote(m, answered)
         \/ \E m \in waiting : Retry(m) \/ GiveUp(m)
  PROVE  UNCHANGED RL!vars
<1> DEFINE Same == UNCHANGED <<log, lastApplied, restarted, won>>
<1>1. ASSUME UNCHANGED vars PROVE Same
  BY <1>1 DEF vars, node, history
<1>2. ASSUME NEW n \in Server, \/ StartElection(n) \/ SendVoteRequest(n)
                               \/ StartRound(n) \/ SendHeartbeat(n)
      PROVE  Same
  BY <1>2 DEF StartElection, SendVoteRequest, StartRound, SendHeartbeat, node, history
<1>3. ASSUME NEW c \in Cmds, SendAppend(c) PROVE Same
  BY <1>3 DEF SendAppend, node, history
<1>4. ASSUME NEW m \in net, NEW answered \in BOOLEAN, HandleRequestVote(m, answered) PROVE Same
  BY <1>4 DEF HandleRequestVote
<1>5. ASSUME NEW m \in waiting, Retry(m) \/ GiveUp(m) PROVE Same
  BY <1>5 DEF Retry, GiveUp, node, history
<1>6. Same
  <2> HIDE DEF Same
  <2> QED BY <1>1, <1>2, <1>3, <1>4, <1>5
<1>7. Order' = Order
  BY <1>6, OrderKept
<1> QED BY <1>6, <1>7, StutterStep

LEMMA InitMaps == Init => RL!Init
<1> SUFFICES ASSUME Init PROVE RL!Init
  OBVIOUS
<1>1. Order = <<>> /\ restarted = {} /\ \A n \in Server : log[n] = <<>> /\ lastApplied[n] = 0
  BY DEF Init, Order
<1> QED BY <1>1, NoCmds DEF RL!Init

LEMMA StepMaps ==
  ASSUME TypeInv, TypeInv', CommitInv, CommitInv', LogInv, LogInv', [Next /\ Serial']_vars
  PROVE  [RL!Next]_(RL!vars)
<1>1. CASE UNCHANGED vars
  BY <1>1, SilentStep
<1>2. CASE Next /\ Serial'
  <2>1. Serial /\ Serial' /\ OnlyFirstTerm /\ LedLogs /\ LedLogs'
    BY <1>2, SerialBefore DEF LogInv
  <2>2. ASSUME NEW n \in Server, FinishElection(n) PROVE UNCHANGED RL!vars
    BY <2>1, <2>2, ElectedStep
  <2>3. ASSUME NEW n \in Server, NEW c \in Cmds, Submit(n, c) PROVE RL!Propose(n, c)
    BY <2>1, <2>3, ProposeStep
  <2>4. ASSUME NEW n \in Server, Restart(n) PROVE RL!Lose(n)
    BY <2>1, <2>4, LoseStep
  <2>5. ASSUME NEW c \in Cmds, FinishSubmit(c) PROVE \E n \in Server : RL!Advance(n)
    BY <2>1, <2>5, SubmittedStep
  <2>6. ASSUME NEW m \in net, NEW answered \in BOOLEAN, HandleAppendEntries(m, answered)
        PROVE  m.dst \in Server /\ RL!Advance(m.dst)
    <3>1. m.dst \in Server
      BY DEF TypeInv, TypeOK, Message
    <3> QED BY <2>1, <2>6, <3>1, AppendStep
  <2>7. ASSUME \E r \in Server : RL!Advance(r) \/ RL!Lose(r) \/ \E c \in Cmds : RL!Propose(r, c)
        PROVE  [RL!Next]_(RL!vars)
    BY <2>7 DEF RL!Next
  <2>8. CASE \E n \in Server : \/ FinishElection(n) \/ Restart(n) \/ \E c \in Cmds : Submit(n, c)
    BY <2>2, <2>3, <2>4, <2>7, <2>8
  <2>9. CASE \E c \in Cmds : FinishSubmit(c)
    BY <2>5, <2>7, <2>9
  <2>10. CASE \E m \in net, answered \in BOOLEAN : HandleAppendEntries(m, answered)
    BY <2>6, <2>7, <2>10
  <2> QED BY <1>2, <2>8, <2>9, <2>10, SilentStep DEF Next
<1> QED BY <1>1, <1>2

LEMMA SerialMaps ==
  ASSUME TypeInv, TypeInv', CommitInv, CommitInv', LogInv, LogInv', [Next]_vars
  PROVE  [Serial' => [RL!Next]_(RL!vars)]_vars
BY StepMaps

\* Raft, as long as it is serial, is a replicated log: what a submission, an append
\* that is handled or a restart does to the logs is a step of the abstract one, and
\* nothing else touches them (raft.py:108-140, 152-178).
THEOREM RaftImplementsReplicatedLog == Spec => ImplementsReplicatedLog
<1>1. Init => TypeInv /\ CommitInv /\ LogInv
  BY InitType, InitCommit, InitLogs
<1>2. TypeInv /\ CommitInv /\ LogInv /\ [Next]_vars => TypeInv' /\ CommitInv' /\ LogInv'
  BY StepType, StepCommit, StepLogs
<1>3. Init => (Serial => RL!Init)
  BY InitMaps
<1> QED BY <1>1, <1>2, <1>3, SerialMaps, PTL DEF Spec, ImplementsReplicatedLog

\* The behaviours that stay serial implement the abstract specification itself: in
\* one term, with one leader and one submission at a time, the nodes are one
\* replicated log (raft.py:108-140, 152-178).
THEOREM RaftSerialIsReplicatedLog == SerialSpec => RL!Spec
<1>1. Init => TypeInv /\ CommitInv /\ LogInv
  BY InitType, InitCommit, InitLogs
<1>2. TypeInv /\ CommitInv /\ LogInv /\ [Next /\ Serial']_vars => TypeInv' /\ CommitInv' /\ LogInv'
  BY StepType, StepCommit, StepLogs
<1>3. Init => RL!Init
  BY InitMaps
<1> QED BY <1>1, <1>2, <1>3, StepMaps, PTL DEF SerialSpec, RL!Spec

=============================================================================
