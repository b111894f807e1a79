----------------------------- MODULE LockService -----------------------------
(***************************************************************************)
(* The lock routes of src/src/nodes/lock_manager.py and class LockRSM: how *)
(* a request reaches the leader, becomes a command of its log, and gets    *)
(* the result of that command.  /lock/acquire, /lock/release and           *)
(* /lock/deadlock_probe do this alike and are one here; what the commands  *)
(* do to the table is the subject of LockTable, and the result of a        *)
(* command is known by the index of its entry.                             *)
(*                                                                         *)
(* The module is about a time in which one node leads, as seen from that   *)
(* node.  A handler is a coroutine that suspends while submit() replicates *)
(* its entry and while it waits for its future.  The loop that applies     *)
(* commands (RaftNode._apply_commits, LockRSM.apply_cmd) never suspends:   *)
(* while it runs, the leader does nothing else.  It runs inside the        *)
(* submit() of some handler, and a command whose body lacks a field raises *)
(* in it: the loop ends there, and that handler fails with it.             *)
(***************************************************************************)
EXTENDS Integers, Sequences

CONSTANTS Calls,        \* requests of clients, each sent to some node
          Incomplete,   \* those whose body lacks a field of the command
          MaxAttempts,  \* post_json's stop_after_attempt
          MaxFaults     \* bound: posts that time out

ASSUME IncompleteAssumption == Incomplete \subseteq Calls
ASSUME AttemptsAssumption == MaxAttempts \in Nat \ {0}
ASSUME FaultsAssumption == MaxFaults \in Nat

VARIABLES call,      \* "idle", "asked", or how it ended: "result", "pending", "failed"
          proxied,   \* the calls made to a follower
          named,     \* the calls whose body brings a req_id
          attempt,   \* of each call, the posts made for it
          handler,   \* of each post, what the leader's handler of it is doing
          log,       \* the post behind every entry of the leader's log
          commit,    \* commit_index
          applied,   \* last_applied
          applier,   \* the post in whose submit() the loop runs that applies, or NoPost
          pending,   \* LockRSM._pending: of each req_id, the handler that waits, or NoPost
          result,    \* of each handler's future, the entry whose result it has, or 0
          answer,    \* of each call, the entry whose result it was answered with, or 0
          faults     \* timeouts so far, for MaxFaults

raft == <<log, commit, applied, applier>>
vars == <<call, proxied, named, attempt, handler, raft, pending, result, answer, faults>>

Post == Calls \X (1..MaxAttempts)
CallOf(p) == p[1]
NoPost == <<>>

\* Mutated form of ReqId: one id for all that a client sends.
ReqIdOfClient(p) == <<CHOOSE c \in Calls : TRUE, 0>>

\* body.get("req_id") or uuid4(): a retried post brings the same body again.
ReqId(p) == IF CallOf(p) \in named THEN <<CallOf(p), 0>> ELSE p
ReqIds == Calls \X (0..MaxAttempts)

\* Mutated form of IndexOf: the index after the entry's.
IndexAfter(p) == {i + 1 : i \in {j \in 1..Len(log) : log[j] = p}}

\* index = len(self.log), when the entry of p was just appended.
IndexOf(p) == {i \in 1..Len(log) : log[i] = p}

Init ==
  /\ call = [c \in Calls |-> "idle"] /\ proxied = {} /\ named = {}
  /\ attempt = [c \in Calls |-> 0]
  /\ handler = [p \in Post |-> "none"]
  /\ log = <<>> /\ commit = 0 /\ applied = 0 /\ applier = NoPost
  /\ pending = [id \in ReqIds |-> NoPost]
  /\ result = [p \in Post |-> 0]
  /\ answer = [c \in Calls |-> 0]
  /\ faults = 0

-----------------------------------------------------------------------------
(* The caller: a client, or the follower it sent its request to *)

\* A node that finds no leader answers 503 at once.
NoLeader(c) ==
  /\ call[c] = "idle"
  /\ call' = [call EXCEPT ![c] = "failed"]
  /\ proxied' = proxied \cup {c}
  /\ UNCHANGED <<named, attempt, handler, raft, pending, result, answer, faults>>

Ask(c, byProxy, withId) ==
  /\ call[c] = "idle"
  /\ call' = [call EXCEPT ![c] = "asked"]
  /\ proxied' = IF byProxy THEN proxied \cup {c} ELSE proxied
  /\ named' = IF withId THEN named \cup {c} ELSE named
  /\ attempt' = [attempt EXCEPT ![c] = 1]
  /\ handler' = [handler EXCEPT ![<<c, 1>>] = "sent"]
  /\ UNCHANGED <<raft, pending, result, answer, faults>>

\* The last post was answered 500, or it times out.
Refused(c) == attempt[c] > 0 /\ handler[<<c, attempt[c]>>] = "raised"
Fails(c) ==
  /\ call[c] = "asked"
  /\ \/ Refused(c) /\ UNCHANGED faults
     \/ ~Refused(c) /\ faults < MaxFaults /\ faults' = faults + 1

\* post_json again.  The earlier post may be handled, be it later.
Retry(c) ==
  /\ Fails(c) /\ c \in proxied /\ attempt[c] < MaxAttempts
  /\ attempt' = [attempt EXCEPT ![c] = @ + 1]
  /\ handler' = [handler EXCEPT ![<<c, attempt[c] + 1>>] = "sent"]
  /\ UNCHANGED <<call, proxied, named, raft, pending, result, answer>>

GiveUp(c) ==
  /\ Fails(c) /\ (c \in proxied => attempt[c] = MaxAttempts)
  /\ call' = [call EXCEPT ![c] = "failed"]
  /\ UNCHANGED <<proxied, named, attempt, handler, raft, pending, result, answer>>

\* The reply to the last post is in.
Answered(c) ==
  LET p == <<c, attempt[c]>> IN
  /\ call[c] = "asked" /\ handler[p] = "done"
  /\ call' = [call EXCEPT ![c] = IF result[p] = 0 THEN "pending" ELSE "result"]
  /\ answer' = [answer EXCEPT ![c] = result[p]]
  /\ UNCHANGED <<proxied, named, attempt, handler, raft, pending, result, faults>>

-----------------------------------------------------------------------------
(* The leader *)

Applying == applier # NoPost

\* Mutated form of Registered: the future is not registered before submit().
NotRegistered(p) == pending

Registered(p) == [pending EXCEPT ![ReqId(p)] = p]

\* _register_wait, and submit() up to its first request.  The role was checked
\* without suspending in between, so that submit() never answers False.
Handle(p) ==
  /\ handler[p] = "sent" /\ ~Applying
  /\ handler' = [handler EXCEPT ![p] = "replicating"]
  /\ pending' = Registered(p)
  /\ log' = Append(log, p)
  /\ UNCHANGED <<call, proxied, named, attempt, commit, applied, applier, result, answer, faults>>

\* The end of _replicate, with a majority, and then the loop applies what is
\* committed, or without; an entry without one is committed by the next entry
\* that has one.
Replicated(p, majority) ==
  /\ handler[p] = "replicating" /\ ~Applying
  /\ handler' = [handler EXCEPT ![p] = "waiting"]
  /\ IF majority
     THEN \E i \in IndexOf(p) :
            commit' = i /\ applier' = IF applied < i THEN p ELSE NoPost
     ELSE UNCHANGED <<commit, applier>>
  /\ UNCHANGED <<call, proxied, named, attempt, log, applied, pending, result, answer, faults>>

\* Mutated form of Unregistered: only a future that is still open is removed.
UnregisteredIfOpen(id) ==
  IF pending[id] # NoPost /\ handler[pending[id]] # "done"
  THEN [pending EXCEPT ![id] = NoPost] ELSE pending

Unregistered(id) == [pending EXCEPT ![id] = NoPost]

\* Mutated form of NextTurn: one command is applied, and no more.
OneTurn == NoPost

\* while self.last_applied < self.commit_index
NextTurn == IF applied + 1 < commit THEN applier ELSE NoPost

Raises(i) == CallOf(log[i]) \in Incomplete

\* One turn of _apply_commits, with apply_cmd: whoever waits under the id of the
\* command gets the result, unless its future was cancelled.
Apply ==
  LET i  == applied + 1
      id == ReqId(log[i])
      p  == pending[id] IN
  /\ Applying /\ ~Raises(i)
  /\ applied' = i
  /\ applier' = NextTurn
  /\ pending' = Unregistered(id)
  /\ result' = IF p # NoPost /\ handler[p] # "done"
               THEN [result EXCEPT ![p] = i] ELSE result
  /\ UNCHANGED <<call, proxied, named, attempt, handler, log, commit, answer, faults>>

\* A turn in which LockTable.apply raises.  last_applied is past the command, whose
\* future stays in _pending; the handler that was applying answers 500.
Raise ==
  /\ Applying /\ Raises(applied + 1)
  /\ applied' = applied + 1
  /\ applier' = NoPost
  /\ handler' = [handler EXCEPT ![applier] = "raised"]
  /\ UNCHANGED <<call, proxied, named, attempt, log, commit, pending, result, answer, faults>>

\* Mutated form of Ends: wait_for without its timeout.
EndsWithResult(p) == result[p] # 0

\* wait_for(fut, 2.0): the result, or the future is cancelled after 2 s.
Ends(p) == TRUE

Reply(p) ==
  /\ handler[p] = "waiting" /\ Ends(p) /\ ~Applying
  /\ handler' = [handler EXCEPT ![p] = "done"]
  /\ UNCHANGED <<call, proxied, named, attempt, raft, pending, result, answer, faults>>

-----------------------------------------------------------------------------
Next ==
  \/ \E c \in Calls : \/ NoLeader(c) \/ Retry(c) \/ GiveUp(c) \/ Answered(c)
                      \/ \E byProxy, withId \in BOOLEAN : Ask(c, byProxy, withId)
  \/ \E p \in Post : \/ Handle(p) \/ Reply(p)
                     \/ \E majority \in BOOLEAN : Replicated(p, majority)
  \/ Apply \/ Raise

Spec == Init /\ [][Next]_vars

\* The event loops run, a post that is waited for arrives, replication ends after
\* at most three tries per peer, and time passes.
Awaited(p) == call[CallOf(p)] = "asked" /\ p[2] = attempt[CallOf(p)]
FairSpec ==
  /\ Spec /\ WF_vars(Apply) /\ WF_vars(Raise)
  /\ \A c \in Calls : /\ WF_vars(Answered(c))
                       /\ WF_vars(Refused(c) /\ (Retry(c) \/ GiveUp(c)))
  /\ \A p \in Post : /\ WF_vars(Awaited(p) /\ Handle(p)) /\ WF_vars(Reply(p))
                     /\ WF_vars(\E majority \in BOOLEAN : Replicated(p, majority))

-----------------------------------------------------------------------------
(* Properties *)

TypeOK ==
  /\ call \in [Calls -> {"idle", "asked", "result", "pending", "failed"}]
  /\ proxied \in SUBSET Calls /\ named \in SUBSET Calls
  /\ attempt \in [Calls -> 0..MaxAttempts]
  /\ handler \in [Post -> {"none", "sent", "replicating", "waiting", "done", "raised"}]
  /\ log \in Seq(Post)
  /\ commit \in 0..Len(log) /\ applied \in 0..Len(log) /\ applier \in Post \cup {NoPost}
  /\ pending \in [ReqIds -> Post \cup {NoPost}]
  /\ result \in [Post -> Nat]
  /\ answer \in [Calls -> Nat]
  /\ faults \in 0..MaxFaults

\* A call is only answered with the result of one of its own commands, applied
\* before, however posts are repeated, arrive late or overlap; and without a
\* req_id of its own a handler only gets the result of its own command
\* (lock_manager.py:153-158).
AnswersAreOwn ==
  /\ \A p \in Post : result[p] # 0 =>
       /\ result[p] <= applied
       /\ CallOf(log[result[p]]) = CallOf(p)
       /\ CallOf(p) \in named \/ log[result[p]] = p
  /\ \A c \in Calls : answer[c] # 0 => CallOf(log[answer[c]]) = c

\* _pending keeps only ids of commands still to be applied, and of commands that
\* raised: what is left in it for good are these and the commands that are never
\* committed (lock_manager.py:155-156).
PendingIsOpen ==
  \A id \in ReqIds : pending[id] # NoPost =>
    \E i \in 1..Len(log) : ReqId(log[i]) = id /\ (i > applied \/ Raises(i))

\* lock_manager.py:239, "accepted tapi belum dapat hasil" (accepted but there is
\* no result yet): a handler without a result is one whose command is not
\* applied, or raised, unless a repeated post with the same req_id took its place.
Replaced(p) ==
  CallOf(p) \in named /\ \E q \in Post : q # p /\ ReqId(q) = ReqId(p) /\ IndexOf(q) # {}
WaitersAreUnapplied ==
  \A p \in Post : handler[p] \in {"replicating", "waiting"} /\ result[p] = 0 =>
    Replaced(p) \/ \A i \in IndexOf(p) : i > applied \/ Raises(i)

\* A committed command is held up by nothing but the loop that applies, or a
\* command before it that raised: commit indexes that go back (raft.py:138), and
\* loops that one handler runs for the commands of others, leave none behind.
OnlyRaisingStops ==
  applied < commit /\ ~Applying => applied > 0 /\ Raises(applied)

\* Only a request that is incomplete is answered 500.  It does not hold: the
\* handler in whose submit() a command raises need not be that command's
\* (LockServiceRaise.cfg).
OnlyIncompleteFails == \A p \in Post : handler[p] = "raised" => CallOf(p) \in Incomplete

\* Every call ends, although entries without a majority may never be applied.
AskedIsAnswered == \A c \in Calls : call[c] = "asked" ~> call[c] # "asked"

\* No call is applied twice.  It does not hold: the proxy of lock_manager.py:221
\* posts again what the leader is still busy with (LockServiceTwice.cfg).
AppliedOnce ==
  \A i, j \in 1..applied : CallOf(log[i]) = CallOf(log[j]) => i = j

=============================================================================
