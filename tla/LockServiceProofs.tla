-------------------------- MODULE LockServiceProofs --------------------------
(***************************************************************************)
(* The lock service hands out results as LockService says, for any number  *)
(* of requests, of repeated posts and of timeouts.                         *)
(*                                                                         *)
(* The argument: a handler is registered in _pending under the id of its   *)
(* command, from before its command is in the log until that command, or   *)
(* another with the same id, is applied.  So the handler found under the   *)
(* id of a command is that command's, or one of the same client's id.      *)
(***************************************************************************)
EXTENDS LockService, TLAPS

AttemptsCount ==
  \A c \in Calls : /\ call[c] = "asked" => attempt[c] \in 1..MaxAttempts
                   /\ call[c] = "idle" => attempt[c] = 0

Handled(p) == handler[p] \in {"replicating", "waiting", "done", "raised"}
UnsentIsUnknown == \A p \in Post : p[2] > attempt[CallOf(p)] => handler[p] = "none"
LogIsHandled == \A i \in 1..Len(log) : Handled(log[i])
LogIsUnique == \A i, j \in 1..Len(log) : log[i] = log[j] => i = j

PendingIsNamed ==
  \A id \in ReqIds : pending[id] # NoPost =>
    ReqId(pending[id]) = id /\ Handled(pending[id])

Waiting(p) == handler[p] \in {"replicating", "waiting"} /\ result[p] = 0
WaiterIsPending == \A p \in Post : Waiting(p) => Replaced(p) \/ pending[ReqId(p)] = p

AnswersAreApplied == \A c \in Calls : answer[c] <= applied

\* The loop that applies has something left, and its handler awaits its own future next.
LoopInv == Applying => applied < commit /\ handler[applier] = "waiting"

ServiceInv ==
  /\ TypeOK /\ AttemptsCount
  /\ UnsentIsUnknown /\ LogIsHandled /\ LogIsUnique /\ PendingIsNamed
  /\ WaiterIsPending /\ PendingIsOpen
  /\ AnswersAreOwn /\ AnswersAreApplied
  /\ LoopInv /\ OnlyRaisingStops

-----------------------------------------------------------------------------
LEMMA PostIsSomething == \A p \in Post : p # NoPost
<1> TAKE p \in Post
<1>2. Len(p) = 2
  BY DEF Post
<1>3. Len(NoPost) = 0
  BY DEF NoPost
<1> QED BY <1>2, <1>3

\* A request id is one call's, and one post's unless the call brings it.
LEMMA ReqIdFacts ==
  /\ \A p \in Post : ReqId(p) \in ReqIds /\ CallOf(p) \in Calls /\ p[2] \in 1..MaxAttempts
  /\ \A p, q \in Post : ReqId(p) = ReqId(q) =>
       CallOf(p) = CallOf(q) /\ (p = q \/ CallOf(p) \in named)
<1>1. \A p \in Post : /\ p = <<p[1], p[2]>> /\ p[1] \in Calls
                      /\ p[2] \in 1..MaxAttempts
  BY DEF Post
<1>2. ASSUME NEW p \in Post 
      PROVE  ReqId(p) \in ReqIds /\ CallOf(p) \in Calls /\ p[2] \in 1..MaxAttempts
  BY <1>1, AttemptsAssumption DEF ReqId, ReqIds, CallOf
<1>3. ASSUME NEW p \in Post, NEW q \in Post, ReqId(p) = ReqId(q)
      PROVE  CallOf(p) = CallOf(q) /\ (p = q \/ CallOf(p) \in named)
  BY <1>1, <1>3 DEF ReqId, CallOf
<1> QED BY <1>2, <1>3

\* What the properties about waiting handlers say together: who waits without a
\* result, and was not replaced, waits for a command still to be applied, or that raised.
LEMMA InvWaiters == ASSUME ServiceInv PROVE WaitersAreUnapplied
<1> SUFFICES ASSUME NEW p \in Post, Waiting(p), ~Replaced(p),
                    NEW i \in IndexOf(p)
             PROVE  i > applied \/ Raises(i)
  BY DEF WaitersAreUnapplied, Waiting
<1> USE DEF ServiceInv
<1>1. pending[ReqId(p)] = p /\ p # NoPost /\ ReqId(p) \in ReqIds
  BY PostIsSomething, ReqIdFacts DEF WaiterIsPending
<1>2. PICK j \in 1..Len(log) : ReqId(log[j]) = ReqId(p) /\ (j > applied \/ Raises(j))
  BY <1>1 DEF PendingIsOpen
<1>3. j \in 1..Len(log) /\ log[j] \in Post
  BY DEF TypeOK
<1>4. IndexOf(log[j]) # {}
  BY <1>3 DEF IndexOf
<1>5. log[j] = p
  BY <1>2, <1>3, <1>4, ReqIdFacts DEF Replaced
<1>6. i = j
  BY <1>3, <1>5 DEF LogIsUnique, IndexOf
<1> QED BY <1>2, <1>6

-----------------------------------------------------------------------------
LEMMA InitInv == Init => ServiceInv
<1> SUFFICES ASSUME Init PROVE ServiceInv
  OBVIOUS
<1> USE DEF Init
<1>1. TypeOK
  BY FaultsAssumption, AttemptsAssumption DEF TypeOK, Post, ReqIds
<1>2. AttemptsCount /\ UnsentIsUnknown /\ LogIsHandled /\ LogIsUnique
  <2>1. Len(log) = 0 /\ 1..Len(log) = {}
    OBVIOUS
  <2>2. \A p \in Post : ~Handled(p) /\ CallOf(p) \in Calls
    BY ReqIdFacts DEF Handled
  <2> QED BY <2>1, <2>2 DEF AttemptsCount, UnsentIsUnknown, LogIsHandled, LogIsUnique
<1>3. PendingIsNamed /\ WaiterIsPending /\ PendingIsOpen
  BY DEF PendingIsNamed, WaiterIsPending, Waiting, PendingIsOpen
<1>4. AnswersAreOwn /\ AnswersAreApplied
  BY DEF AnswersAreOwn, AnswersAreApplied
<1>5. LoopInv /\ OnlyRaisingStops
  BY DEF LoopInv, Applying, OnlyRaisingStops
<1> QED BY <1>1, <1>2, <1>3, <1>4, <1>5 DEF ServiceInv

\* A step that goes past no command but one that raises.
AppliesNoResult ==
  applied' >= applied /\ \A i \in 1..Len(log) : i > applied => i > applied' \/ Raises(i)

\* Steps that change neither the log, nor _pending, nor a result, that change
\* what is applied like this, and that change of the handlers at most where an
\* unknown or a handled one stands.
LEMMA QuietInv ==
  ASSUME ServiceInv, TypeOK', AttemptsCount', UnsentIsUnknown', LoopInv', OnlyRaisingStops',
         UNCHANGED <<log, pending, result>>,
         AppliesNoResult,
         \A p \in Post : CallOf(p) \in named' <=>
                           CallOf(p) \in named \/ (CallOf(p) \in named' /\ ~Handled(p)),
         \A p \in Post : Handled(p)' <=> Handled(p),
         \A p \in Post : Waiting(p)' => Waiting(p),
         \A c \in Calls : answer'[c] # 0 =>
           answer[c] = answer'[c] \/ \E p \in Post : CallOf(p) = c /\ answer'[c] = result[p]
  PROVE  ServiceInv'
<1> USE DEF ServiceInv
<1>1. \A p \in Post : Handled(p) => ReqId(p)' = ReqId(p)
                                    /\ (CallOf(p) \in named' <=> CallOf(p) \in named)
  BY DEF ReqId, CallOf
<1>2. \A i \in 1..Len(log) : log[i] \in Post /\ Handled(log[i])
  BY DEF TypeOK, LogIsHandled
<1>3. \A id \in ReqIds : pending[id] # NoPost => pending[id] \in Post /\ Handled(pending[id])
  BY DEF TypeOK, PendingIsNamed
<1>4. LogIsHandled' /\ LogIsUnique'
  BY <1>2 DEF LogIsHandled, LogIsUnique
<1>5. PendingIsNamed'
  BY <1>1, <1>3 DEF PendingIsNamed
<1>6. PendingIsOpen'
  <2> SUFFICES ASSUME NEW id \in ReqIds, pending[id] # NoPost
               PROVE  \E i \in 1..Len(log) :
                        ReqId(log[i])' = id /\ (i > applied' \/ Raises(i))
    BY DEF PendingIsOpen, Raises, CallOf
  <2>1. PICK i \in 1..Len(log) : ReqId(log[i]) = id /\ (i > applied \/ Raises(i))
    BY DEF PendingIsOpen
  <2> QED BY <2>1, <1>1, <1>2 DEF AppliesNoResult
<1>7. WaiterIsPending'
  <2> SUFFICES ASSUME NEW p \in Post, Waiting(p)'
               PROVE  Replaced(p)' \/ pending[ReqId(p)'] = p
    BY DEF WaiterIsPending
  <2>1. Waiting(p) /\ Handled(p) /\ ReqId(p)' = ReqId(p)
    BY <1>1 DEF Waiting, Handled
  <2>2. CASE pending[ReqId(p)] = p
    BY <2>1, <2>2
  <2>3. CASE Replaced(p)
    <3>1. PICK q \in Post : q # p /\ ReqId(q) = ReqId(p) /\ IndexOf(q) # {}
      BY <2>3 DEF Replaced
    <3>2. Handled(q) /\ IndexOf(q)' = IndexOf(q)
      BY <3>1, <1>2 DEF IndexOf
    <3>3. ReqId(q)' = ReqId(q)
      BY <3>2, <1>1
    <3>4. CallOf(p) \in named'
      BY <2>1, <2>3, <1>1 DEF Replaced
    <3> QED BY <2>1, <3>1, <3>2, <3>3, <3>4 DEF Replaced
  <2> QED BY <2>1, <2>2, <2>3 DEF WaiterIsPending
<1>8. AnswersAreOwn'
  <2>1. ASSUME NEW p \in Post, result[p] # 0
        PROVE  /\ result[p] <= applied' /\ CallOf(log[result[p]]) = CallOf(p)
               /\ CallOf(p) \in named' \/ log[result[p]] = p
    BY <2>1 DEF AnswersAreOwn, TypeOK, AppliesNoResult
  <2>2. ASSUME NEW c \in Calls, answer'[c] # 0
        PROVE  CallOf(log[answer'[c]]) = c
    BY <2>2 DEF AnswersAreOwn
  <2> QED BY <2>1, <2>2 DEF AnswersAreOwn, CallOf
<1>9. AnswersAreApplied'
  <2>1. \A p \in Post : result[p] <= applied'
    BY DEF AnswersAreOwn, TypeOK, AppliesNoResult
  <2>2. \A c \in Calls : answer[c] <= applied'
    BY DEF AnswersAreApplied, TypeOK, AppliesNoResult
  <2>3. \A c \in Calls : answer'[c] = 0 => answer'[c] <= applied'
    BY DEF TypeOK
  <2> QED BY <2>1, <2>2, <2>3 DEF AnswersAreApplied
<1> QED BY <1>4, <1>5, <1>6, <1>7, <1>8, <1>9

-----------------------------------------------------------------------------
\* Steps of the callers leave the loop that applies as it is.
LEMMA LoopUntouched ==
  ASSUME ServiceInv, UNCHANGED raft,
         \A p \in Post : handler[p] = "waiting" => handler'[p] = "waiting"
  PROVE  LoopInv' /\ OnlyRaisingStops' /\ AppliesNoResult
<1> USE DEF ServiceInv, raft
<1>1. Applying => applier \in Post
  BY DEF Applying, TypeOK
<1>2. LoopInv'
  BY <1>1 DEF LoopInv, Applying
<1>3. OnlyRaisingStops'
  BY DEF OnlyRaisingStops, Applying, Raises, CallOf
<1> QED BY <1>2, <1>3 DEF TypeOK, AppliesNoResult

LEMMA NoLeaderInv == ASSUME ServiceInv, NEW c \in Calls, NoLeader(c) PROVE ServiceInv'
<1> USE DEF ServiceInv, NoLeader
<1>1. TypeOK' /\ AttemptsCount'
  BY DEF TypeOK, AttemptsCount, raft
<1>2. UnsentIsUnknown'
  BY DEF UnsentIsUnknown, CallOf
<1>3. LoopInv' /\ OnlyRaisingStops' /\ AppliesNoResult
  BY LoopUntouched
<1> QED BY <1>1, <1>2, <1>3, QuietInv DEF Handled, Waiting, CallOf, raft

LEMMA AskInv ==
  ASSUME ServiceInv, NEW c \in Calls, NEW byProxy \in BOOLEAN, NEW withId \in BOOLEAN,
         Ask(c, byProxy, withId)
  PROVE  ServiceInv'
<1> USE DEF ServiceInv, Ask
<1>1. <<c, 1>> \in Post /\ 1 \in 1..MaxAttempts
  BY AttemptsAssumption DEF Post
<1>2. TypeOK'
  BY <1>1, AttemptsAssumption DEF TypeOK, raft
<1>3. AttemptsCount'
  BY <1>1 DEF TypeOK, AttemptsCount
<1>4. \A p \in Post : CallOf(p) = c => handler[p] = "none" /\ ~Handled(p)
  BY ReqIdFacts DEF UnsentIsUnknown, AttemptsCount, Handled
<1>5. \A p \in Post : (Handled(p)' <=> Handled(p)) /\ (Waiting(p)' => Waiting(p))
  BY <1>1, <1>4 DEF TypeOK, Handled, Waiting, CallOf
<1>6. UnsentIsUnknown'
  BY <1>1, <1>4 DEF TypeOK, UnsentIsUnknown, CallOf
<1>7. \A p \in Post : CallOf(p) \in named' <=>
        CallOf(p) \in named \/ (CallOf(p) \in named' /\ ~Handled(p))
  BY <1>4
<1>8. LoopInv' /\ OnlyRaisingStops' /\ AppliesNoResult
  BY <1>1, <1>4, LoopUntouched DEF TypeOK, CallOf
<1> QED BY <1>2, <1>3, <1>5, <1>6, <1>7, <1>8, QuietInv DEF raft

LEMMA RetryInv == ASSUME ServiceInv, NEW c \in Calls, Retry(c) PROVE ServiceInv'
<1> USE DEF ServiceInv, Retry, Fails
<1>1. attempt[c] + 1 \in 1..MaxAttempts /\ attempt[c] \in Nat
  BY AttemptsAssumption DEF AttemptsCount
<1>2. <<c, attempt[c] + 1>> \in Post
  BY <1>1 DEF Post
<1>3. TypeOK'
  <2>1. faults' \in 0..MaxFaults
    BY FaultsAssumption DEF TypeOK
  <2>2. attempt' \in [Calls -> 0..MaxAttempts]
    BY <1>1, AttemptsAssumption DEF TypeOK
  <2>3. handler' \in [Post -> {"none", "sent", "replicating", "waiting", "done", "raised"}]
    BY <1>2 DEF TypeOK
  <2> QED BY <2>1, <2>2, <2>3 DEF TypeOK, raft
<1>4. AttemptsCount'
  BY <1>1 DEF TypeOK, AttemptsCount
<1>5. ~Handled(<<c, attempt[c] + 1>>)
  BY <1>1, <1>2 DEF UnsentIsUnknown, Handled, CallOf
<1>6. \A p \in Post : (Handled(p)' <=> Handled(p)) /\ (Waiting(p)' => Waiting(p))
  BY <1>2, <1>5 DEF TypeOK, Handled, Waiting
<1>7. UnsentIsUnknown'
  <2> SUFFICES ASSUME NEW p \in Post, p[2] > attempt'[CallOf(p)] 
               PROVE  handler'[p] = "none"
    BY DEF UnsentIsUnknown, CallOf
  <2>1. CallOf(p) \in Calls /\ p[2] \in Nat /\ attempt[CallOf(p)] \in Nat
    BY ReqIdFacts, AttemptsAssumption DEF TypeOK
  <2>2. p[2] > attempt[CallOf(p)] /\ (CallOf(p) = c => p[2] > attempt[c] + 1)
    BY <2>1, <1>1 DEF TypeOK
  <2>3. p # <<c, attempt[c] + 1>>
    BY <2>2, <1>1 DEF CallOf
  <2> QED BY <2>2, <2>3, <1>2 DEF UnsentIsUnknown, TypeOK
<1>8. LoopInv' /\ OnlyRaisingStops' /\ AppliesNoResult
  <2>1. handler[<<c, attempt[c] + 1>>] # "waiting"
    BY <1>5 DEF Handled
  <2> QED BY <1>2, <2>1, LoopUntouched DEF TypeOK
<1> QED BY <1>3, <1>4, <1>6, <1>7, <1>8, QuietInv DEF CallOf, raft

LEMMA GiveUpInv == ASSUME ServiceInv, NEW c \in Calls, GiveUp(c) PROVE ServiceInv'
<1> USE DEF ServiceInv, GiveUp, Fails
<1>1. TypeOK' /\ AttemptsCount'
  BY FaultsAssumption DEF TypeOK, AttemptsCount, raft
<1>2. UnsentIsUnknown'
  BY DEF UnsentIsUnknown, CallOf
<1>3. LoopInv' /\ OnlyRaisingStops' /\ AppliesNoResult
  BY LoopUntouched
<1> QED BY <1>1, <1>2, <1>3, QuietInv DEF Handled, Waiting, CallOf, raft

LEMMA AnsweredInv == ASSUME ServiceInv, NEW c \in Calls, Answered(c) PROVE ServiceInv'
<1> USE DEF ServiceInv, Answered
<1>1. <<c, attempt[c]>> \in Post /\ CallOf(<<c, attempt[c]>>) = c
  BY DEF AttemptsCount, Post, CallOf
<1>2. TypeOK' /\ AttemptsCount'
  BY <1>1 DEF TypeOK, AttemptsCount, raft
<1>3. UnsentIsUnknown'
  BY DEF UnsentIsUnknown, CallOf
<1>4. \A d \in Calls : answer'[d] # 0 =>
        answer[d] = answer'[d] \/ \E p \in Post : CallOf(p) = d /\ answer'[d] = result[p]
  BY <1>1 DEF TypeOK
<1>5. LoopInv' /\ OnlyRaisingStops' /\ AppliesNoResult
  BY LoopUntouched
<1> QED BY <1>2, <1>3, <1>4, <1>5, QuietInv DEF Handled, Waiting, CallOf, raft

LEMMA ReplicatedInv ==
  ASSUME ServiceInv, NEW p \in Post, NEW majority \in BOOLEAN, Replicated(p, majority)
  PROVE  ServiceInv'
<1> USE DEF ServiceInv, Replicated
<1>1. TypeOK'
  <2>1. commit' \in 0..Len(log) /\ applier' \in Post \cup {NoPost}
    BY DEF TypeOK, IndexOf
  <2> QED BY <2>1 DEF TypeOK
<1>2. AttemptsCount'
  BY DEF AttemptsCount
<1>3. \A q \in Post : (Handled(q)' <=> Handled(q)) /\ (Waiting(q)' => Waiting(q))
  BY DEF TypeOK, Handled, Waiting
<1>4. UnsentIsUnknown'
  BY DEF UnsentIsUnknown, CallOf, TypeOK
<1>5. LoopInv' /\ OnlyRaisingStops'
  <2>1. CASE majority
    <3>1. PICK i \in IndexOf(p) : commit' = i /\ applier' = IF applied < i THEN p ELSE NoPost
      BY <2>1
    <3>2. i \in Nat /\ applied \in Nat /\ handler'[p] = "waiting"
      BY DEF IndexOf, TypeOK
    <3> QED BY <3>1, <3>2, PostIsSomething DEF LoopInv, OnlyRaisingStops, Applying
  <2>2. CASE ~majority
    BY <2>2 DEF LoopInv, OnlyRaisingStops, Applying, Raises, CallOf
  <2> QED BY <2>1, <2>2
<1>6. AppliesNoResult
  BY DEF AppliesNoResult, TypeOK
<1> QED BY <1>1, <1>2, <1>3, <1>4, <1>5, <1>6, QuietInv DEF CallOf

\* Nothing is answered for the command that raised: it stays in the log, and so does
\* its future in _pending.
LEMMA RaiseInv == ASSUME ServiceInv, Raise PROVE ServiceInv'
<1> USE DEF ServiceInv, Raise
<1>1. /\ applier \in Post /\ handler[applier] = "waiting"
      /\ applied + 1 \in 1..Len(log) /\ applied \in Nat
  BY DEF TypeOK, Applying, LoopInv
<1>2. TypeOK' /\ AttemptsCount'
  BY <1>1 DEF TypeOK, AttemptsCount
<1>3. \A q \in Post : (Handled(q)' <=> Handled(q)) /\ (Waiting(q)' => Waiting(q))
  BY <1>1 DEF TypeOK, Handled, Waiting
<1>4. UnsentIsUnknown'
  BY <1>1 DEF UnsentIsUnknown, CallOf, TypeOK
<1>5. LoopInv' /\ OnlyRaisingStops'
  BY <1>1 DEF LoopInv, OnlyRaisingStops, Applying, Raises, CallOf
<1>6. AppliesNoResult
  BY <1>1 DEF AppliesNoResult
<1> QED BY <1>1, <1>2, <1>3, <1>4, <1>5, <1>6, QuietInv DEF CallOf

LEMMA ReplyInv == ASSUME ServiceInv, NEW p \in Post, Reply(p) PROVE ServiceInv'
<1> USE DEF ServiceInv, Reply
<1>1. TypeOK' /\ AttemptsCount'
  BY DEF TypeOK, AttemptsCount, raft
<1>2. \A q \in Post : (Handled(q)' <=> Handled(q)) /\ (Waiting(q)' => Waiting(q))
  BY DEF TypeOK, Handled, Waiting
<1>3. UnsentIsUnknown'
  BY DEF UnsentIsUnknown, CallOf, TypeOK
<1>4. LoopInv' /\ OnlyRaisingStops' /\ AppliesNoResult
  BY DEF LoopInv, OnlyRaisingStops, AppliesNoResult, Applying, Raises, CallOf, raft, TypeOK
<1> QED BY <1>1, <1>2, <1>3, <1>4, QuietInv DEF CallOf, raft

-----------------------------------------------------------------------------
LEMMA HandleInv == ASSUME ServiceInv, NEW p \in Post, Handle(p) PROVE ServiceInv'
<1> DEFINE n == Len(log) + 1
<1> USE DEF ServiceInv, Handle
<1>1. /\ log' \in Seq(Post) /\ Len(log') = n /\ log'[n] = p
      /\ \A i \in 1..Len(log) : log'[i] = log[i]
      /\ n \in Nat /\ 1..n = (1..Len(log)) \cup {n} /\ applied \in Nat /\ applied < n
  BY DEF TypeOK
<1>2. ReqId(p) \in ReqIds /\ pending' = [pending EXCEPT ![ReqId(p)] = p]
  BY ReqIdFacts DEF Registered
<1>3. TypeOK'
  BY <1>1, <1>2 DEF TypeOK
<1>4. \A q \in Post : (Handled(q)' <=> Handled(q) \/ q = p) /\ (q # p => (Waiting(q)' <=> Waiting(q)))
  BY DEF TypeOK, Handled, Waiting
<1>5. \A i \in 1..Len(log) : log[i] # p /\ log[i] \in Post
  <2>1. ~Handled(p)
    BY DEF Handled
  <2>2. \A i \in 1..Len(log) : log[i] \in Post
    BY DEF TypeOK
  <2> QED BY <2>1, <2>2 DEF LogIsHandled
<1>6. \A q : ReqId(q)' = ReqId(q)
  BY DEF ReqId, CallOf
<1>7. AttemptsCount' /\ UnsentIsUnknown'
  BY DEF AttemptsCount, UnsentIsUnknown, CallOf, TypeOK
<1>8. LogIsHandled' /\ LogIsUnique'
  <2>1. LogIsHandled'
    <3> SUFFICES ASSUME NEW i \in 1..n, NEW q \in Post, q = log'[i] PROVE Handled(q)'
      BY <1>1 DEF LogIsHandled, Handled
    <3> QED BY <1>1, <1>4, <1>5 DEF LogIsHandled
  <2>2. LogIsUnique'
    BY <1>1, <1>5 DEF LogIsUnique
  <2> QED BY <2>1, <2>2
<1>9. PendingIsNamed'
  <2> SUFFICES ASSUME NEW id \in ReqIds, NEW q \in Post, pending'[id] = q
               PROVE  ReqId(q) = id /\ Handled(q)'
    BY <1>3, <1>6 DEF PendingIsNamed, Handled, TypeOK
  <2>1. CASE id = ReqId(p)
    BY <2>1, <1>2, <1>4 DEF TypeOK
  <2>2. CASE id # ReqId(p)
    BY <2>2, <1>2, <1>4, PostIsSomething DEF TypeOK, PendingIsNamed
  <2> QED BY <2>1, <2>2
<1>10. PendingIsOpen'
  <2> SUFFICES ASSUME NEW id \in ReqIds, pending'[id] # NoPost
               PROVE  \E i \in 1..n : ReqId(log'[i]) = id /\ (i > applied \/ Raises(i)')
    BY <1>1, <1>6 DEF PendingIsOpen
  <2>1. CASE id = ReqId(p)
    BY <2>1, <1>1
  <2>2. CASE id # ReqId(p)
    <3>1. pending[id] # NoPost
      BY <2>2, <1>2 DEF TypeOK
    <3>2. PICK i \in 1..Len(log) : ReqId(log[i]) = id /\ (i > applied \/ Raises(i))
      BY <3>1 DEF PendingIsOpen
    <3> QED BY <3>2, <1>1 DEF Raises, CallOf
  <2> QED BY <2>1, <2>2
<1>11. WaiterIsPending'
  <2> SUFFICES ASSUME NEW q \in Post, Waiting(q)'
               PROVE  Replaced(q)' \/ pending'[ReqId(q)] = q
    BY <1>6 DEF WaiterIsPending
  <2>1. \A s \in Post : IndexOf(s) # {} \/ s = p => IndexOf(s)' # {}
    <3>1. n \in IndexOf(p)'
      BY <1>1 DEF IndexOf
    <3>2. \A s \in Post : IndexOf(s) \subseteq IndexOf(s)'
      BY <1>1 DEF IndexOf
    <3> QED BY <3>1, <3>2
  <2>2. CASE q = p
    BY <2>2, <1>2 DEF TypeOK
  <2>3. CASE q # p /\ ReqId(q) = ReqId(p)
    BY <2>1, <2>3, <1>6, ReqIdFacts DEF Replaced
  <2>4. CASE q # p /\ ReqId(q) # ReqId(p)
    <3>1. Replaced(q) \/ pending[ReqId(q)] = q
      BY <2>4, <1>4 DEF WaiterIsPending
    <3>2. CASE Replaced(q)
      BY <3>2, <2>1, <1>6 DEF Replaced
    <3>3. CASE pending[ReqId(q)] = q
      BY <3>3, <2>4, <1>2 DEF TypeOK
    <3> QED BY <3>1, <3>2, <3>3
  <2> QED BY <2>2, <2>3, <2>4
<1>12. AnswersAreOwn' /\ AnswersAreApplied'
  <2>1. \A q \in Post : result[q] # 0 => result[q] \in 1..Len(log)
    BY DEF TypeOK, AnswersAreOwn
  <2>2. ASSUME NEW q \in Post, result[q] # 0
        PROVE  /\ result[q] <= applied /\ CallOf(log'[result[q]]) = CallOf(q)
               /\ CallOf(q) \in named \/ log'[result[q]] = q
    BY <2>1, <2>2, <1>1 DEF AnswersAreOwn
  <2>3. ASSUME NEW c \in Calls, answer[c] # 0
        PROVE  CallOf(log'[answer[c]]) = c
    BY <2>3, <1>1 DEF AnswersAreOwn, AnswersAreApplied, TypeOK
  <2> QED BY <2>2, <2>3 DEF AnswersAreOwn, AnswersAreApplied, CallOf
<1>13. LoopInv' /\ OnlyRaisingStops'
  <2>1. applied > 0 => applied \in 1..Len(log)
    BY DEF TypeOK
  <2> QED BY <2>1, <1>1 DEF LoopInv, OnlyRaisingStops, Applying, Raises, CallOf
<1> QED BY <1>3, <1>7, <1>8, <1>9, <1>10, <1>11, <1>12, <1>13

LEMMA ApplyInv == ASSUME ServiceInv, Apply PROVE ServiceInv'
<1> DEFINE i == applied + 1
           id == ReqId(log[i])
<1> USE DEF ServiceInv, Apply
<1>1. /\ i \in 1..Len(log) /\ i \in Nat /\ log[i] \in Post /\ applied' = i
      /\ applied \in Nat /\ id \in ReqIds
  <2>1. i \in 1..Len(log) /\ i \in Nat /\ applied' = i /\ applied \in Nat
    BY DEF TypeOK, LoopInv
  <2>2. log[i] \in Post
    BY <2>1 DEF TypeOK
  <2> QED BY <2>1, <2>2, ReqIdFacts
<1>2. pending' = [pending EXCEPT ![id] = NoPost]
  BY DEF Unregistered
<1>3. TypeOK'
  <2>1. pending' \in [ReqIds -> Post \cup {NoPost}]
    BY <1>2 DEF TypeOK
  <2>2. result' \in [Post -> Nat]
    BY <1>1 DEF TypeOK
  <2>3. applier' \in Post \cup {NoPost}
    BY DEF NextTurn, TypeOK
  <2> QED BY <1>1, <2>1, <2>2, <2>3 DEF TypeOK
<1>4. \A q : ReqId(q)' = ReqId(q) /\ (Handled(q)' <=> Handled(q)) /\ IndexOf(q)' = IndexOf(q)
  BY DEF ReqId, CallOf, Handled, IndexOf
<1>5. AttemptsCount' /\ UnsentIsUnknown' /\ LogIsHandled' /\ LogIsUnique'
  BY DEF AttemptsCount, UnsentIsUnknown, CallOf, LogIsHandled, LogIsUnique, Handled
<1>6. PendingIsNamed'
  <2> SUFFICES ASSUME NEW d \in ReqIds, NEW q \in Post, pending'[d] = q
               PROVE  ReqId(q) = d /\ Handled(q)
    BY <1>3, <1>4 DEF PendingIsNamed, TypeOK
  <2>1. q # NoPost /\ pending[d] = q
    BY <1>1, <1>2, PostIsSomething DEF TypeOK
  <2> QED BY <2>1 DEF PendingIsNamed
<1>7. PendingIsOpen'
  <2> SUFFICES ASSUME NEW d \in ReqIds, pending'[d] # NoPost
               PROVE  \E k \in 1..Len(log) : ReqId(log[k]) = d /\ (k > i \/ Raises(k))
    BY <1>1, <1>4 DEF PendingIsOpen, Raises, CallOf
  <2>1. d # id /\ pending[d] # NoPost
    BY <1>1, <1>2 DEF TypeOK
  <2>2. PICK k \in 1..Len(log) : ReqId(log[k]) = d /\ (k > applied \/ Raises(k))
    BY <2>1 DEF PendingIsOpen
  <2> QED BY <2>1, <2>2, <1>1
<1>8. \A q \in Post : result'[q] = result[q] \/ (result'[q] = i /\ pending[id] = q)
  BY DEF TypeOK
<1>9. WaiterIsPending'
  <2> SUFFICES ASSUME NEW q \in Post, Waiting(q)'
               PROVE  Replaced(q) \/ pending'[ReqId(q)] = q
    BY <1>4 DEF WaiterIsPending, Replaced
  <2>1. Waiting(q)
    BY <1>1, <1>8 DEF Waiting
  <2>2. CASE Replaced(q)
    BY <2>2
  <2>3. CASE pending[ReqId(q)] = q /\ ReqId(q) # id
    BY <2>3, <1>2 DEF TypeOK
  <2>4. CASE pending[ReqId(q)] = q /\ ReqId(q) = id
    <3>1. q # NoPost /\ handler[q] # "done"
      BY <2>1, PostIsSomething DEF Waiting
    <3>2. result'[q] = i
      BY <3>1, <2>4 DEF TypeOK
    <3> QED BY <3>2, <1>1 DEF Waiting
  <2> QED BY <2>1, <2>2, <2>3, <2>4 DEF WaiterIsPending
<1>10. AnswersAreOwn' /\ AnswersAreApplied'
  <2>1. ASSUME NEW q \in Post, result'[q] # 0
        PROVE  /\ result'[q] <= i /\ CallOf(log[result'[q]]) = CallOf(q)
               /\ CallOf(q) \in named \/ log[result'[q]] = q
    <3>1. CASE result'[q] = result[q]
      BY <2>1, <3>1, <1>1 DEF AnswersAreOwn, TypeOK
    <3>2. CASE result'[q] = i /\ pending[id] = q
      <4>1. ReqId(q) = ReqId(log[i])
        BY <3>2, <1>1, PostIsSomething DEF PendingIsNamed
      <4> QED BY <4>1, <3>2, <1>1, ReqIdFacts
    <3> QED BY <3>1, <3>2, <1>8
  <2>2. AnswersAreApplied'
    BY <1>1 DEF AnswersAreApplied, TypeOK
  <2> QED BY <1>1, <2>1, <2>2 DEF AnswersAreOwn, CallOf
<1>11. LoopInv' /\ OnlyRaisingStops'
  BY <1>1 DEF NextTurn, LoopInv, OnlyRaisingStops, Applying, TypeOK
<1> QED BY <1>3, <1>5, <1>6, <1>7, <1>9, <1>10, <1>11

-----------------------------------------------------------------------------
LEMMA StutterInv == ASSUME ServiceInv, UNCHANGED vars PROVE ServiceInv'
<1> USE DEF ServiceInv, vars, raft
<1>1. TypeOK' /\ AttemptsCount' /\ UnsentIsUnknown'
  BY DEF TypeOK, AttemptsCount, UnsentIsUnknown, CallOf
<1>2. LoopInv' /\ OnlyRaisingStops' /\ AppliesNoResult
  BY LoopUntouched
<1> QED BY <1>1, <1>2, QuietInv DEF Handled, Waiting

LEMMA NextInv == ASSUME ServiceInv, [Next]_vars PROVE ServiceInv'
<1>1. ASSUME NEW c \in Calls, NoLeader(c) \/ Retry(c) \/ GiveUp(c) \/ Answered(c)
      PROVE  ServiceInv'
  BY <1>1, NoLeaderInv, RetryInv, GiveUpInv, AnsweredInv
<1>2. ASSUME NEW c \in Calls, NEW byProxy \in BOOLEAN, NEW withId \in BOOLEAN,
             Ask(c, byProxy, withId)
      PROVE  ServiceInv'
  BY <1>2, AskInv
<1>3. ASSUME NEW p \in Post, Handle(p) \/ Reply(p) PROVE ServiceInv'
  BY <1>3, HandleInv, ReplyInv
<1>4. ASSUME NEW p \in Post, NEW majority \in BOOLEAN, Replicated(p, majority)
      PROVE  ServiceInv'
  BY <1>4, ReplicatedInv
<1> QED BY <1>1, <1>2, <1>3, <1>4, ApplyInv, RaiseInv, StutterInv DEF Next

LEMMA ServiceInvariant == Spec => []ServiceInv
<1> QED BY InitInv, NextInv, PTL DEF Spec

\* The lock service keeps its types (LockService).
THEOREM ServiceTypeOK == Spec => []TypeOK
<1>1. ServiceInv => TypeOK
  BY DEF ServiceInv
<1> QED BY <1>1, ServiceInvariant, PTL

\* A handler gets the result of its own command, or of one with the same req_id
\* of the same call; a call is answered with the result of a command of its own
\* (LockRSM.apply_cmd, _register_wait).
THEOREM AnswersBelongToCalls == Spec => []AnswersAreOwn
<1>1. ServiceInv => AnswersAreOwn
  BY DEF ServiceInv
<1> QED BY <1>1, ServiceInvariant, PTL

\* A future in _pending is one whose command is still to be applied, or raised: the
\* others leave nothing behind (LockRSM.apply_cmd).
THEOREM NothingLeftPending == Spec => []PendingIsOpen
<1>1. ServiceInv => PendingIsOpen
  BY DEF ServiceInv
<1> QED BY <1>1, ServiceInvariant, PTL

\* "accepted, pending" is only answered when the command is not applied, or raised,
\* unless a repeated post took the place of the waiter (the routes' TimeoutError).
THEOREM PendingMeansUnapplied == Spec => []WaitersAreUnapplied
<1>1. ServiceInv => WaitersAreUnapplied
  BY InvWaiters
<1> QED BY <1>1, ServiceInvariant, PTL

\* Outside the loop everything committed is applied, up to a command that raised:
\* commit indexes that go back leave nothing behind (RaftNode._apply_commits).
THEOREM CommittedIsApplied == Spec => []OnlyRaisingStops
<1>1. ServiceInv => OnlyRaisingStops
  BY DEF ServiceInv
<1> QED BY <1>1, ServiceInvariant, PTL

=============================================================================
