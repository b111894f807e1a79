-------------------------- MODULE LockTableProofs --------------------------
(***************************************************************************)
(* Proofs about LockTable, for any clients, resources and number of        *)
(* requests.  The inductive invariant LockInv adds to the properties what  *)
(* keeps them true: a token was issued before it is held, `mode' is what   *)
(* every holder asked for, and an exclusive resource has one holder.       *)
(***************************************************************************)
EXTENDS LockTable, SequenceTheorems, TLAPS

TokensIssued ==
  /\ clock = Len(asked)
  /\ \A r \in Resources : \A h \in holders[r] : h.token \in 1..clock

ModeIsAsked ==
  \A r \in Resources :
    /\ holders[r] = {} => mode[r] = "none"
    /\ \A h \in holders[r] : asked[h.token] = mode[r]

ExclusiveIsAlone ==
  \A r \in Resources : mode[r] = "exclusive" => \A h, g \in holders[r] : h = g

LockInv ==
  /\ TypeOK
  /\ TokensIssued
  /\ ModeIsAsked
  /\ ExclusiveIsAlone
  /\ TokensUnique
  /\ HeadIsBlocked

-----------------------------------------------------------------------------
\* The table starts empty.
LEMMA LockInit == Init => LockInv
<1> SUFFICES ASSUME Init PROVE LockInv
  OBVIOUS
<1>1. TypeOK
  BY MaxRequestsAssumption DEF Init, TypeOK, Graphs
<1>2. TokensIssued
  BY DEF Init, TokensIssued
<1>3. ModeIsAsked /\ ExclusiveIsAlone /\ TokensUnique /\ HeadIsBlocked
  BY DEF Init, ModeIsAsked, ExclusiveIsAlone, TokensUnique, HeadIsBlocked
<1> QED BY <1>1, <1>2, <1>3 DEF LockInv

-----------------------------------------------------------------------------
\* A request is granted at once: it finds the resource free, or shared and asks
\* for it shared.  Overtaking the queue leaves its head as blocked as it was.
LEMMA AcquireGrantedKeepsInv ==
  ASSUME LockInv, NEW r \in Resources, NEW m \in Modes, NEW c \in Clients,
         AcquireGranted(r, m, c)
  PROVE  LockInv'
<1> DEFINE new == [client |-> c, token |-> NewToken]
<1> USE DEF LockInv
<1>1. /\ new \in Holder /\ new.token = clock + 1
      /\ clock \in Nat /\ clock' = clock + 1
      /\ holders' = [holders EXCEPT ![r] = @ \cup {new}]
      /\ mode' = [mode EXCEPT ![r] = m]
  BY DEF TypeOK, AcquireGranted, Holder, NewToken
<1>2. /\ asked' \in Seq(Modes) /\ Len(asked') = clock'
      /\ \A i \in 1..clock : asked'[i] = asked[i]
      /\ asked'[clock + 1] = m
  BY <1>1 DEF TypeOK, TokensIssued, AcquireGranted
<1>3. TypeOK'
  <2>1. mode' \in [Resources -> Modes \cup {"none"}]
    BY <1>1 DEF TypeOK
  <2>2. holders' \in [Resources -> SUBSET Holder]
    BY <1>1 DEF TypeOK
  <2>3. issued' \in 0..MaxRequests
    BY MaxRequestsAssumption DEF TypeOK, AcquireGranted
  <2> QED BY <2>1, <2>2, <2>3, <1>1, <1>2 DEF TypeOK, AcquireGranted
<1>4. \A s \in Resources : \A h \in holders'[s] :
        \/ h \in holders[s] /\ h.token \in 1..clock
        \/ s = r /\ h = new
  BY <1>1 DEF TypeOK, TokensIssued
<1>5. TokensIssued'
  BY <1>1, <1>2, <1>4 DEF TokensIssued
<1>6. holders[r] # {} => mode[r] = "shared" /\ m = "shared"
  BY DEF AcquireGranted, Grantable
<1>7. ModeIsAsked'
  <2> SUFFICES ASSUME NEW s \in Resources
               PROVE  /\ holders'[s] = {} => mode'[s] = "none"
                      /\ \A h \in holders'[s] : asked'[h.token] = mode'[s]
    BY DEF ModeIsAsked
  <2>1. CASE s = r
    <3>1. mode'[s] = m /\ new \in holders'[s]
      BY <2>1, <1>1 DEF TypeOK
    <3>2. \A h \in holders[s] : asked[h.token] = m
      BY <2>1, <1>6 DEF ModeIsAsked
    <3> QED BY <3>1, <3>2, <1>1, <1>2, <1>4
  <2>2. CASE s # r
    <3>1. mode'[s] = mode[s] /\ holders'[s] = holders[s]
      BY <2>2, <1>1 DEF TypeOK
    <3> QED BY <3>1, <2>2, <1>2, <1>4 DEF ModeIsAsked
  <2> QED BY <2>1, <2>2
<1>8. ExclusiveIsAlone'
  <2> SUFFICES ASSUME NEW s \in Resources, mode'[s] = "exclusive",
                      NEW h \in holders'[s], NEW g \in holders'[s]
               PROVE  h = g
    BY DEF ExclusiveIsAlone
  <2>1. CASE s = r
    <3>1. holders[r] = {}
      BY <2>1, <1>1, <1>6 DEF TypeOK
    <3> QED BY <3>1, <2>1, <1>4
  <2>2. CASE s # r
    BY <2>2, <1>1 DEF TypeOK, ExclusiveIsAlone
  <2> QED BY <2>1, <2>2
<1>9. TokensUnique'
  BY <1>1, <1>4 DEF TokensUnique
<1>10. HeadIsBlocked'
  <2> SUFFICES ASSUME NEW s \in Resources, queue'[s] # <<>>
               PROVE  holders'[s] # {} /\ ~Grantable(s, queue[s][1].mode)'
    BY DEF HeadIsBlocked
  <2>1. queue' = queue
    BY DEF AcquireGranted
  <2>2. holders[s] # {} /\ ~Grantable(s, queue[s][1].mode)
    BY <2>1 DEF HeadIsBlocked
  <2>3. mode'[s] = mode[s] /\ holders'[s] # {}
    BY <2>2, <1>1, <1>6 DEF TypeOK
  <2> QED BY <2>1, <2>2, <2>3 DEF Grantable
<1> QED BY <1>3, <1>5, <1>7, <1>8, <1>9, <1>10

\* A request that cannot be granted joins the queue; if it is the head, it is
\* blocked by what made it wait.
LEMMA AcquireQueuedKeepsInv ==
  ASSUME LockInv, NEW r \in Resources, NEW m \in Modes, NEW c \in Clients,
         AcquireQueued(r, m, c)
  PROVE  LockInv'
<1> DEFINE e == [client |-> c, mode |-> m, since |-> clock]
<1> USE DEF LockInv
<1>1. /\ e \in Request
      /\ queue' = [queue EXCEPT ![r] = Append(@, e)]
      /\ queue \in [Resources -> Seq(Request)]
      /\ UNCHANGED <<mode, holders, clock, asked, served>>
  BY DEF TypeOK, AcquireQueued, Request
<1>2. TypeOK'
  <2>1. queue' \in [Resources -> Seq(Request)]
    BY <1>1
  <2>2. HoldersOf(r) \in SUBSET Clients
    BY DEF TypeOK, HoldersOf, Holder
  <2>3. waits' \in Graphs
    BY <2>2 DEF TypeOK, AcquireQueued, NewEdges, Graphs
  <2>4. issued' \in 0..MaxRequests
    BY MaxRequestsAssumption DEF TypeOK, AcquireQueued
  <2> QED BY <2>1, <2>3, <2>4, <1>1 DEF TypeOK
<1>3. TokensIssued' /\ ModeIsAsked' /\ ExclusiveIsAlone' /\ TokensUnique'
  BY <1>1 DEF TokensIssued, ModeIsAsked, ExclusiveIsAlone, TokensUnique
<1>4. HeadIsBlocked'
  <2> SUFFICES ASSUME NEW s \in Resources, queue'[s] # <<>>
               PROVE  holders'[s] # {} /\ ~Grantable(s, queue[s][1].mode)'
    BY DEF HeadIsBlocked
  <2>1. CASE queue[s] # <<>>
    <3>1. queue'[s][1] = queue[s][1]
      BY <2>1, <1>1
    <3> QED BY <3>1, <2>1, <1>1 DEF HeadIsBlocked, Grantable
  <2>2. CASE queue[s] = <<>>
    <3>1. s = r /\ queue'[s][1].mode = m
      BY <2>2, <1>1
    <3> QED BY <3>1, <1>1 DEF AcquireQueued, Grantable
  <2> QED BY <2>1, <2>2
<1> QED BY <1>2, <1>3, <1>4

-----------------------------------------------------------------------------
\* A release that serves nobody takes holders away, and the mode with the last.
LEMMA ReleaseOnlyKeepsInv ==
  ASSUME LockInv, NEW r \in Resources, NEW tok \in Nat, ReleaseOnly(r, tok)
  PROVE  LockInv'
<1> USE DEF LockInv
<1>1. /\ holders' = [holders EXCEPT ![r] = Left(r, tok)]
      /\ mode' = [mode EXCEPT ![r] = IF Left(r, tok) = {} THEN "none" ELSE @]
      /\ Left(r, tok) \subseteq holders[r]
      /\ UNCHANGED <<queue, waits, clock, asked, served, issued>>
  BY DEF ReleaseOnly, Left
<1>2. TypeOK'
  BY <1>1 DEF TypeOK
<1>3. \A s \in Resources : holders'[s] \subseteq holders[s]
  BY <1>1 DEF TypeOK
<1>4. \A s \in Resources : mode'[s] = IF s = r /\ holders'[s] = {} THEN "none" ELSE mode[s]
  BY <1>1 DEF TypeOK
<1>5. TokensIssued' /\ TokensUnique'
  BY <1>1, <1>3 DEF TokensIssued, TokensUnique
<1>6. ModeIsAsked'
  <2>1. \A s \in Resources : s # r => holders'[s] = holders[s]
    BY <1>1 DEF TypeOK
  <2> QED BY <2>1, <1>1, <1>3, <1>4 DEF ModeIsAsked
<1>7. ExclusiveIsAlone'
  BY <1>3, <1>4 DEF ExclusiveIsAlone
<1>8. HeadIsBlocked'
  <2> SUFFICES ASSUME NEW s \in Resources, queue[s] # <<>>
               PROVE  holders'[s] # {} /\ ~Grantable(s, queue[s][1].mode)'
    BY <1>1 DEF HeadIsBlocked, Grantable
  <2>1. holders'[s] # {}
    BY <1>1 DEF ReleaseOnly, Serves, HeadIsBlocked, TypeOK
  <2> QED BY <2>1, <1>1, <1>4 DEF HeadIsBlocked, Grantable
<1> QED BY <1>2, <1>5, <1>6, <1>7, <1>8

\* What ReleaseAndGrant does with the first k requests of the queue q of r.
Serve(r, k) ==
  LET q == queue[r] IN
  /\ IsBatch(q, k)
  /\ mode'    = [mode EXCEPT ![r] = q[1].mode]
  /\ holders' = [holders EXCEPT ![r] =
                   {[client |-> q[i].client, token |-> clock + i] : i \in 1..k}]
  /\ queue'   = [queue EXCEPT ![r] = SubSeq(q, k + 1, Len(q))]
  /\ waits'   = Unblocked(Batch(q, k))
  /\ clock'   = clock + k
  /\ asked'   = asked \o [i \in 1..k |-> q[i].mode]
  /\ served'  = [c \in Clients |-> IF c \in Batch(q, k) THEN clock + k ELSE served[c]]
  /\ issued'  = issued

LEMMA GrantServes ==
  ASSUME NEW r \in Resources, NEW tok, ReleaseAndGrant(r, tok)
  PROVE  queue[r] # <<>> /\ \E k \in 1..Len(queue[r]) : Serve(r, k)
BY DEF ReleaseAndGrant, Serves, Serve, Rest

\* A release that serves the queue hands out tokens never used before; it serves
\* all that can share the resource, or one that excludes the others, so that the
\* next request is blocked by the mode it leaves.
LEMMA ServeKeepsInv ==
  ASSUME LockInv, NEW r \in Resources, queue[r] # <<>>,
         NEW k \in 1..Len(queue[r]), Serve(r, k)
  PROVE  LockInv'
<1> DEFINE q == queue[r]
           modes == [i \in 1..k |-> q[i].mode]
           granted == {[client |-> q[i].client, token |-> clock + i] : i \in 1..k}
<1> USE DEF LockInv
<1>0. q \in Seq(Request) /\ Len(q) \in Nat /\ k \in Nat /\ k >= 1 /\ k <= Len(q)
  BY DEF TypeOK
<1>1. /\ clock \in Nat /\ clock' = clock + k /\ clock = Len(asked)
      /\ holders' = [holders EXCEPT ![r] = granted]
      /\ mode' = [mode EXCEPT ![r] = q[1].mode]
      /\ queue' = [queue EXCEPT ![r] = SubSeq(q, k + 1, Len(q))]
  BY DEF TypeOK, TokensIssued, Serve
<1>2. \A i \in 1..Len(q) : q[i] \in Request /\ q[i].mode \in Modes /\ q[i].client \in Clients
  <2>1. \A i \in 1..Len(q) : q[i] \in Request
    BY <1>0, ElementOfSeq
  <2> QED BY <2>1 DEF Request
<1>3. \A i \in 1..k : q[i].mode = q[1].mode
  <2>1. IsBatch(q, k)
    BY DEF Serve
  <2> QED BY ONLY <2>1, <1>0 DEF IsBatch
<1>4. granted \in SUBSET Holder
  <2> SUFFICES ASSUME NEW i \in 1..k
               PROVE  [client |-> q[i].client, token |-> clock + i] \in Holder
    OBVIOUS
  <2>1. q[i].client \in Clients /\ clock + i \in Nat \ {0}
    BY <1>0, <1>1, <1>2
  <2> QED BY <2>1 DEF Holder
<1>5. /\ asked' \in Seq(Modes) /\ Len(asked') = clock'
      /\ \A i \in 1..clock : asked'[i] = asked[i]
      /\ \A i \in 1..k : asked'[clock + i] = q[1].mode
  <2>1. modes \in Seq(Modes) /\ Len(modes) = k
    <3>1. \A i \in 1..k : q[i].mode \in Modes
      BY <1>0, <1>2
    <3> QED BY <3>1, <1>0
  <2>2. asked \in Seq(Modes) /\ asked' = asked \o modes
    BY DEF TypeOK, Serve
  <2>3. \A i \in 1..k : modes[i] = q[1].mode
    BY <1>3
  <2> HIDE DEF modes
  <2>4. /\ asked' \in Seq(Modes)
        /\ Len(asked') = Len(asked) + k
        /\ \A i \in 1..(Len(asked) + k) :
             asked'[i] = IF i <= Len(asked) THEN asked[i] ELSE modes[i - Len(asked)]
    BY <2>1, <2>2, ConcatProperties
  <2>5. ASSUME NEW i \in 1..k
        PROVE  asked'[clock + i] = q[1].mode
    <3>1. clock + i \in 1..(Len(asked) + k) /\ ~(clock + i <= clock) /\ (clock + i) - clock = i
      BY <1>0, <1>1
    <3> QED BY <3>1, <2>3, <2>4, <1>1
  <2> QED BY <2>4, <2>5, <1>0, <1>1
<1>6. TypeOK'
  <2>1. mode' \in [Resources -> Modes \cup {"none"}]
    <3>1. q[1].mode \in Modes
      BY <1>0, <1>2
    <3> QED BY <3>1, <1>1 DEF TypeOK
  <2>2. holders' \in [Resources -> SUBSET Holder]
    BY <1>1, <1>4 DEF TypeOK
  <2>3. SubSeq(q, k + 1, Len(q)) \in Seq(Request)
    BY <1>0, <1>2
  <2>4. queue' \in [Resources -> Seq(Request)]
    BY <1>1, <2>3 DEF TypeOK
  <2>5. waits' \in Graphs
    BY DEF TypeOK, Serve, Unblocked, Graphs
  <2>6. served' \in [Clients -> Nat]
    BY <1>1 DEF TypeOK, Serve
  <2>7. clock' \in Nat /\ issued' \in 0..MaxRequests
    BY <1>0, <1>1 DEF TypeOK, Serve
  <2>8. asked' \in Seq(Modes)
    BY <1>5
  <2> QED BY ONLY <2>1, <2>2, <2>4, <2>5, <2>6, <2>7, <2>8 DEF TypeOK
<1>7. \A s \in Resources : \A h \in holders'[s] :
        \/ s # r /\ h \in holders[s] /\ h.token \in 1..clock
        \/ s = r /\ \E i \in 1..k : h = [client |-> q[i].client, token |-> clock + i]
  BY <1>1 DEF TypeOK, TokensIssued
<1>8. TokensIssued'
  BY <1>1, <1>5, <1>7 DEF TokensIssued
<1>9. TokensUnique'
  BY <1>1, <1>7 DEF TokensUnique
<1>10. [client |-> q[1].client, token |-> clock + 1] \in holders'[r]
  <2>1. holders'[r] = granted /\ 1 \in 1..k
    BY <1>0, <1>1 DEF TypeOK
  <2> QED BY <2>1
<1>11. \A s \in Resources : s # r => /\ mode'[s] = mode[s]
                                     /\ holders'[s] = holders[s]
                                     /\ queue'[s] = queue[s]
  BY <1>1 DEF TypeOK
<1>12. mode'[r] = q[1].mode /\ queue'[r] = SubSeq(q, k + 1, Len(q))
  BY <1>1 DEF TypeOK
<1>13. ModeIsAsked'
  <2> SUFFICES ASSUME NEW s \in Resources
               PROVE  /\ holders'[s] = {} => mode'[s] = "none"
                      /\ \A h \in holders'[s] : asked'[h.token] = mode'[s]
    BY DEF ModeIsAsked
  <2>1. CASE s = r
    BY <2>1, <1>5, <1>7, <1>10, <1>12
  <2>2. CASE s # r
    BY <2>2, <1>5, <1>7, <1>11 DEF ModeIsAsked
  <2> QED BY <2>1, <2>2
<1>14. ExclusiveIsAlone'
  <2> SUFFICES ASSUME NEW s \in Resources, mode'[s] = "exclusive",
                      NEW h \in holders'[s], NEW g \in holders'[s]
               PROVE  h = g
    BY DEF ExclusiveIsAlone
  <2>1. CASE s = r
    <3>1. k = 1
      BY <2>1, <1>12 DEF Serve, IsBatch
    <3> QED BY <3>1, <2>1, <1>7
  <2>2. CASE s # r
    BY <2>2, <1>11 DEF ExclusiveIsAlone
  <2> QED BY <2>1, <2>2
<1>15. HeadIsBlocked'
  <2> SUFFICES ASSUME NEW s \in Resources, queue'[s] # <<>>
               PROVE  holders'[s] # {} /\ ~Grantable(s, queue[s][1].mode)'
    BY DEF HeadIsBlocked
  <2>1. CASE s = r
    <3>1. k < Len(q) /\ queue'[s][1] = q[k + 1]
      <4>1. /\ Len(SubSeq(q, k + 1, Len(q))) = IF k + 1 <= Len(q) THEN Len(q) - k ELSE 0
            /\ \A i \in 1..(Len(q) - k) : SubSeq(q, k + 1, Len(q))[i] = q[k + i]
        BY <1>0
      <4>2. Len(SubSeq(q, k + 1, Len(q))) # 0
        BY <2>1, <4>1, <1>0, <1>12
      <4> QED BY <4>1, <4>2, <2>1, <1>0, <1>12
    <3>2. IF q[1].mode = "shared" THEN q[k + 1].mode = "exclusive" ELSE q[1].mode = "exclusive"
      BY <3>1, <1>0, <1>2 DEF Serve, IsBatch, Modes
    <3> QED BY <3>1, <3>2, <2>1, <1>10, <1>12 DEF Grantable
  <2>2. CASE s # r
    BY <2>2, <1>11 DEF HeadIsBlocked, Grantable
  <2> QED BY <2>1, <2>2
<1> QED BY <1>6, <1>8, <1>9, <1>13, <1>14, <1>15

-----------------------------------------------------------------------------
\* A step that changes no variable keeps the invariant.
LEMMA LockStutter == LockInv /\ UNCHANGED vars => LockInv'
BY DEF LockInv, TypeOK, TokensIssued, ModeIsAsked, ExclusiveIsAlone, TokensUnique,
       HeadIsBlocked, Grantable, vars

\* The invariant holds in every reachable state.
THEOREM LockInvariant == Spec => []LockInv
<1>1. LockInv /\ [Next]_vars => LockInv'
  <2> SUFFICES ASSUME LockInv, [Next]_vars PROVE LockInv'
    OBVIOUS
  <2>1. CASE UNCHANGED vars
    BY <2>1, LockStutter
  <2>2. ASSUME NEW r \in Resources, NEW m \in Modes, NEW c \in Clients,
               AcquireGranted(r, m, c) \/ AcquireQueued(r, m, c)
        PROVE  LockInv'
    BY <2>2, AcquireGrantedKeepsInv, AcquireQueuedKeepsInv
  <2>3. ASSUME NEW r \in Resources, NEW tok \in 1..(clock + 1),
               ReleaseOnly(r, tok) \/ ReleaseAndGrant(r, tok)
        PROVE  LockInv'
    <3>1. CASE ReleaseOnly(r, tok)
      BY <3>1, ReleaseOnlyKeepsInv
    <3>2. CASE ReleaseAndGrant(r, tok)
      BY <3>2, GrantServes, ServeKeepsInv
    <3> QED BY <2>3, <3>1, <3>2
  <2> QED BY <2>1, <2>2, <2>3 DEF Next
<1> QED BY <1>1, LockInit, PTL DEF Spec

\* The table keeps its types.
THEOREM LockTypeOK == Spec => []TypeOK
BY LockInvariant, PTL DEF LockInv

\* Two holders of a resource both asked for it in shared mode.
THEOREM LocksExclude == Spec => []MutualExclusion
<1>1. LockInv => MutualExclusion
  <2> SUFFICES ASSUME LockInv, NEW r \in Resources,
                      NEW h \in holders[r], NEW g \in holders[r], h # g
               PROVE  asked[h.token] = "shared" /\ asked[g.token] = "shared"
    BY DEF MutualExclusion
  <2>1. asked[h.token] = mode[r] /\ asked[g.token] = mode[r] /\ mode[r] # "exclusive"
    BY DEF LockInv, ModeIsAsked, ExclusiveIsAlone
  <2>2. asked \in Seq(Modes) /\ h.token \in 1..Len(asked)
    BY DEF LockInv, TypeOK, TokensIssued
  <2>3. asked[h.token] \in Modes
    BY <2>2, ElementOfSeq
  <2> QED BY <2>1, <2>3 DEF Modes
<1> QED BY <1>1, LockInvariant, PTL

\* No two grants in force have the same token.
THEOREM TokensNameOneGrant == Spec => []TokensUnique
BY LockInvariant, PTL DEF LockInv

\* The head of a queue is always blocked by the holders: no grant was missed.
THEOREM NoMissedGrant == Spec => []HeadIsBlocked
BY LockInvariant, PTL DEF LockInv

-----------------------------------------------------------------------------
(* The wait-for graph.  GraphInv adds that a queued request is older than the *)
(* grants to come, so that a new holder never needs an edge and a client      *)
(* whose edges were dropped has a grant newer than its request.               *)

SinceIsPast ==
  \A r \in Resources : \A i \in 1..Len(queue[r]) : queue[r][i].since <= clock

GraphInv == SinceIsPast /\ WaitersAreQueued /\ WaitsForOldHolders

LEMMA QueuedAreRequests ==
  ASSUME LockInv, NEW s \in Resources, NEW i \in 1..Len(queue[s])
  PROVE  queue[s][i].client \in Clients /\ queue[s][i].since \in Nat
<1>1. queue[s] \in Seq(Request)
  BY DEF LockInv, TypeOK
<1>2. queue[s][i] \in Request
  BY <1>1, ElementOfSeq
<1> QED BY <1>2 DEF Request

LEMMA GraphInit == Init => GraphInv
BY DEF Init, GraphInv, SinceIsPast, WaitersAreQueued, WaitsForOldHolders

LEMMA AcquireGrantedKeepsGraph ==
  ASSUME LockInv, GraphInv, NEW r \in Resources, NEW m \in Modes, NEW c \in Clients,
         AcquireGranted(r, m, c)
  PROVE  GraphInv'
<1> DEFINE new == [client |-> c, token |-> NewToken]
<1>1. /\ clock \in Nat /\ clock' = clock + 1 /\ new.token = clock + 1
      /\ holders' = [holders EXCEPT ![r] = @ \cup {new}]
      /\ holders \in [Resources -> SUBSET Holder]
      /\ UNCHANGED <<queue, waits, served>>
  BY DEF LockInv, TypeOK, AcquireGranted, NewToken
<1>2. \A s \in Resources : \A i \in 1..Len(queue[s]) :
        queue[s][i].since \in Nat /\ queue[s][i].since <= clock
  BY QueuedAreRequests DEF GraphInv, SinceIsPast
<1>3. SinceIsPast'
  BY <1>1, <1>2 DEF SinceIsPast
<1>4. WaitersAreQueued'
  BY <1>1 DEF GraphInv, WaitersAreQueued, Queued
<1>5. WaitsForOldHolders'
  <2>1. \A s \in Resources : \A h \in holders'[s] : h \in holders[s] \/ h = new
    BY <1>1
  <2> QED BY <2>1, <1>1, <1>2 DEF GraphInv, WaitsForOldHolders
<1> QED BY <1>3, <1>4, <1>5 DEF GraphInv

LEMMA AcquireQueuedKeepsGraph ==
  ASSUME LockInv, GraphInv, NEW r \in Resources, NEW m \in Modes, NEW c \in Clients,
         AcquireQueued(r, m, c)
  PROVE  GraphInv'
<1> DEFINE e == [client |-> c, mode |-> m, since |-> clock]
<1>1. /\ queue \in [Resources -> Seq(Request)] /\ waits \in [Clients -> SUBSET Clients]
      /\ e \in Request /\ clock \in Nat
      /\ queue' = [queue EXCEPT ![r] = Append(@, e)]
      /\ waits' = [waits EXCEPT ![c] = @ \cup HoldersOf(r)]
      /\ UNCHANGED <<holders, clock, served>>
  BY DEF LockInv, TypeOK, AcquireQueued, NewEdges, Graphs, Request
<1>2. \A s \in Resources : \A i \in 1..Len(queue'[s]) :
        \/ i \in 1..Len(queue[s]) /\ queue'[s][i] = queue[s][i]
        \/ s = r /\ queue'[s][i] = e
  BY <1>1
<1>3. SinceIsPast'
  BY <1>1, <1>2 DEF GraphInv, SinceIsPast
<1>4. WaitersAreQueued'
  <2> SUFFICES ASSUME NEW d \in Clients, waits'[d] # {}
               PROVE  \E s \in Resources : Queued(d, s)'
    BY DEF WaitersAreQueued
  <2>1. CASE d = c
    <3>1. Len(queue[r]) + 1 \in 1..Len(queue'[r]) /\ queue'[r][Len(queue[r]) + 1] = e
      BY <1>1
    <3> QED BY <3>1, <2>1 DEF Queued
  <2>2. CASE d # c
    <3>1. PICK s \in Resources : Queued(d, s)
      BY <2>2, <1>1 DEF GraphInv, WaitersAreQueued
    <3>2. PICK i \in 1..Len(queue[s]) : queue[s][i].client = d
      BY <3>1 DEF Queued
    <3>3. i \in 1..Len(queue'[s]) /\ queue'[s][i] = queue[s][i]
      BY <1>1, <3>2
    <3> QED BY <3>2, <3>3 DEF Queued
  <2> QED BY <2>1, <2>2
<1>5. WaitsForOldHolders'
  <2> SUFFICES ASSUME NEW s \in Resources, NEW i \in 1..Len(queue'[s]), NEW h \in holders[s],
                      h.token <= queue'[s][i].since,
                      served[queue'[s][i].client] <= queue'[s][i].since
               PROVE  h.client \in waits'[queue'[s][i].client]
    BY <1>1 DEF WaitsForOldHolders
  <2>1. \A d \in Clients : waits[d] \subseteq waits'[d]
    BY <1>1
  <2>2. CASE i \in 1..Len(queue[s]) /\ queue'[s][i] = queue[s][i]
    <3>1. queue[s][i].client \in Clients
      BY <2>2, QueuedAreRequests
    <3> QED BY <3>1, <2>1, <2>2 DEF GraphInv, WaitsForOldHolders
  <2>3. CASE s = r /\ queue'[s][i] = e
    BY <2>3, <1>1 DEF HoldersOf
  <2> QED BY <2>2, <2>3, <1>2
<1> QED BY <1>3, <1>4, <1>5 DEF GraphInv

LEMMA ReleaseOnlyKeepsGraph ==
  ASSUME LockInv, GraphInv, NEW r \in Resources, NEW tok \in Nat, ReleaseOnly(r, tok)
  PROVE  GraphInv'
<1>1. /\ UNCHANGED <<queue, waits, clock, served>>
      /\ \A s \in Resources : holders'[s] \subseteq holders[s]
  BY DEF LockInv, TypeOK, ReleaseOnly, Left
<1> QED BY <1>1 DEF GraphInv, SinceIsPast, WaitersAreQueued, WaitsForOldHolders, Queued

LEMMA ServeKeepsGraph ==
  ASSUME LockInv, GraphInv, NEW r \in Resources, queue[r] # <<>>,
         NEW k \in 1..Len(queue[r]), Serve(r, k)
  PROVE  GraphInv'
<1> DEFINE q == queue[r]
<1>1. /\ clock \in Nat /\ k \in Nat /\ k >= 1 /\ clock' = clock + k
      /\ queue \in [Resources -> Seq(Request)]
      /\ waits' = [c \in Clients |-> IF c \in Batch(q, k) THEN {} ELSE waits[c]]
      /\ served' = [c \in Clients |-> IF c \in Batch(q, k) THEN clock + k ELSE served[c]]
  BY DEF LockInv, TypeOK, Serve, Unblocked
<1>2. \A s \in Resources : s # r => queue'[s] = queue[s] /\ holders'[s] = holders[s]
  BY DEF LockInv, TypeOK, Serve
<1>3. q \in Seq(Request) /\ Len(q) \in Nat /\ k <= Len(q)
  BY <1>1
<1>4. queue'[r] = SubSeq(q, k + 1, Len(q))
  BY <1>1 DEF Serve
<1>5. /\ Len(queue'[r]) = Len(q) - k
      /\ \A i \in 1..(Len(q) - k) : queue'[r][i] = q[k + i]
  BY <1>1, <1>3, <1>4
<1>6. \A h \in holders'[r] : \E i \in 1..k : h.token = clock + i
  <2>1. holders'[r] = {[client |-> q[i].client, token |-> clock + i] : i \in 1..k}
    BY DEF Serve, LockInv, TypeOK
  <2> QED BY <2>1
<1>7. \A s \in Resources : \A i \in 1..Len(queue'[s]) :
        \E j \in 1..Len(queue[s]) : queue'[s][i] = queue[s][j]
  <2> SUFFICES ASSUME NEW s \in Resources, NEW i \in 1..Len(queue'[s])
               PROVE  \E j \in 1..Len(queue[s]) : queue'[s][i] = queue[s][j]
    OBVIOUS
  <2>1. CASE s # r
    BY <2>1, <1>2
  <2>2. CASE s = r
    <3>1. k + i \in 1..Len(q) /\ queue'[r][i] = q[k + i]
      BY <2>2, <1>1, <1>3, <1>5
    <3> QED BY <3>1, <2>2
  <2> QED BY <2>1, <2>2
<1>8. \A s \in Resources : \A i \in 1..Len(queue'[s]) :
        /\ queue'[s][i].since \in Nat /\ queue'[s][i].since <= clock
        /\ queue'[s][i].client \in Clients
  <2>1. \A s \in Resources : \A j \in 1..Len(queue[s]) :
          /\ queue[s][j].since \in Nat /\ queue[s][j].since <= clock
          /\ queue[s][j].client \in Clients
    BY QueuedAreRequests DEF GraphInv, SinceIsPast
  <2> SUFFICES ASSUME NEW s \in Resources, NEW i \in 1..Len(queue'[s])
               PROVE  /\ queue'[s][i].since \in Nat /\ queue'[s][i].since <= clock
                      /\ queue'[s][i].client \in Clients
    OBVIOUS
  <2>2. PICK j \in 1..Len(queue[s]) : queue'[s][i] = queue[s][j]
    BY <1>7
  <2> QED BY <2>1, <2>2
<1>9. SinceIsPast'
  <2> SUFFICES ASSUME NEW s \in Resources, NEW i \in 1..Len(queue'[s])
               PROVE  queue'[s][i].since <= clock'
    BY DEF SinceIsPast
  <2>1. queue'[s][i].since \in Nat /\ queue'[s][i].since <= clock
    BY <1>8
  <2> QED BY <2>1, <1>1
<1>10. WaitersAreQueued'
  <2> SUFFICES ASSUME NEW d \in Clients, waits'[d] # {}
               PROVE  \E s \in Resources : Queued(d, s)'
    BY DEF WaitersAreQueued
  <2>1. d \notin Batch(q, k) /\ waits[d] # {}
    BY <1>1
  <2>2. PICK s \in Resources : Queued(d, s)
    BY <2>1 DEF GraphInv, WaitersAreQueued
  <2>3. PICK i \in 1..Len(queue[s]) : queue[s][i].client = d
    BY <2>2 DEF Queued
  <2>4. CASE s # r
    BY <2>3, <2>4, <1>2 DEF Queued
  <2>5. CASE s = r
    <3>1. i \notin 1..k
      BY <2>1, <2>3, <2>5 DEF Batch
    <3>2. i - k \in 1..Len(queue'[r]) /\ queue'[r][i - k] = q[i]
      BY <3>1, <2>3, <2>5, <1>1, <1>3, <1>5
    <3> QED BY <3>2, <2>3, <2>5 DEF Queued
  <2> QED BY <2>4, <2>5
<1>11. WaitsForOldHolders'
  <2> SUFFICES ASSUME NEW s \in Resources, NEW i \in 1..Len(queue'[s]), NEW h \in holders'[s],
                      h.token <= queue'[s][i].since,
                      served'[queue'[s][i].client] <= queue'[s][i].since
               PROVE  h.client \in waits'[queue'[s][i].client]
    BY DEF WaitsForOldHolders
  <2> DEFINE d == queue'[s][i].client
  <2>1. d \in Clients /\ d \notin Batch(q, k)
    BY <1>1, <1>8
  <2>2. waits'[d] = waits[d] /\ served'[d] = served[d]
    BY <2>1, <1>1
  <2>3. s # r
    BY <1>1, <1>6, <1>8
  <2>4. queue'[s] = queue[s] /\ h \in holders[s]
    BY <2>3, <1>2
  <2> QED BY <2>2, <2>4 DEF GraphInv, WaitsForOldHolders
<1> QED BY <1>9, <1>10, <1>11 DEF GraphInv

LEMMA GraphStutter == GraphInv /\ UNCHANGED vars => GraphInv'
BY DEF GraphInv, SinceIsPast, WaitersAreQueued, WaitsForOldHolders, Queued, vars

\* The invariant of the graph holds in every reachable state.
THEOREM GraphInvariant == Spec => []GraphInv
<1>1. LockInv /\ GraphInv /\ [Next]_vars => GraphInv'
  <2> SUFFICES ASSUME LockInv, GraphInv, [Next]_vars PROVE GraphInv'
    OBVIOUS
  <2>1. CASE UNCHANGED vars
    BY <2>1, GraphStutter
  <2>2. ASSUME NEW r \in Resources, NEW m \in Modes, NEW c \in Clients,
               AcquireGranted(r, m, c) \/ AcquireQueued(r, m, c)
        PROVE  GraphInv'
    BY <2>2, AcquireGrantedKeepsGraph, AcquireQueuedKeepsGraph
  <2>3. ASSUME NEW r \in Resources, NEW tok \in 1..(clock + 1),
               ReleaseOnly(r, tok) \/ ReleaseAndGrant(r, tok)
        PROVE  GraphInv'
    <3>1. CASE ReleaseOnly(r, tok)
      BY <3>1, ReleaseOnlyKeepsGraph
    <3>2. CASE ReleaseAndGrant(r, tok)
      BY <3>2, GrantServes, ServeKeepsGraph
    <3> QED BY <2>3, <3>1, <3>2
  <2> QED BY <2>1, <2>2, <2>3 DEF Next
<1> QED BY <1>1, LockInvariant, GraphInit, PTL DEF Spec

\* A client with an edge out of it is queued somewhere.
THEOREM NoStrayEdges == Spec => []WaitersAreQueued
BY GraphInvariant, PTL DEF GraphInv

\* The edges from a queued client to the holders it found are never lost, but by
\* a grant to that client.
THEOREM EdgesToOldHolders == Spec => []WaitsForOldHolders
BY GraphInvariant, PTL DEF GraphInv

-----------------------------------------------------------------------------
(***************************************************************************)
(* LockTable implements Locks: a command of the table is a step of Locks,  *)
(* or changes nothing that Locks can see.  The steps of the table need its *)
(* invariant: that `mode' is what the holders asked for, that a token names *)
(* one grant, and that nobody waits for a resource which is free.          *)
(***************************************************************************)

\* The state of Locks.
AllGrants == [r \in Resources |-> GrantsOf(r)]
AllLines == [r \in Resources |-> LineOf(r)]

AsGrant(h) == [client |-> h.client, mode |-> asked[h.token], token |-> h.token]
AsRequest(e) == [client |-> e.client, mode |-> e.mode]

LEMMA InitImplements == Init => L!Init
<1> SUFFICES ASSUME Init PROVE L!Init
  OBVIOUS
<1>1. \A r \in Resources : GrantsOf(r) = {}
  BY DEF Init, GrantsOf
<1>2. \A r \in Resources : LineOf(r) = <<>>
  BY DEF Init, LineOf
<1> QED BY <1>1, <1>2 DEF Init, L!Init

-----------------------------------------------------------------------------
\* What a request finds in its way, said in both ways.
LEMMA GrantableFits ==
  ASSUME LockInv, NEW r \in Resources, NEW req, req.mode \in Modes
  PROVE  Grantable(r, req.mode) <=> L!FitsWith(req, GrantsOf(r))
<1>1. \A g \in GrantsOf(r) : g.mode = mode[r]
  BY DEF LockInv, ModeIsAsked, GrantsOf
<1>2. GrantsOf(r) = {} <=> holders[r] = {}
  BY DEF GrantsOf
<1> QED BY <1>1, <1>2 DEF Grantable, L!FitsWith, L!Fit

\* A history that only grew tells the same of the grants there were.
LEMMA GrantsKept ==
  ASSUME LockInv, NEW s \in Resources, holders'[s] = holders[s],
         \A i \in 1..clock : asked'[i] = asked[i]
  PROVE  GrantsOf(s)' = GrantsOf(s)
<1>1. \A h \in holders[s] : asked'[h.token] = asked[h.token]
  BY DEF LockInv, TokensIssued
<1> QED BY <1>1 DEF GrantsOf

LEMMA GrantImplements ==
  ASSUME LockInv, NEW r \in Resources, NEW m \in Modes, NEW c \in Clients,
         AcquireGranted(r, m, c)
  PROVE  L!Grant(r, [client |-> c, mode |-> m])
<1> DEFINE req == [client |-> c, mode |-> m]
           new == [client |-> c, token |-> clock + 1]
<1>1. L!FitsWith(req, GrantsOf(r))
  BY GrantableFits DEF AcquireGranted
<1>2. /\ clock \in Nat /\ clock = Len(asked) /\ asked \in Seq(Modes)
      /\ holders \in [Resources -> SUBSET Holder]
  BY DEF LockInv, TypeOK, TokensIssued
<1>3. asked' = Append(asked, m) /\ clock' = clock + 1 /\ queue' = queue
  BY DEF AcquireGranted, NewToken
<1>4. (\A i \in 1..clock : asked'[i] = asked[i]) /\ asked'[clock + 1] = m
  BY <1>2, <1>3
<1>5. holders' = [holders EXCEPT ![r] = @ \cup {new}]
  BY DEF AcquireGranted, NewToken
<1>6. \A s \in Resources \ {r} : GrantsOf(s)' = GrantsOf(s)
  BY <1>2, <1>4, <1>5, GrantsKept
<1>7. GrantsOf(r)' = GrantsOf(r) \cup {L!GrantOf(req, clock + 1)}
  <2>1. holders'[r] = holders[r] \cup {new}
    BY <1>2, <1>5
  <2>2. \A h \in holders[r] : asked'[h.token] = asked[h.token]
    BY <1>4 DEF LockInv, TokensIssued
  <2> DEFINE After(h) == [client |-> h.client, mode |-> asked'[h.token], token |-> h.token]
  <2>3. GrantsOf(r)' = {After(h) : h \in holders'[r]}
    BY DEF GrantsOf
  <2>4. GrantsOf(r) = {AsGrant(h) : h \in holders[r]}
    BY DEF GrantsOf, AsGrant
  <2>5. \A h \in holders[r] : After(h) = AsGrant(h)
    BY <2>2 DEF AsGrant
  <2>6. After(new) = L!GrantOf(req, clock + 1)
    BY <1>4 DEF L!GrantOf
  <2> HIDE DEF After, new, req
  <2> QED BY <2>1, <2>3, <2>4, <2>5, <2>6
<1>8. AllGrants' = [AllGrants EXCEPT ![r] = @ \cup {L!GrantOf(req, clock + 1)}]
  BY <1>6, <1>7 DEF AllGrants
<1>9. AllLines' = AllLines
  BY <1>3 DEF AllLines, LineOf
<1> QED BY <1>1, <1>3, <1>8, <1>9 DEF L!Grant, AllGrants, AllLines

LEMMA WaitImplements ==
  ASSUME LockInv, NEW r \in Resources, NEW m \in Modes, NEW c \in Clients,
         AcquireQueued(r, m, c)
  PROVE  L!Wait(r, [client |-> c, mode |-> m])
<1> DEFINE req == [client |-> c, mode |-> m]
           e == [client |-> c, mode |-> m, since |-> clock]
<1>1. ~L!FitsWith(req, GrantsOf(r))
  BY GrantableFits DEF AcquireQueued
<1>2. UNCHANGED <<holders, asked, clock>>
  BY DEF AcquireQueued
<1>3. AllGrants' = AllGrants
  BY <1>2 DEF AllGrants, GrantsOf
<1>4. queue \in [Resources -> Seq(Request)] /\ e \in Request
      /\ queue' = [queue EXCEPT ![r] = Append(@, e)]
  BY DEF LockInv, TypeOK, AcquireQueued, Request
<1>5. \A s \in Resources \ {r} : LineOf(s)' = LineOf(s)
  BY <1>4 DEF LineOf
<1>6. LineOf(r)' = Append(LineOf(r), req)
  <2>1. queue'[r] = Append(queue[r], e) /\ queue[r] \in Seq(Request)
    BY <1>4
  <2>2. Len(queue'[r]) = Len(queue[r]) + 1 /\ Len(queue[r]) \in Nat
    BY <2>1
  <2>3. \A i \in 1..Len(queue[r]) : queue'[r][i] = queue[r][i]
    BY <2>1
  <2>4. queue'[r][Len(queue[r]) + 1] = e
    BY <2>1
  <2> QED BY <2>2, <2>3, <2>4 DEF LineOf
<1>7. AllLines' = [AllLines EXCEPT ![r] = Append(@, req)]
  BY <1>5, <1>6 DEF AllLines
<1> QED BY <1>1, <1>2, <1>3, <1>7 DEF L!Wait, AllGrants, AllLines

-----------------------------------------------------------------------------
\* Two holders never share a token, so that a grant is known by it.
LEMMA OneHolder ==
  ASSUME LockInv, NEW r \in Resources, NEW h \in holders[r]
  PROVE  Left(r, h.token) = holders[r] \ {h}
BY DEF LockInv, TokensUnique, Left

LEMMA ReleaseImplements ==
  ASSUME LockInv, NEW r \in Resources, NEW tok, ReleaseOnly(r, tok)
  PROVE  \/ AllGrants' = AllGrants /\ AllLines' = AllLines /\ clock' = clock
         \/ \E g \in AllGrants[r] : L!Release(r, g)
<1>1. /\ holders' = [holders EXCEPT ![r] = Left(r, tok)]
      /\ UNCHANGED <<queue, asked, clock>>
      /\ holders \in [Resources -> SUBSET Holder]
  BY DEF LockInv, TypeOK, ReleaseOnly
<1>2. AllLines' = AllLines
  BY <1>1 DEF AllLines, LineOf
<1>3. CASE \A h \in holders[r] : h.token # tok
  <2>1. holders' = holders
    BY <1>1, <1>3 DEF Left
  <2> QED BY <1>1, <1>2, <2>1 DEF AllGrants, GrantsOf
<1>4. CASE \E h \in holders[r] : h.token = tok
  <2>1. PICK h \in holders[r] : h.token = tok
    BY <1>4
  <2> DEFINE g == AsGrant(h)
  <2>2. holders'[r] = holders[r] \ {h}
    BY <1>1, <2>1, OneHolder
  <2>3. \A f \in holders[r] : f # h => AsGrant(f) # g
    BY DEF AsGrant, LockInv, TokensUnique
  <2>4. GrantsOf(r) = {AsGrant(f) : f \in holders[r]}
        /\ GrantsOf(r)' = {AsGrant(f) : f \in holders'[r]}
    BY <1>1 DEF GrantsOf, AsGrant
  <2>5. GrantsOf(r)' = GrantsOf(r) \ {g} /\ g \in GrantsOf(r)
    BY <2>2, <2>3, <2>4
  <2>6. \A s \in Resources \ {r} : GrantsOf(s)' = GrantsOf(s)
    BY <1>1 DEF GrantsOf
  <2>7. AllGrants' = [AllGrants EXCEPT ![r] = @ \ {g}]
    BY <2>5, <2>6 DEF AllGrants
  <2>8. LineOf(r) = <<>> \/ GrantsOf(r) # {g}
    <3>1. CASE queue[r] = <<>>
      BY <3>1 DEF LineOf
    <3>2. CASE queue[r] # <<>>
      <4>1. PICK f \in holders[r] : f # h
        BY <3>2, <1>1, <2>1, <2>2 DEF ReleaseOnly, Serves
      <4> QED BY <4>1, <2>3, <2>4
    <3> QED BY <3>1, <3>2
  <2>9. L!Release(r, g)
    BY <1>1, <1>2, <2>7, <2>8 DEF L!Release, AllGrants, AllLines
  <2> QED BY <2>5, <2>9 DEF AllGrants
<1> QED BY <1>3, <1>4

LEMMA HandOverImplements ==
  ASSUME LockInv, NEW r \in Resources, NEW tok, ReleaseAndGrant(r, tok)
  PROVE  \E g \in AllGrants[r] : \E k \in 1..Len(AllLines[r]) : L!HandOver(r, g, k)
<1>1. queue[r] # <<>> /\ Left(r, tok) = {}
  BY DEF ReleaseAndGrant, Serves
<1>2. PICK k \in 1..Len(queue[r]) : Serve(r, k)
  BY GrantServes
<1>3. PICK h \in holders[r] : TRUE
  BY <1>1 DEF LockInv, HeadIsBlocked
<1>4. holders[r] = {h}
  BY <1>1, <1>3 DEF Left, LockInv, TokensUnique
<1> DEFINE g == AsGrant(h)
           q == queue[r]
           ln == AllLines[r]
           modes == [i \in 1..k |-> q[i].mode]
<1>5. GrantsOf(r) = {g}
  BY <1>4 DEF GrantsOf, AsGrant
<1>6. /\ clock \in Nat /\ clock = Len(asked) /\ asked \in Seq(Modes)
      /\ holders \in [Resources -> SUBSET Holder]
      /\ queue \in [Resources -> Seq(Request)]
  BY DEF LockInv, TypeOK, TokensIssued
<1>7. q \in Seq(Request) /\ Len(q) \in Nat /\ k \in Nat /\ k >= 1 /\ k <= Len(q)
  BY <1>2, <1>6
<1>8. \A i \in 1..Len(q) : q[i] \in Request
  BY <1>7, ElementOfSeq
<1>9. ln = [i \in 1..Len(q) |-> AsRequest(q[i])]
  BY DEF AllLines, LineOf, AsRequest
<1> HIDE DEF ln
<1>10. /\ Len(ln) = Len(q)
       /\ \A i \in 1..Len(q) : ln[i].mode = q[i].mode /\ ln[i].client = q[i].client
  BY <1>7, <1>9 DEF AsRequest
<1>11. \A i, j \in 1..k : i # j => L!Fit(ln[i], ln[j])
  <2>1. CASE q[1].mode = "shared"
    <3>1. \A i \in 1..k : q[i].mode = "shared" /\ i \in 1..Len(q)
      BY <1>2, <1>7, <2>1 DEF Serve, IsBatch
    <3>2. \A i \in 1..k : ln[i].mode = "shared"
      BY <1>10, <3>1
    <3> QED BY <3>2 DEF L!Fit
  <2>2. CASE q[1].mode # "shared"
    <3>1. k = 1
      BY <1>2, <2>2 DEF Serve, IsBatch
    <3> QED BY <3>1
  <2> QED BY <2>1, <2>2
<1>12. k < Len(q) => \E i \in 1..k : ~L!Fit(ln[k + 1], ln[i])
  <2> SUFFICES ASSUME k < Len(q)
               PROVE  \E i \in 1..k : ~L!Fit(ln[k + 1], ln[i])
    OBVIOUS
  <2>1. 1 \in 1..k /\ k + 1 \in 1..Len(q)
    BY <1>7
  <2>2. q[k + 1].mode = "exclusive" \/ q[1].mode # "shared"
    BY <1>2 DEF Serve, IsBatch
  <2>3. ln[k + 1].mode = q[k + 1].mode /\ ln[1].mode = q[1].mode
    BY <1>10, <1>7, <2>1
  <2>4. ~L!Fit(ln[k + 1], ln[1])
    BY <2>2, <2>3 DEF L!Fit
  <2> QED BY <2>1, <2>4
<1>13. asked' = asked \o modes /\ modes \in Seq(Modes) /\ Len(modes) = k
  <2>1. \A i \in 1..k : q[i].mode \in Modes
    BY <1>7, <1>8 DEF Request
  <2> QED BY <1>2, <1>7, <2>1 DEF Serve
<1>14. /\ \A i \in 1..clock : asked'[i] = asked[i]
       /\ \A i \in 1..k : asked'[clock + i] = q[i].mode
  BY <1>6, <1>7, <1>13
<1>15. holders' = [holders EXCEPT ![r] =
                     {[client |-> q[i].client, token |-> clock + i] : i \in 1..k}]
  BY <1>2 DEF Serve
<1>16. \A s \in Resources \ {r} : GrantsOf(s)' = GrantsOf(s)
  BY <1>6, <1>14, <1>15, GrantsKept
<1>17. GrantsOf(r)' = {L!GrantOf(ln[i], clock + i) : i \in 1..k}
  <2> DEFINE H(i) == [client |-> q[i].client, token |-> clock + i]
  <2>1. holders'[r] = {H(i) : i \in 1..k}
    BY <1>6, <1>15
  <2> DEFINE After(f) == [client |-> f.client, mode |-> asked'[f.token], token |-> f.token]
             New(i) == L!GrantOf(ln[i], clock + i)
  <2>2. \A i \in 1..k : After(H(i)) = New(i)
    BY <1>7, <1>10, <1>14 DEF L!GrantOf
  <2>3. GrantsOf(r)' = {After(f) : f \in holders'[r]}
    BY DEF GrantsOf
  <2> HIDE DEF H, After, New
  <2>4. {After(f) : f \in {H(i) : i \in 1..k}} = {New(i) : i \in 1..k}
    BY <2>2
  <2>5. GrantsOf(r)' = {New(i) : i \in 1..k}
    BY <2>1, <2>3, <2>4
  <2> QED BY <2>5 DEF New
<1>18. AllGrants' = [AllGrants EXCEPT ![r] = {L!GrantOf(ln[i], clock + i) : i \in 1..k}]
  BY <1>16, <1>17 DEF AllGrants
<1>19. queue' = [queue EXCEPT ![r] = SubSeq(q, k + 1, Len(q))] /\ clock' = clock + k
  BY <1>2 DEF Serve
<1>20. \A s \in Resources \ {r} : LineOf(s)' = LineOf(s)
  BY <1>6, <1>19 DEF LineOf
<1>21. LineOf(r)' = SubSeq(ln, k + 1, Len(ln))
  <2>1. queue'[r] = SubSeq(q, k + 1, Len(q))
    BY <1>6, <1>19
  <2>2. Len(queue'[r]) = Len(q) - k /\ \A i \in 1..(Len(q) - k) : queue'[r][i] = q[i + k]
    BY <1>7, <2>1
  <2>3. LineOf(r)' = [i \in 1..(Len(q) - k) |-> AsRequest(q[i + k])]
    BY <2>2 DEF LineOf, AsRequest
  <2>4. SubSeq(ln, k + 1, Len(q)) = [i \in 1..(Len(q) - k) |-> ln[i + k]]
    <3>1. \A i \in 1..Len(q) : AsRequest(q[i]) \in [client : Clients, mode : Modes]
      BY <1>8 DEF AsRequest, Request
    <3>2. ln \in Seq([client : Clients, mode : Modes])
      BY <1>7, <1>9, <3>1
    <3> QED BY <1>7, <1>10, <3>2
  <2>5. \A i \in 1..(Len(q) - k) : ln[i + k] = AsRequest(q[i + k])
    BY <1>7, <1>9
  <2> QED BY <1>10, <2>3, <2>4, <2>5
<1>22. AllLines' = [AllLines EXCEPT ![r] = SubSeq(ln, k + 1, Len(ln))]
  BY <1>20, <1>21 DEF AllLines
<1>23. L!HandOver(r, g, k)
  <2> HIDE DEF g, q
  <2>1. AllGrants[r] = {g}
    BY <1>5 DEF AllGrants
  <2>2. k < Len(ln) => \E i \in 1..k : ~L!Fit(ln[k + 1], ln[i])
    BY <1>10, <1>12
  <2>3. clock' = clock + k
    BY <1>19
  <2> QED BY <2>1, <2>2, <2>3, <1>11, <1>18, <1>22 DEF L!HandOver, AllGrants, AllLines, ln
<1>24. g \in AllGrants[r] /\ k \in 1..Len(AllLines[r])
  BY <1>2, <1>5, <1>10 DEF AllGrants, ln
<1> QED BY <1>23, <1>24

-----------------------------------------------------------------------------
\* Every behaviour of the table is one of Locks.
THEOREM TableImplementsLocks == Spec => ImplementsLocks
<1>1. LockInv /\ [Next]_vars => [L!Next]_(L!vars)
  <2> SUFFICES ASSUME LockInv, [Next]_vars PROVE L!Next \/ UNCHANGED L!vars
    OBVIOUS
  <2>1. CASE UNCHANGED vars
    BY <2>1 DEF vars, L!vars, GrantsOf, LineOf
  <2>2. ASSUME NEW r \in Resources, NEW m \in Modes, NEW c \in Clients,
               AcquireGranted(r, m, c) \/ AcquireQueued(r, m, c)
        PROVE  L!Next
    <3>1. \/ L!Grant(r, [client |-> c, mode |-> m])
          \/ L!Wait(r, [client |-> c, mode |-> m])
      BY <2>2, GrantImplements, WaitImplements
    <3> QED BY <3>1 DEF L!Next
  <2>3. ASSUME NEW r \in Resources, NEW tok, ReleaseOnly(r, tok)
        PROVE  L!Next \/ UNCHANGED L!vars
    BY <2>3, ReleaseImplements DEF L!Next, L!vars, AllGrants, AllLines
  <2>4. ASSUME NEW r \in Resources, NEW tok, ReleaseAndGrant(r, tok)
        PROVE  L!Next
    BY <2>4, HandOverImplements DEF L!Next, AllGrants, AllLines
  <2> QED BY <2>1, <2>2, <2>3, <2>4 DEF Next
<1> QED BY <1>1, LockInvariant, InitImplements, PTL DEF Spec, ImplementsLocks, L!Spec

=============================================================================
