----------------------------- MODULE AtLeastOnce -----------------------------
(***************************************************************************)
(* What a queue with acks promises, whatever its lists and workers are: a  *)
(* place keeps what it accepted until somebody begins to ack it, only what *)
(* was accepted is given to clients and only what was given is acked.  An  *)
(* ack may meet another call, and then the message can come back; once an  *)
(* ack is final, it cannot.  ShardQueue implements it.                     *)
(***************************************************************************)
CONSTANTS Places, Messages

VARIABLES accepted,  \* of each place, the messages it ever accepted
          kept,      \* of each place, the messages it has now
          given,     \* the messages clients were given
          begun,     \* the messages clients began to ack
          final      \* the messages that are gone for good

vars == <<accepted, kept, given, begun, final>>

Init ==
  /\ accepted = [p \in Places |-> {}]
  /\ kept = [p \in Places |-> {}]
  /\ given = {} /\ begun = {} /\ final = {}

Accept(p, m) ==
  /\ m \notin final
  /\ accepted' = [accepted EXCEPT ![p] = @ \cup {m}]
  /\ kept' = [kept EXCEPT ![p] = @ \cup {m}]
  /\ UNCHANGED <<given, begun, final>>

Give(S) ==
  /\ \A m \in S : \E p \in Places : m \in accepted[p]
  /\ given' = given \cup S
  /\ UNCHANGED <<accepted, kept, begun, final>>

BeginAck(m) ==
  /\ m \in given
  /\ begun' = begun \cup {m}
  /\ UNCHANGED <<accepted, kept, given, final>>

Forget(p, m) ==
  /\ m \in begun
  /\ kept' = [kept EXCEPT ![p] = @ \ {m}]
  /\ UNCHANGED <<accepted, given, begun, final>>

\* Another call still had the message in its hands.
Revive(p, m) ==
  /\ m \in begun \ final /\ m \in accepted[p]
  /\ kept' = [kept EXCEPT ![p] = @ \cup {m}]
  /\ UNCHANGED <<accepted, given, begun, final>>

Finish(m) ==
  /\ m \in begun /\ \A p \in Places : m \notin kept[p]
  /\ final' = final \cup {m}
  /\ UNCHANGED <<accepted, kept, given, begun>>

Next ==
  \/ \E m \in Messages :
       \/ BeginAck(m) \/ Finish(m)
       \/ \E p \in Places : Accept(p, m) \/ Forget(p, m) \/ Revive(p, m)
  \/ \E S \in SUBSET Messages : Give(S)

Spec == Init /\ [][Next]_vars

=============================================================================
