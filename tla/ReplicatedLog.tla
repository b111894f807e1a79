---------------------------- MODULE ReplicatedLog ----------------------------
(***************************************************************************)
(* What a replicated state machine promises, whatever its messages are:    *)
(* the commands get one order, every replica holds a prefix of it, and     *)
(* applies a prefix of what it holds once a quorum holds that much.        *)
(* A replica may lose everything.  Raft implements it while it is Serial.  *)
(***************************************************************************)
EXTENDS Integers, Sequences

CONSTANTS Replicas, Commands,
          Quorums     \* sets of replicas, any two of which have one in common

VARIABLES order,    \* the commands, in their order
          held,     \* of each replica, the commands in its log
          applied,  \* of each replica, the commands it has applied
          lost      \* the replicas that lost their log

vars == <<order, held, applied, lost>>

Init ==
  /\ order = <<>>
  /\ held = [r \in Replicas |-> <<>>]
  /\ applied = [r \in Replicas |-> <<>>]
  /\ lost = {}

Upto(i) == SubSeq(order, 1, i)

\* A new command gets its place, at a replica that holds all the others.
Propose(r, c) ==
  /\ \A i \in 1..Len(order) : order[i] # c
  /\ held[r] = order
  /\ order' = Append(order, c)
  /\ held' = [held EXCEPT ![r] = order']
  /\ UNCHANGED <<applied, lost>>

\* A replica gets some of the commands it has not, and applies some of those it
\* has, in their order; a replica that lost its log had them, for the quorum.
Advance(r) ==
  /\ \E h \in Len(held[r])..Len(order) : \E a \in Len(applied[r])..h :
       /\ held' = [held EXCEPT ![r] = Upto(h)]
       /\ applied' = [applied EXCEPT ![r] = Upto(a)]
       /\ \E Q \in Quorums : \A q \in Q \ lost : Len(held'[q]) >= a
  /\ UNCHANGED <<order, lost>>

Lose(r) ==
  /\ held' = [held EXCEPT ![r] = <<>>]
  /\ applied' = [applied EXCEPT ![r] = <<>>]
  /\ lost' = lost \cup {r}
  /\ UNCHANGED order

Next ==
  \E r \in Replicas : Advance(r) \/ Lose(r) \/ \E c \in Commands : Propose(r, c)

Spec == Init /\ [][Next]_vars

=============================================================================
