-------------------------------- MODULE Locks --------------------------------
(***************************************************************************)
(* What a lock table promises its clients, whatever it is built of: shared *)
(* and exclusive grants, one line of requests per resource in which nobody *)
(* waits without a reason, and tokens numbered in the order of the grants, *)
(* so that replicas which are told the same agree.  LockTable implements   *)
(* it, without knowing what a grant's mode was or when it was given.       *)
(***************************************************************************)
EXTENDS Integers, Sequences

CONSTANTS Clients, Resources, Modes

VARIABLES grants,   \* of each resource: who has it, in which mode, by which token
          line,     \* of each resource: the requests that wait, in order
          last      \* the last token given out

vars == <<grants, line, last>>

Init ==
  /\ grants = [r \in Resources |-> {}]
  /\ line = [r \in Resources |-> <<>>]
  /\ last = 0

Fit(a, b) == a.mode = "shared" /\ b.mode = "shared"

\* req could have the resource together with G.
FitsWith(req, G) == \A g \in G : Fit(req, g)

GrantOf(req, tok) == [client |-> req.client, mode |-> req.mode, token |-> tok]

Grant(r, req) ==
  /\ FitsWith(req, grants[r])
  /\ grants' = [grants EXCEPT ![r] = @ \cup {GrantOf(req, last + 1)}]
  /\ last' = last + 1
  /\ UNCHANGED line

Wait(r, req) ==
  /\ ~FitsWith(req, grants[r])
  /\ line' = [line EXCEPT ![r] = Append(@, req)]
  /\ UNCHANGED <<grants, last>>

\* One grant ends, and nobody waits or somebody still has the resource.
Release(r, g) ==
  /\ line[r] = <<>> \/ grants[r] # {g}
  /\ grants' = [grants EXCEPT ![r] = @ \ {g}]
  /\ UNCHANGED <<line, last>>

\* The last grant ends: the first k in line fit together and get the resource,
\* and the one behind them does not fit with them.
HandOver(r, g, k) ==
  LET q == line[r] IN
  /\ grants[r] = {g}
  /\ \A i, j \in 1..k : i # j => Fit(q[i], q[j])
  /\ k < Len(q) => \E i \in 1..k : ~Fit(q[k + 1], q[i])
  /\ grants' = [grants EXCEPT ![r] = {GrantOf(q[i], last + i) : i \in 1..k}]
  /\ line' = [line EXCEPT ![r] = SubSeq(q, k + 1, Len(q))]
  /\ last' = last + k

Next ==
  \E r \in Resources :
    \/ \E c \in Clients, m \in Modes :
         LET req == [client |-> c, mode |-> m] IN Grant(r, req) \/ Wait(r, req)
    \/ \E g \in grants[r] :
         Release(r, g) \/ \E k \in 1..Len(line[r]) : HandOver(r, g, k)

Spec == Init /\ [][Next]_vars

=============================================================================
