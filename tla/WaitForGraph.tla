--------------------------- MODULE WaitForGraph ---------------------------
(***************************************************************************)
(* Wait-for graphs: what a deadlock is.  A graph is given by its successor *)
(* sets, as `waits' is in src/src/nodes/lock_manager.py: a client is mapped *)
(* to the clients it waits for.                                            *)
(***************************************************************************)
CONSTANT Clients  \* the client_id values that appear in requests

Graphs == [Clients -> SUBSET Clients]

\* S sustains a cycle: somebody is in S, and everybody in S waits for somebody in S.
Knot(e, S) == S # {} /\ \A c \in S : e[c] \cap S # {}

\* A finite graph has a cycle exactly if some set of its nodes is a knot.
Cyclic(e) == \E S \in SUBSET Clients : Knot(e, S)

=============================================================================
