--------------------------- MODULE DeadlockProbe ---------------------------
(***************************************************************************)
(* The depth-first search of op = "deadlock_probe" in LockTable.apply      *)
(* (src/src/nodes/lock_manager.py).  The Python code is a recursive        *)
(* function dfs(u); here its call stack is explicit and one action is one  *)
(* iteration of a `for' loop, one call or one return.  The iteration order *)
(* of a Python set is arbitrary, hence the choice of the next successor.   *)
(* The graph does not change during a probe: apply never awaits.           *)
(***************************************************************************)
EXTENDS Integers, Sequences, FiniteSets, WaitForGraph

\* They are the keys of a dict.
ASSUME ClientsAssumption == IsFiniteSet(Clients)

VARIABLES waits,    \* the wait-for graph, constant during the search
          roots,    \* clients the generator expression has not tried yet
          visited,  \* the set `visited'
          path,     \* the calls of dfs in progress, outermost first: `stack'
          left,     \* for each call in progress, the successors not seen yet
          answer    \* "none" while searching, then "deadlock" or "free"

vars == <<waits, roots, visited, path, left, answer>>

OnStack(v) == \E i \in 1..Len(path) : path[i] = v

Top == path[Len(path)]

Init ==
  /\ waits \in Graphs
  /\ roots = {c \in Clients : waits[c] # {}}
  /\ visited = {}
  /\ path = <<>>
  /\ left = [c \in Clients |-> {}]
  /\ answer = "none"

\* dfs(u) is called: visited.add(u); stack.add(u).
Call(u) ==
  /\ visited' = visited \cup {u}
  /\ path' = Append(path, u)
  /\ left' = [left EXCEPT ![u] = waits[u]]

\* Mutated form of Fresh: only the stack is looked at.
FreshOnStack(v) == ~OnStack(v)

\* `if v not in visited'
Fresh(v) == v \notin visited

\* any(dfs(u) for u in list(self.waits.keys()) if u not in visited): the next root.
Root ==
  /\ answer = "none" /\ path = <<>>
  /\ \E u \in roots :
       /\ roots' = roots \ {u}
       /\ \/ Fresh(u) /\ Call(u)
          \/ ~Fresh(u) /\ UNCHANGED <<visited, path, left>>
  /\ UNCHANGED <<waits, answer>>

\* Mutated form of Closes: a node seen on an earlier branch closes a cycle too.
ClosesIfVisited(v) == v \in visited

\* Mutated form of Closes: only an edge to the node itself is seen as a cycle.
ClosesIfSelf(v) == v = Top

\* `if v in stack: return True', reached when v was visited before.
Closes(v) == v \in visited /\ OnStack(v)

\* One iteration of `for v in self.waits.get(u)'.
Successor ==
  /\ answer = "none" /\ path # <<>>
  /\ \E v \in left[Top] :
       IF Fresh(v)
       THEN /\ visited' = visited \cup {v}
            /\ path' = Append(path, v)
            /\ left' = [left EXCEPT ![Top] = @ \ {v}, ![v] = waits[v]]
            /\ UNCHANGED answer
       ELSE /\ left' = [left EXCEPT ![Top] = @ \ {v}]
            /\ answer' = IF Closes(v) THEN "deadlock" ELSE "none"
            /\ UNCHANGED <<visited, path>>
  /\ UNCHANGED <<waits, roots>>

\* Mutated form of Popped: `stack = stack.remove(u)', which is None in Python.
PoppedIsNone == <<"None">>

Popped == SubSeq(path, 1, Len(path) - 1)

\* stack.remove(u); return False.
Return ==
  /\ answer = "none" /\ path # <<>> /\ left[Top] = {}
  /\ path' = Popped
  /\ UNCHANGED <<waits, roots, visited, left, answer>>

\* any() is False.
Exhausted ==
  /\ answer = "none" /\ path = <<>> /\ roots = {}
  /\ answer' = "free"
  /\ UNCHANGED <<waits, roots, visited, path, left>>

Next == Root \/ Successor \/ Return \/ Exhausted
Spec == Init /\ [][Next]_vars

-----------------------------------------------------------------------------
TypeOK ==
  /\ waits \in Graphs
  /\ roots \in SUBSET Clients
  /\ visited \in SUBSET Clients
  /\ path \in Seq(Clients)
  /\ left \in Graphs
  /\ answer \in {"none", "deadlock", "free"}

\* No false alarm: a probe that answers True has found a cycle in the graph, in
\* whatever order Python iterates over the sets (lock_manager.py:116-121, the
\* test `v in stack' against `v not in visited').
AlarmIsCycle == answer = "deadlock" => Cyclic(waits)

\* No cycle is missed: a probe that answers False has searched a graph without
\* one, although it never visits a client twice and shares `visited' between
\* its roots (lock_manager.py:113, 125).
SilenceIsAcyclic == answer = "free" => ~Cyclic(waits)

\* What the search has still to do: the edges it has not followed, the clients it
\* has not visited, the roots it has not tried, the calls that have not returned.
Unfollowed == {e \in Clients \X Clients :
                 e[2] \in waits[e[1]] /\ (e[1] \in visited => e[2] \in left[e[1]])}
ToDo == Cardinality(Unfollowed) + Cardinality(Clients \ visited) + Cardinality(roots)
          + Len(path) + IF answer = "none" THEN 1 ELSE 0

\* Every probe ends, and is linear in the graph: no edge is followed and no client
\* is visited twice, whatever roots and branches share (lock_manager.py:113-125).
SearchIsLinear == [][ToDo' \in 0..(ToDo - 1)]_vars

=============================================================================
