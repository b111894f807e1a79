------------------------ MODULE DeadlockProbeProofs ------------------------
(***************************************************************************)
(* The depth-first search of DeadlockProbe is right on every graph: for    *)
(* any set of clients, a probe answers True only if the graph has a cycle, *)
(* and False only if it has none.                                          *)
(*                                                                         *)
(* The argument: the finished clients (visited, not on the stack) are      *)
(* closed under waiting and hold no cycle; a client is finished when all   *)
(* its successors are.  The stack is a path of the graph, so a successor   *)
(* found on it closes a cycle.  Every step takes an edge, a client, a root *)
(* or a call off what there is still to do.                                *)
(***************************************************************************)
EXTENDS DeadlockProbe, FiniteSetTheorems, SequenceTheorems, TLAPS

Finished == {v \in visited : ~OnStack(v)}

StackIsPath ==
  /\ \A i \in 1..Len(path) : path[i] \in visited
  /\ \A i, j \in 1..Len(path) : path[i] = path[j] => i = j
  /\ \A i \in 1..(Len(path) - 1) : path[i + 1] \in waits[path[i]]

\* Finished clients wait for finished clients only, and none of them is in a cycle.
FinishedIsClosed == \A v \in Finished : waits[v] \subseteq Finished
FinishedIsAcyclic == \A S \in SUBSET Finished : ~Knot(waits, S)

\* The successors a call has dealt with are finished, but for the one it is in.
SeenIsFinished ==
  answer = "none" =>
    \A i \in 1..Len(path) : \A v \in waits[path[i]] :
      v \in left[path[i]] \/ v \in Finished \/ (i < Len(path) /\ v = path[i + 1])

LeftIsWaited == \A c \in Clients : left[c] \subseteq waits[c]

\* Every client that waits for anybody is a root to be tried, or visited.
RootsCover == \A c \in Clients : waits[c] # {} => c \in roots \/ c \in visited

ProbeInv ==
  /\ TypeOK
  /\ StackIsPath /\ FinishedIsClosed /\ FinishedIsAcyclic
  /\ SeenIsFinished /\ LeftIsWaited /\ RootsCover
  /\ AlarmIsCycle /\ SilenceIsAcyclic

-----------------------------------------------------------------------------
\* What a call does to the stack and to the finished clients: nobody is finished
\* by it, and nobody ceases to be.
LEMMA CallFacts ==
  ASSUME TypeOK, StackIsPath, NEW u \in Clients, u \notin visited,
         visited' = visited \cup {u}, path' = Append(path, u)
  PROVE  /\ Len(path') = Len(path) + 1 /\ path' \in Seq(Clients)
         /\ path'[Len(path) + 1] = u
         /\ \A i \in 1..Len(path) : path'[i] = path[i]
         /\ Finished' = Finished
<1>1. /\ Len(path') = Len(path) + 1 /\ path' \in Seq(Clients)
      /\ path'[Len(path) + 1] = u
      /\ \A i \in 1..Len(path) : path'[i] = path[i]
      /\ Len(path) \in Nat
  BY DEF TypeOK
<1>2. \A v : OnStack(v)' <=> OnStack(v) \/ v = u
  <2>1. ASSUME NEW v, OnStack(v)' PROVE OnStack(v) \/ v = u
    <3>1. PICK i \in 1..(Len(path) + 1) : path'[i] = v
      BY <2>1, <1>1 DEF OnStack
    <3>2. CASE i = Len(path) + 1
      BY <3>1, <3>2, <1>1
    <3>3. CASE i \in 1..Len(path)
      BY <3>1, <3>3, <1>1 DEF OnStack
    <3> QED BY <3>2, <3>3, <1>1
  <2>2. ASSUME NEW v, OnStack(v) \/ v = u PROVE OnStack(v)'
    <3>1. CASE OnStack(v)
      <4>1. PICK i \in 1..Len(path) : path[i] = v
        BY <3>1 DEF OnStack
      <4>2. i \in 1..Len(path') /\ path'[i] = v
        BY <4>1, <1>1
      <4> QED BY <4>2 DEF OnStack
    <3>2. CASE v = u
      <4>1. Len(path') \in 1..Len(path') /\ path'[Len(path')] = v
        BY <3>2, <1>1
      <4> QED BY <4>1 DEF OnStack
    <3> QED BY <3>1, <3>2, <2>2
  <2> QED BY <2>1, <2>2
<1>3. ~OnStack(u)
  BY DEF OnStack, StackIsPath
<1>4. Finished' = Finished
  BY <1>2, <1>3 DEF Finished
<1> QED BY <1>1, <1>4

LEMMA ProbeInit == Init => ProbeInv
<1> SUFFICES ASSUME Init PROVE ProbeInv
  OBVIOUS
<1>1. TypeOK
  BY DEF Init, TypeOK, Graphs
<1>2. StackIsPath /\ SeenIsFinished /\ LeftIsWaited /\ RootsCover
        /\ AlarmIsCycle /\ SilenceIsAcyclic
  BY DEF Init, StackIsPath, SeenIsFinished, LeftIsWaited, RootsCover, AlarmIsCycle, SilenceIsAcyclic
<1>3. Finished = {}
  BY DEF Init, Finished
<1>4. FinishedIsClosed /\ FinishedIsAcyclic
  BY <1>3 DEF FinishedIsClosed, FinishedIsAcyclic, Knot
<1> QED BY <1>1, <1>2, <1>4 DEF ProbeInv

-----------------------------------------------------------------------------
\* The step that calls dfs(u), from the generator expression or from a loop over
\* the successors of the client on top of the stack.
LEMMA CallKeepsInv ==
  ASSUME ProbeInv, answer = "none", answer' = answer, waits' = waits,
         NEW u \in Clients, u \notin visited,
         path # <<>> => u \in waits[Top],
         visited' = visited \cup {u}, path' = Append(path, u),
         roots' \in SUBSET Clients, \A c \in roots : c \in roots' \/ c = u,
         left' \in Graphs, left'[u] = waits[u],
         \A c \in Clients : left'[c] \subseteq waits[c],
         \A c \in Clients \ {u} : \A v \in left[c] :
           v \in left'[c] \/ (v = u /\ path # <<>> /\ c = Top)
  PROVE  ProbeInv'
<1>1. /\ Len(path') = Len(path) + 1 /\ path' \in Seq(Clients)
      /\ path'[Len(path) + 1] = u
      /\ \A i \in 1..Len(path) : path'[i] = path[i]
      /\ Finished' = Finished
  BY CallFacts DEF ProbeInv
<1>2. Len(path) \in Nat /\ \A i \in 1..Len(path) : path[i] \in Clients
  BY DEF ProbeInv, TypeOK
<1>3. TypeOK'
  BY <1>1 DEF ProbeInv, TypeOK
<1>4. StackIsPath'
  <2>1. \A i \in 1..Len(path') : path'[i] \in visited'
    BY <1>1, <1>2 DEF ProbeInv, StackIsPath
  <2>2. \A i, j \in 1..Len(path') : path'[i] = path'[j] => i = j
    BY <1>1, <1>2 DEF ProbeInv, StackIsPath
  <2>3. \A i \in 1..(Len(path') - 1) : path'[i + 1] \in waits'[path'[i]]
    <3> SUFFICES ASSUME NEW i \in 1..Len(path)
                 PROVE path'[i + 1] \in waits[path[i]]
      BY <1>1, <1>2
    <3>1. CASE i = Len(path)
      <4>1. path # <<>>
        BY <3>1, <1>2
      <4> QED BY <4>1, <3>1, <1>1 DEF Top
    <3>2. CASE i < Len(path)
      BY <3>2, <1>1, <1>2 DEF ProbeInv, StackIsPath
    <3> QED BY <3>1, <3>2, <1>2
  <2> QED BY <2>1, <2>2, <2>3 DEF StackIsPath
<1>5. FinishedIsClosed' /\ FinishedIsAcyclic'
  BY <1>1 DEF ProbeInv, FinishedIsClosed, FinishedIsAcyclic, Knot
<1>6. SeenIsFinished'
  <2> SUFFICES ASSUME NEW i \in 1..Len(path'), NEW v \in waits[path'[i]]
               PROVE  \/ v \in left'[path'[i]] \/ v \in Finished
                      \/ i < Len(path') /\ v = path'[i + 1]
    BY <1>1 DEF SeenIsFinished
  <2>1. CASE i = Len(path) + 1
    BY <2>1, <1>1
  <2>2. CASE i \in 1..Len(path)
    <3>1. path'[i] = path[i] /\ path[i] \in Clients /\ path[i] # u
      BY <2>2, <1>1, <1>2 DEF ProbeInv, StackIsPath
    <3>2. CASE v \in left[path[i]]
      <4>1. CASE v \in left'[path[i]]
        BY <4>1, <3>1
      <4>2. CASE v = u /\ path # <<>> /\ path[i] = Top
        <5>1. i = Len(path)
          BY <4>2, <2>2, <1>2 DEF Top, ProbeInv, StackIsPath
        <5> QED BY <5>1, <4>2, <1>1, <1>2
      <4> QED BY <4>1, <4>2, <3>1, <3>2
    <3>3. CASE v \in Finished
      BY <3>3
    <3>4. CASE i < Len(path) /\ v = path[i + 1]
      BY <3>4, <1>1, <1>2, <2>2
    <3> QED BY <3>1, <3>2, <3>3, <3>4, <2>2 DEF ProbeInv, SeenIsFinished
  <2> QED BY <2>1, <2>2, <1>1, <1>2
<1>7. LeftIsWaited' /\ RootsCover' /\ AlarmIsCycle' /\ SilenceIsAcyclic'
  BY DEF ProbeInv, LeftIsWaited, RootsCover, AlarmIsCycle, SilenceIsAcyclic
<1> QED BY <1>3, <1>4, <1>5, <1>6, <1>7 DEF ProbeInv

-----------------------------------------------------------------------------
\* A call returns False: its client is finished, and no cycle goes through it,
\* because the others on such a cycle would be finished clients in a cycle.
LEMMA ReturnKeepsInv == ProbeInv /\ Return => ProbeInv'
<1> SUFFICES ASSUME ProbeInv, Return PROVE ProbeInv'
  OBVIOUS
<1> DEFINE n == Len(path)
<1>1. /\ n \in Nat /\ n # 0
      /\ Top = path[n] /\ Top \in Clients /\ Top \in visited
      /\ \A i \in 1..n : path[i] \in Clients
  BY DEF ProbeInv, TypeOK, Return, Top, StackIsPath
<1>2. /\ Len(path') = n - 1 /\ path' \in Seq(Clients)
      /\ \A i \in 1..(n - 1) : path'[i] = path[i]
  <2>1. path \in Seq(Clients) /\ path' = SubSeq(path, 1, n - 1) /\ n - 1 \in Nat
    BY <1>1 DEF ProbeInv, TypeOK, Return, Popped
  <2>2. \A i \in 1..(n - 1) : path[i] \in Clients
    BY <1>1
  <2> HIDE DEF n
  <2>3. /\ SubSeq(path, 1, n - 1) \in Seq(Clients)
        /\ Len(SubSeq(path, 1, n - 1)) =
             IF 1 <= n - 1 THEN (n - 1) - 1 + 1 ELSE 0
        /\ \A i \in 1..((n - 1) - 1 + 1) :
             SubSeq(path, 1, n - 1)[i] = path[1 + i - 1]
    BY <2>1, <2>2, SubSeqProperties, Z3
  <2> QED BY <1>1, <2>1, <2>3
<1>3. \A v : OnStack(v)' <=> OnStack(v) /\ v # Top
  <2>1. ASSUME NEW v, OnStack(v)' PROVE OnStack(v) /\ v # Top
    <3>1. PICK i \in 1..(n - 1) : path[i] = v
      BY <2>1, <1>2 DEF OnStack
    <3> QED BY <3>1, <1>1 DEF OnStack, ProbeInv, StackIsPath
  <2>2. ASSUME NEW v, OnStack(v), v # Top PROVE OnStack(v)'
    <3>1. PICK i \in 1..n : path[i] = v
      BY <2>2 DEF OnStack
    <3>2. i \in 1..Len(path') /\ path'[i] = v
      BY <3>1, <2>2, <1>1, <1>2
    <3> QED BY <3>2 DEF OnStack
  <2> QED BY <2>1, <2>2
<1>4. Finished' = Finished \cup {Top}
  BY <1>1, <1>3 DEF Finished, Return
<1>5. waits[Top] \subseteq Finished
  <2> SUFFICES ASSUME NEW v \in waits[Top] PROVE v \in Finished
    OBVIOUS
  <2>1. left[Top] = {} /\ answer = "none"
    BY DEF Return
  <2> QED BY <2>1, <1>1 DEF ProbeInv, SeenIsFinished
<1>6. Top \notin Finished
  BY <1>1 DEF Finished, OnStack
<1>7. TypeOK'
  BY <1>2 DEF ProbeInv, TypeOK, Return
<1>8. StackIsPath'
  BY <1>1, <1>2 DEF ProbeInv, StackIsPath, Return
<1>9. FinishedIsClosed'
  BY <1>4, <1>5 DEF ProbeInv, FinishedIsClosed, Return
<1>10. FinishedIsAcyclic'
  <2> SUFFICES ASSUME NEW S \in SUBSET (Finished \cup {Top}), Knot(waits, S)
               PROVE FALSE
    BY <1>4 DEF FinishedIsAcyclic, Return, Knot
  <2> DEFINE T == S \ {Top}
  <2>1. \A c \in S : waits[c] \cap T # {}
    <3> SUFFICES ASSUME NEW c \in S PROVE waits[c] \cap T # {}
      OBVIOUS
    <3>1. PICK v \in waits[c] : v \in S
      BY DEF Knot
    <3>2. waits[c] \subseteq Finished
      BY <1>5 DEF ProbeInv, FinishedIsClosed
    <3> QED BY <3>1, <3>2, <1>6
  <2>2. T # {} /\ T \in SUBSET Finished
    BY <2>1 DEF Knot
  <2>3. Knot(waits, T)
    BY <2>1, <2>2 DEF Knot
  <2> QED BY <2>2, <2>3 DEF ProbeInv, FinishedIsAcyclic
<1>11. SeenIsFinished'
  <2> SUFFICES ASSUME NEW i \in 1..(n - 1), NEW v \in waits[path[i]]
               PROVE  \/ v \in left[path[i]] \/ v \in Finished'
                      \/ i < n - 1 /\ v = path'[i + 1]
    BY <1>2 DEF SeenIsFinished, Return
  <2>1. answer = "none" /\ i \in 1..n
    BY <1>1 DEF Return
  <2>2. v \in left[path[i]] \/ v \in Finished \/ (i < n /\ v = path[i + 1])
    BY <2>1 DEF ProbeInv, SeenIsFinished
  <2>3. CASE i = n - 1
    BY <2>2, <2>3, <1>1, <1>4
  <2>4. CASE i < n - 1
    BY <2>2, <2>4, <1>1, <1>2, <1>4
  <2> QED BY <2>3, <2>4, <1>1
<1>12. LeftIsWaited' /\ RootsCover' /\ AlarmIsCycle' /\ SilenceIsAcyclic'
  BY DEF ProbeInv, LeftIsWaited, RootsCover, AlarmIsCycle, SilenceIsAcyclic, Return
<1> QED BY <1>7, <1>8, <1>9, <1>10, <1>11, <1>12 DEF ProbeInv

\* A successor on the stack: the stack from there up is a cycle.
LEMMA ClosesIsCycle ==
  ASSUME ProbeInv, path # <<>>, NEW v \in left[Top], Closes(v)
  PROVE  Cyclic(waits)
<1>1. PICK j \in 1..Len(path) : path[j] = v
  BY DEF Closes, OnStack
<1> DEFINE S == {path[i] : i \in j..Len(path)}
<1>2. Len(path) \in Nat /\ \A i \in 1..Len(path) : path[i] \in Clients
  BY DEF ProbeInv, TypeOK
<1>3. S \in SUBSET Clients /\ v \in S
  BY <1>1, <1>2
<1>4. \A c \in S : waits[c] \cap S # {}
  <2> SUFFICES ASSUME NEW i \in j..Len(path) PROVE waits[path[i]] \cap S # {}
    OBVIOUS
  <2>1. CASE i = Len(path)
    <3>1. v \in waits[path[i]]
      BY <2>1, <1>1, <1>2 DEF Top, ProbeInv, LeftIsWaited
    <3> QED BY <3>1, <1>3
  <2>2. CASE i < Len(path)
    <3>1. path[i + 1] \in waits[path[i]]
      BY <2>2, <1>1, <1>2 DEF ProbeInv, StackIsPath
    <3>2. i + 1 \in j..Len(path)
      BY <2>2, <1>1, <1>2
    <3> QED BY <3>1, <3>2
  <2> QED BY <2>1, <2>2, <1>2
<1>5. S # {} /\ Knot(waits, S)
  BY <1>3, <1>4 DEF Knot
<1> QED BY <1>3, <1>5 DEF Cyclic

LEMMA SuccessorKeepsInv == ProbeInv /\ Successor => ProbeInv'
<1> SUFFICES ASSUME ProbeInv, Successor PROVE ProbeInv'
  OBVIOUS
<1>1. /\ Top \in Clients /\ Top \in visited /\ Len(path) \in Nat
      /\ \A i \in 1..Len(path) : path[i] \in Clients
  BY DEF ProbeInv, TypeOK, Successor, Top, StackIsPath
<1>2. PICK v \in left[Top] :
        IF v \notin visited
        THEN /\ visited' = visited \cup {v}
             /\ path' = Append(path, v)
             /\ left' = [left EXCEPT ![Top] = @ \ {v}, ![v] = waits[v]]
             /\ UNCHANGED answer
        ELSE /\ left' = [left EXCEPT ![Top] = @ \ {v}]
             /\ answer' = IF Closes(v) THEN "deadlock" ELSE "none"
             /\ UNCHANGED <<visited, path>>
  BY DEF Successor, Fresh
<1>3. v \in waits[Top] /\ v \in Clients /\ left \in Graphs /\ waits \in Graphs
  BY <1>1, <1>2 DEF ProbeInv, TypeOK, Graphs, LeftIsWaited
<1>4. CASE v \notin visited
  <2>1. v # Top
    BY <1>1, <1>4
  <2>2. left' \in Graphs /\ left'[v] = waits[v]
    BY <1>2, <1>3, <1>4, <1>1, <2>1 DEF Graphs
  <2>3. \A c \in Clients : left'[c] \subseteq waits[c]
    BY <1>2, <1>3, <1>4, <1>1, <2>1 DEF Graphs, ProbeInv, LeftIsWaited
  <2>4. \A c \in Clients \ {v} : \A x \in left[c] :
          x \in left'[c] \/ (x = v /\ path # <<>> /\ c = Top)
    BY <1>2, <1>3, <1>4, <1>1 DEF Graphs, Successor
  <2>5. answer = "none" /\ answer' = answer /\ waits' = waits /\ roots' = roots
    BY <1>2, <1>4 DEF Successor
  <2>6. roots' \in SUBSET Clients /\ \A c \in roots : c \in roots' \/ c = v
    BY <2>5 DEF ProbeInv, TypeOK
  <2>7. visited' = visited \cup {v} /\ path' = Append(path, v)
    BY <1>2, <1>4
  <2> QED BY <1>3, <1>4, <2>2, <2>3, <2>4, <2>5, <2>6, <2>7, CallKeepsInv
<1>5. CASE v \in visited
  <2>1. /\ left' = [left EXCEPT ![Top] = @ \ {v}] /\ left' \in Graphs
        /\ \A c \in Clients : left'[c] = IF c = Top THEN left[c] \ {v} ELSE left[c]
        /\ answer' = IF Closes(v) THEN "deadlock" ELSE "none"
        /\ UNCHANGED <<visited, path, waits, roots>> /\ answer = "none" /\ path # <<>>
    BY <1>2, <1>3, <1>5 DEF Successor, Graphs
  <2>2. TypeOK' /\ StackIsPath' /\ RootsCover'
    BY <2>1 DEF ProbeInv, TypeOK, StackIsPath, RootsCover
  <2>3. Finished' = Finished
    BY <2>1 DEF Finished, OnStack
  <2>4. FinishedIsClosed' /\ FinishedIsAcyclic'
    BY <2>1, <2>3 DEF ProbeInv, FinishedIsClosed, FinishedIsAcyclic, Knot
  <2>5. LeftIsWaited'
    BY <2>1 DEF ProbeInv, LeftIsWaited
  <2>6. SeenIsFinished'
    <3> SUFFICES ASSUME answer' = "none",
                        NEW i \in 1..Len(path), NEW x \in waits[path[i]]
                 PROVE  \/ x \in left'[path[i]] \/ x \in Finished
                        \/ i < Len(path) /\ x = path[i + 1]
      BY <2>1, <2>3 DEF SeenIsFinished
    <3>1. ~OnStack(v)
      BY <2>1, <1>5 DEF Closes
    <3>2. v \in Finished
      BY <3>1, <1>5 DEF Finished
    <3> QED BY <3>2, <2>1, <1>1 DEF ProbeInv, SeenIsFinished
  <2>7. AlarmIsCycle'
    <3>1. CASE Closes(v)
      BY <3>1, <2>1, ClosesIsCycle DEF AlarmIsCycle
    <3>2. CASE ~Closes(v)
      BY <3>2, <2>1 DEF AlarmIsCycle
    <3> QED BY <3>1, <3>2
  <2>8. SilenceIsAcyclic'
    BY <2>1 DEF SilenceIsAcyclic
  <2> QED BY <2>2, <2>4, <2>5, <2>6, <2>7, <2>8 DEF ProbeInv
<1> QED BY <1>4, <1>5

LEMMA RootKeepsInv == ProbeInv /\ Root => ProbeInv'
<1> SUFFICES ASSUME ProbeInv, Root PROVE ProbeInv'
  OBVIOUS
<1>1. PICK u \in roots : /\ roots' = roots \ {u}
                         /\ \/ u \notin visited /\ Call(u)
                            \/ u \in visited /\ UNCHANGED <<visited, path, left>>
  BY DEF Root, Fresh
<1>2. /\ answer = "none" /\ answer' = answer /\ waits' = waits /\ path = <<>>
      /\ u \in Clients /\ roots' \in SUBSET Clients
      /\ \A c \in roots : c \in roots' \/ c = u
  BY <1>1 DEF Root, ProbeInv, TypeOK
<1>3. CASE u \notin visited /\ Call(u)
  <2>1. left \in Graphs /\ waits \in Graphs
    BY DEF ProbeInv, TypeOK
  <2>2. left' \in Graphs /\ left'[u] = waits[u]
    BY <1>2, <1>3, <2>1 DEF Call, Graphs
  <2>3. \A c \in Clients : left'[c] \subseteq waits[c]
    BY <1>2, <1>3, <2>1 DEF Call, Graphs, ProbeInv, LeftIsWaited
  <2>4. \A c \in Clients \ {u} : left'[c] = left[c]
    BY <1>2, <1>3, <2>1 DEF Call, Graphs
  <2>5. visited' = visited \cup {u} /\ path' = Append(path, u)
    BY <1>3 DEF Call
  <2> QED BY <1>2, <1>3, <2>2, <2>3, <2>4, <2>5, CallKeepsInv
<1>4. CASE u \in visited /\ UNCHANGED <<visited, path, left>>
  <2>1. Finished' = Finished
    BY <1>4 DEF Finished, OnStack
  <2>2. TypeOK' /\ StackIsPath' /\ LeftIsWaited'
    BY <1>2, <1>4 DEF ProbeInv, TypeOK, StackIsPath, LeftIsWaited
  <2>3. FinishedIsClosed' /\ FinishedIsAcyclic'
    BY <1>2, <2>1 DEF ProbeInv, FinishedIsClosed, FinishedIsAcyclic, Knot
  <2>4. SeenIsFinished'
    BY <1>2, <1>4, <2>1 DEF ProbeInv, SeenIsFinished
  <2>5. RootsCover' /\ AlarmIsCycle' /\ SilenceIsAcyclic'
    BY <1>2, <1>4 DEF ProbeInv, RootsCover, AlarmIsCycle, SilenceIsAcyclic
  <2> QED BY <2>2, <2>3, <2>4, <2>5 DEF ProbeInv
<1> QED BY <1>1, <1>3, <1>4

\* Nothing is left to try: whoever is in a cycle would be finished.
LEMMA ExhaustedKeepsInv == ProbeInv /\ Exhausted => ProbeInv'
<1> SUFFICES ASSUME ProbeInv, Exhausted PROVE ProbeInv'
  OBVIOUS
<1>1. UNCHANGED <<waits, roots, visited, path, left>> /\ answer' = "free"
  BY DEF Exhausted
<1>2. Finished' = Finished /\ Finished = visited
  BY <1>1 DEF Finished, OnStack, Exhausted
<1>3. ~Cyclic(waits)
  <2> SUFFICES ASSUME NEW S \in SUBSET Clients, Knot(waits, S) PROVE FALSE
    BY DEF Cyclic
  <2>1. S \in SUBSET Finished
    BY <1>2 DEF Knot, ProbeInv, RootsCover, Exhausted
  <2> QED BY <2>1 DEF ProbeInv, FinishedIsAcyclic
<1>4. TypeOK' /\ StackIsPath' /\ LeftIsWaited' /\ RootsCover'
  BY <1>1 DEF ProbeInv, TypeOK, StackIsPath, LeftIsWaited, RootsCover
<1>5. FinishedIsClosed' /\ FinishedIsAcyclic'
  BY <1>1, <1>2 DEF ProbeInv, FinishedIsClosed, FinishedIsAcyclic, Knot
<1>6. SeenIsFinished' /\ AlarmIsCycle' /\ SilenceIsAcyclic'
  BY <1>1, <1>3 DEF SeenIsFinished, AlarmIsCycle, SilenceIsAcyclic
<1> QED BY <1>4, <1>5, <1>6 DEF ProbeInv

LEMMA ProbeStutter == ProbeInv /\ UNCHANGED vars => ProbeInv'
<1> SUFFICES ASSUME ProbeInv, UNCHANGED vars PROVE ProbeInv'
  OBVIOUS
<1>1. UNCHANGED <<waits, roots, visited, path, left, answer>>
  BY DEF vars
<1>2. Finished' = Finished
  BY <1>1 DEF Finished, OnStack
<1> QED BY <1>1, <1>2 DEF ProbeInv, TypeOK, StackIsPath, FinishedIsClosed,
     FinishedIsAcyclic, Knot, SeenIsFinished, LeftIsWaited, RootsCover,
     AlarmIsCycle, SilenceIsAcyclic

-----------------------------------------------------------------------------
\* The search of lock_manager.py:111-125 keeps the invariant above, for any
\* number of clients and any order in which Python iterates over the sets.
THEOREM ProbeInvariant == Spec => []ProbeInv
<1>1. ProbeInv /\ [Next]_vars => ProbeInv'
  BY RootKeepsInv, SuccessorKeepsInv, ReturnKeepsInv, ExhaustedKeepsInv, ProbeStutter
     DEF Next
<1> QED BY ProbeInit, <1>1, PTL DEF Spec

\* The variables of the search keep their types.
THEOREM ProbeTypeOK == Spec => []TypeOK
<1>1. ProbeInv => TypeOK
  BY DEF ProbeInv
<1> QED BY <1>1, ProbeInvariant, PTL

\* deadlock_probe answers True only on a graph with a cycle.
THEOREM ProbeIsSound == Spec => []AlarmIsCycle
<1>1. ProbeInv => AlarmIsCycle
  BY DEF ProbeInv
<1> QED BY <1>1, ProbeInvariant, PTL

\* deadlock_probe answers False only on a graph without a cycle.
THEOREM ProbeIsComplete == Spec => []SilenceIsAcyclic
<1>1. ProbeInv => SilenceIsAcyclic
  BY DEF ProbeInv
<1> QED BY <1>1, ProbeInvariant, PTL

-----------------------------------------------------------------------------
(* What there is still to do *)

LEMMA CountsAreNumbers ==
  ASSUME TypeOK
  PROVE  /\ IsFiniteSet(Unfollowed) /\ Cardinality(Unfollowed) \in Nat
         /\ IsFiniteSet(Clients \ visited) /\ Cardinality(Clients \ visited) \in Nat
         /\ IsFiniteSet(roots) /\ Cardinality(roots) \in Nat
         /\ Len(path) \in Nat
<1>1. IsFiniteSet(Clients \X Clients)
  BY ClientsAssumption, FS_Product
<1>2. Unfollowed \in SUBSET (Clients \X Clients)
  BY DEF Unfollowed
<1>3. IsFiniteSet(Unfollowed) /\ IsFiniteSet(Clients \ visited) /\ IsFiniteSet(roots)
  BY <1>1, <1>2, ClientsAssumption, FS_Subset DEF TypeOK
<1> QED BY <1>3, FS_CardinalityType DEF TypeOK

\* A client that is visited gets all its edges to follow, and only those of X are
\* followed: the others stay as they are.
LEMMA OnlyFollowed ==
  ASSUME TypeOK, waits' = waits, visited' \in SUBSET Clients, visited \subseteq visited',
         \A c \in visited' \ visited : left'[c] = waits[c],
         NEW X \in SUBSET (Clients \X Clients), \A e \in X : e[1] \in visited,
         \A c \in visited : left'[c] = {v \in left[c] : <<c, v>> \notin X}
  PROVE  Unfollowed' = Unfollowed \ X
<1>1. ASSUME NEW e \in Clients \X Clients
      PROVE  e \in Unfollowed' <=> e \in Unfollowed \ X
  <2>1. e = <<e[1], e[2]>> /\ e[1] \in Clients /\ e[2] \in Clients
    OBVIOUS
  <2>2. CASE e[1] \in visited
    <3>1. e[2] \in left'[e[1]] <=> e[2] \in left[e[1]] /\ e \notin X
      BY <2>1, <2>2
    <3> QED BY <2>2, <3>1 DEF Unfollowed
  <2>3. CASE e[1] \in visited' \ visited
    BY <2>3 DEF Unfollowed
  <2>4. CASE e[1] \notin visited'
    BY <2>4 DEF Unfollowed
  <2> QED BY <2>2, <2>3, <2>4
<1>2. Unfollowed \in SUBSET (Clients \X Clients) /\ Unfollowed' \in SUBSET (Clients \X Clients)
  BY DEF Unfollowed
<1> QED BY <1>1, <1>2

\* The parts of ToDo but the answer.
Work == Cardinality(Unfollowed) + Cardinality(Clients \ visited) + Cardinality(roots) + Len(path)

LEMMA WorkFalls ==
  ASSUME TypeOK, NEW n \in Nat, Work' = n,
         \/ answer = "none" /\ answer' # "none" /\ n <= Work
         \/ answer' = answer /\ n < Work
  PROVE  ToDo' \in 0..(ToDo - 1)
<1>1. Work \in Nat /\ ToDo = Work + IF answer = "none" THEN 1 ELSE 0
  BY CountsAreNumbers DEF ToDo, Work
<1>2. ToDo' = n + IF answer' = "none" THEN 1 ELSE 0
  BY DEF ToDo, Work
<1>3. CASE answer = "none" /\ answer' # "none" /\ n <= Work
  <2>1. ToDo = Work + 1 /\ ToDo' = n
    BY <1>1, <1>2, <1>3
  <2> QED BY <1>1, <1>3, <2>1
<1>4. CASE answer' = answer /\ n < Work
  <2>1. CASE answer = "none"
    <3>1. ToDo = Work + 1 /\ ToDo' = n + 1
      BY <1>1, <1>2, <1>4, <2>1
    <3> QED BY <1>1, <1>4, <3>1
  <2>2. CASE answer # "none"
    <3>1. ToDo = Work /\ ToDo' = n
      BY <1>1, <1>2, <1>4, <2>2
    <3> QED BY <1>1, <1>4, <3>1
  <2> QED BY <2>1, <2>2
<1> QED BY <1>3, <1>4

\* A finite set without one of its members.
LEMMA OneLess ==
  ASSUME NEW S, IsFiniteSet(S), NEW x \in S, NEW n \in Nat, n = Cardinality(S)
  PROVE  Cardinality(S \ {x}) = n - 1 /\ n - 1 \in Nat
<1>1. IsFiniteSet(S \ {x}) /\ Cardinality(S \ {x}) = Cardinality(S) - 1
  BY FS_RemoveElement
<1>2. Cardinality(S \ {x}) \in Nat
  BY <1>1, FS_CardinalityType
<1> QED BY <1>1, <1>2

LEMMA RootCounts ==
  ASSUME ProbeInv, Root
  PROVE  ToDo' \in 0..(ToDo - 1)
<1>1. PICK u \in roots : /\ roots' = roots \ {u}
                         /\ \/ u \notin visited /\ Call(u)
                            \/ u \in visited /\ UNCHANGED <<visited, path, left>>
  BY DEF Root, Fresh
<1>2. answer = "none" /\ answer' = answer /\ waits' = waits /\ u \in Clients /\ TypeOK
  BY <1>1 DEF Root, ProbeInv, TypeOK
<1>p. PICK E \in Nat, U \in Nat, R \in Nat, P \in Nat :
        E = Cardinality(Unfollowed) /\ U = Cardinality(Clients \ visited) /\ R = Cardinality(roots) /\ P = Len(path)
  BY <1>2, CountsAreNumbers
<1>3. Cardinality(roots') = R - 1 /\ R - 1 \in Nat
  BY <1>1, <1>2, <1>p, CountsAreNumbers, OneLess
<1>4. CASE u \notin visited /\ Call(u)
  <2>1. visited' = visited \cup {u} /\ path' = Append(path, u) /\ left' = [left EXCEPT ![u] = waits[u]]
    BY <1>4 DEF Call
  <2>2. left' \in Graphs /\ left'[u] = waits[u] /\ \A c \in visited : left'[c] = left[c]
    BY <1>2, <1>4, <2>1 DEF TypeOK, Graphs
  <2>3. Unfollowed' = Unfollowed
    <3>1. \A c \in visited : left'[c] = {v \in left[c] : <<c, v>> \notin {}}
      BY <2>2
    <3>2. Unfollowed' = Unfollowed \ {}
      BY <1>2, <1>4, <2>1, <2>2, <3>1, OnlyFollowed DEF TypeOK
    <3> QED BY <3>2
  <2>4. Clients \ visited' = (Clients \ visited) \ {u} /\ u \in Clients \ visited
    BY <1>2, <1>4, <2>1
  <2>5. Cardinality(Clients \ visited') = U - 1 /\ U - 1 \in Nat
    BY <1>2, <1>p, <2>4, CountsAreNumbers, OneLess
  <2>6. Len(path') = P + 1
    BY <1>2, <1>p, <2>1 DEF TypeOK
  <2>7. Work = E + U + R + P /\ Work' = E + (U - 1) + (R - 1) + (P + 1)
    BY <1>3, <1>p, <2>3, <2>5, <2>6 DEF Work
  <2> QED BY <1>2, <1>3, <2>5, <2>7, WorkFalls
<1>5. CASE u \in visited /\ UNCHANGED <<visited, path, left>>
  <2>1. Unfollowed' = Unfollowed /\ Clients \ visited' = Clients \ visited /\ Len(path') = Len(path)
    BY <1>2, <1>5 DEF Unfollowed
  <2>2. Work = E + U + R + P /\ Work' = E + U + (R - 1) + P
    BY <1>3, <1>p, <2>1 DEF Work
  <2> QED BY <1>2, <1>3, <2>2, WorkFalls
<1> QED BY <1>1, <1>4, <1>5

LEMMA SuccessorCounts ==
  ASSUME ProbeInv, Successor
  PROVE  ToDo' \in 0..(ToDo - 1)
<1>1. PICK v \in left[Top] :
        IF v \notin visited
        THEN /\ visited' = visited \cup {v}
             /\ path' = Append(path, v)
             /\ left' = [left EXCEPT ![Top] = @ \ {v}, ![v] = waits[v]]
             /\ UNCHANGED answer
        ELSE /\ left' = [left EXCEPT ![Top] = @ \ {v}]
             /\ answer' = IF Closes(v) THEN "deadlock" ELSE "none"
             /\ UNCHANGED <<visited, path>>
  BY DEF Successor, Fresh
<1>2. /\ Top \in Clients /\ Top \in visited /\ TypeOK
      /\ answer = "none" /\ UNCHANGED <<waits, roots>>
  BY DEF ProbeInv, TypeOK, Successor, Top, StackIsPath
<1>3. v \in waits[Top] /\ v \in Clients /\ left \in Graphs /\ waits \in Graphs
  BY <1>1, <1>2 DEF ProbeInv, TypeOK, Graphs, LeftIsWaited
<1> DEFINE e == <<Top, v>>
           S == Unfollowed
<1>4. e \in S
  BY <1>1, <1>2, <1>3 DEF Unfollowed
<1> HIDE DEF S
<1>p. PICK E \in Nat, U \in Nat, R \in Nat, P \in Nat :
        E = Cardinality(Unfollowed) /\ U = Cardinality(Clients \ visited) /\ R = Cardinality(roots) /\ P = Len(path)
  BY <1>2, CountsAreNumbers
<1>5. Cardinality(S \ {e}) = E - 1 /\ E - 1 \in Nat
  BY <1>2, <1>4, <1>p, CountsAreNumbers, OneLess DEF S
<1>6. CASE v \notin visited
  <2>1. v # Top
    BY <1>2, <1>6
  <2>2. /\ left' \in Graphs /\ left'[v] = waits[v]
        /\ \A c \in visited : left'[c] = {x \in left[c] : <<c, x>> \notin {<<Top, v>>}}
    <3>1. \A c \in Clients : left'[c] = IF c = v THEN waits[v] ELSE IF c = Top THEN left[Top] \ {v} ELSE left[c]
      BY <1>1, <1>2, <1>3, <1>6, <2>1 DEF Graphs
    <3>2. left' \in Graphs
      BY <1>1, <1>2, <1>3, <1>6, <2>1 DEF Graphs
    <3> QED BY <1>2, <1>3, <1>6, <3>1, <3>2 DEF TypeOK
  <2>3. <<Top, v>> \in Clients \X Clients /\ \A d \in {<<Top, v>>} : d[1] \in visited
    BY <1>2, <1>3
  <2>4. visited' = visited \cup {v} /\ path' = Append(path, v) /\ answer' = answer
    BY <1>1, <1>6
  <2>5. Unfollowed' = Unfollowed \ {<<Top, v>>}
    BY <1>2, <1>3, <1>6, <2>2, <2>3, <2>4, OnlyFollowed DEF TypeOK
  <2>6. Clients \ visited' = (Clients \ visited) \ {v} /\ v \in Clients \ visited
    BY <1>3, <1>6, <2>4
  <2>7. Cardinality(Clients \ visited') = U - 1 /\ U - 1 \in Nat
    BY <1>2, <1>p, <2>6, CountsAreNumbers, OneLess
  <2>8. Len(path') = P + 1
    BY <1>2, <1>p, <2>4 DEF TypeOK
  <2>9. Work = E + U + R + P /\ Work' = (E - 1) + (U - 1) + R + (P + 1)
    BY <1>2, <1>5, <1>p, <2>5, <2>7, <2>8 DEF Work, S
  <2> QED BY <1>2, <1>5, <2>4, <2>7, <2>9, WorkFalls
<1>7. CASE v \in visited
  <2>1. /\ \A c \in Clients : left'[c] = IF c = Top THEN left[c] \ {v} ELSE left[c]
        /\ UNCHANGED <<visited, path>> /\ answer' \in {"deadlock", "none"}
    BY <1>1, <1>3, <1>7 DEF Graphs
  <2>2. Unfollowed' = Unfollowed \ {e}
    <3>1. \A c \in visited : left'[c] = {x \in left[c] : <<c, x>> \notin {e}}
      BY <1>2, <1>3, <2>1 DEF TypeOK
    <3>2. {e} \in SUBSET (Clients \X Clients) /\ \A d \in {e} : d[1] \in visited
      BY <1>2, <1>3
    <3> HIDE DEF e
    <3> QED BY <1>2, <2>1, <3>1, <3>2, OnlyFollowed DEF TypeOK
  <2>3. Clients \ visited' = Clients \ visited /\ Len(path') = Len(path)
    BY <2>1
  <2>4. Work = E + U + R + P /\ Work' = (E - 1) + U + R + P
    BY <1>2, <1>5, <1>p, <2>2, <2>3 DEF Work, S
  <2> QED BY <1>2, <1>5, <2>1, <2>4, WorkFalls
<1> QED BY <1>6, <1>7

LEMMA ReturnCounts ==
  ASSUME ProbeInv, Return
  PROVE  ToDo' \in 0..(ToDo - 1)
<1>1. Len(path) \in Nat \ {0} /\ path \in Seq(Clients) /\ TypeOK
  BY DEF ProbeInv, TypeOK, Return
<1>2. Len(path') = Len(path) - 1
  <2> DEFINE n == Len(path)
  <2>1. path' = SubSeq(path, 1, n - 1) /\ \A j \in 1..(n - 1) : path[j] \in Clients
    BY <1>1 DEF Return, Popped
  <2>2. n - 1 \in Nat
    BY <1>1
  <2> HIDE DEF n
  <2>3. Len(SubSeq(path, 1, n - 1)) = IF 1 <= n - 1 THEN (n - 1) - 1 + 1 ELSE 0
    BY <1>1, <2>1, <2>2, SubSeqProperties, Z3
  <2>4. Len(path') = n - 1
    BY <2>1, <2>2, <2>3
  <2> QED BY <2>4 DEF n
<1>3. Unfollowed' = Unfollowed /\ UNCHANGED <<visited, roots, answer>>
  BY DEF Return, Unfollowed
<1>4. Work' \in Nat /\ Work' < Work
  BY <1>1, <1>2, <1>3, CountsAreNumbers DEF Work
<1> QED BY <1>1, <1>3, <1>4, WorkFalls

LEMMA ExhaustedCounts ==
  ASSUME ProbeInv, Exhausted
  PROVE  ToDo' \in 0..(ToDo - 1)
<1>1. UNCHANGED <<visited, roots, path>> /\ answer = "none" /\ answer' = "free" /\ TypeOK
  BY DEF Exhausted, ProbeInv
<1>2. Unfollowed' = Unfollowed
  BY DEF Exhausted, Unfollowed
<1>3. Work' \in Nat /\ Work' = Work
  BY <1>1, <1>2, CountsAreNumbers DEF Work
<1> QED BY <1>1, <1>3, WorkFalls

\* deadlock_probe ends on every finite graph, in time linear in it: each step takes
\* an edge, a client, a root, a call or the answer off what there is to do, and
\* nothing comes back (lock_manager.py:113-125).
THEOREM ProbeIsLinear == Spec => SearchIsLinear
<1>1. ProbeInv /\ [Next]_vars => [ToDo' \in 0..(ToDo - 1)]_vars
  BY RootCounts, SuccessorCounts, ReturnCounts, ExhaustedCounts DEF Next
<1> QED BY ProbeInvariant, <1>1, PTL DEF Spec, SearchIsLinear

=============================================================================
