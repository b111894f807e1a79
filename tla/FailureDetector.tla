--------------------------- MODULE FailureDetector ---------------------------
(***************************************************************************)
(* The phi-accrual failure detector of                                     *)
(* src/src/communication/failure_detector.py, and the node process that    *)
(* starts and stops its probe loop (src/src/nodes/base_node.py).           *)
(*                                                                         *)
(* Time is discrete: Tick milliseconds pass at once for every peer, and    *)
(* what the event loop does takes none.  The floating-point statistics are *)
(* integers here, rounded down, and phi is compared to its threshold by    *)
(* the equivalent condition on the silence: 1 - CDF(z) is 1e-8 at z =      *)
(* 5.612, and 5.612 ^ 2 is 63 / 2.                                         *)
(***************************************************************************)
EXTENDS Integers

CONSTANTS Nodes,        \* CLUSTER_NODES: a host and a port of each node
          Self,         \* the node of this process
          Interval, Timeout,               \* arguments of periodic_probe, in ms
          MinInterval, MinStd, MaxSamples, \* parameters of the detector
          Tick,         \* ms that pass in one step
          MaxAge,       \* bound: longer silences are all the same
          MaxPause,     \* bound: a silence that ends is not longer
          MaxAnswers    \* bound: answers of each node

ASSUME NodesAssumption == Nodes \subseteq STRING \X Nat /\ Self \in Nodes
ASSUME TimesAssumption ==
  /\ {Interval, Timeout, MinInterval, MinStd, MaxPause} \subseteq Nat
  /\ {Tick, MaxSamples, MaxAge} \subseteq Nat \ {0}
  /\ MaxPause < MaxAge /\ MaxAnswers \in [Nodes -> Nat]

VARIABLES phase,    \* "off", "probing", "asleep" or "stopped"
          probing,  \* the peers whose probe of this round is running
          elapsed,  \* ms since the round began
          stats,    \* _Stats of each peer; age: ms since last_ts_ms, or Never
          status,   \* last_status: what was last reported of each peer
          dead,     \* the peers whose process is down
          silence,  \* history: ms since the last answer of each peer, 0 before the first
          answers   \* answers of each peer so far, for MaxAnswers

vars == <<phase, probing, elapsed, stats, status, dead, silence, answers>>

\* f":{settings.http_port}" in url: a port that only begins with one's own is
\* taken for it too.
BeginsWith(port, own) == \E k \in 0..4 : port \div 10^k = own
Peers == {n \in Nodes : ~BeginsWith(n[2], Self[2])}

Never == -1
Stats == [age : Nat \cup {Never}, n : 0..MaxSamples, mean : Nat, m2 : Nat]

Init ==
  /\ phase = "off" /\ probing = {} /\ elapsed = 0
  /\ stats = [p \in Peers |-> [age |-> Never, n |-> 0, mean |-> 0, m2 |-> 0]]
  /\ status = [p \in Peers |-> TRUE]
  /\ dead = {} /\ answers = [p \in Peers |-> 0]
  /\ silence = [p \in Peers |-> 0]

-----------------------------------------------------------------------------
(* PhiAccrualFailureDetector.record *)

\* 1 / alpha, where alpha = min(0.2, 0.5 / n).
Weight(n) == IF 2 * n > 5 THEN 2 * n ELSE 5
Average(k, old, new) == ((k - 1) * old + new) \div k

\* Mutated form of Counted: max_sample_size is not a limit.
CountedOn(n) == n + 1

Counted(n) == IF n < MaxSamples THEN n + 1 ELSE MaxSamples

\* A sample: the time between two heartbeats.
Sampled(s, interval) ==
  LET n    == Counted(s.n)
      mean == Average(Weight(n), s.mean, interval)
      m2   == Average(Weight(n), s.m2, (interval - mean) * (interval - mean))
  IN  IF n > 1 THEN [age |-> 0, n |-> n, mean |-> mean, m2 |-> m2]
      ELSE [age |-> 0, n |-> n, mean |-> interval, m2 |-> (interval * interval) \div 10]

\* The first heartbeat and one that comes too early only move last_ts_ms.
Recorded(s) ==
  IF s.age = Never \/ s.age < MinInterval THEN [s EXCEPT !.age = 0] ELSE Sampled(s, s.age)

-----------------------------------------------------------------------------
(* PhiAccrualFailureDetector.phi *)

\* Mutated form of Deviation: it may be too small.
DeviationUnbounded(s) == s.m2

\* The square of max(min_std_ms, sqrt(m2)).
Deviation(s) == IF s.m2 > MinStd * MinStd THEN s.m2 ELSE MinStd * MinStd

\* phi >= 8 for a silence that exceeds the mean by d, with variance v.
Exceeds(d, v) == d >= 0 /\ 2 * d * d >= 63 * v

\* Without two samples phi is 0.
Suspected(s) == s.age # Never /\ s.n >= 2 /\ Exceeds(s.age - s.mean, Deviation(s))

-----------------------------------------------------------------------------
(* periodic_probe *)

\* on_startup: the detector and its loop only run where there are peers.
Start ==
  /\ phase = "off" /\ Peers # {}
  /\ phase' = "probing"
  /\ probing' = Peers
  /\ UNCHANGED <<elapsed, stats, status, dead, silence, answers>>

\* The probe of p was answered in time: a heartbeat.
Answer(p) ==
  /\ p \in probing \ dead
  /\ answers[p] < MaxAnswers[p] /\ stats[p].age <= MaxPause
  /\ probing' = probing \ {p}
  /\ stats' = [stats EXCEPT ![p] = Recorded(@)]
  /\ silence' = [silence EXCEPT ![p] = 0]
  /\ answers' = [answers EXCEPT ![p] = @ + 1]
  /\ UNCHANGED <<phase, elapsed, status, dead>>

\* It was refused, or lost, or it took too long.
Fail(p) ==
  /\ p \in probing
  /\ probing' = probing \ {p}
  /\ UNCHANGED <<phase, elapsed, stats, status, dead, silence, answers>>

\* Mutated form of Reported: only a peer that just answered is judged again.
ReportedIfHeard(p) == IF silence[p] > elapsed THEN status[p] ELSE ~Suspected(stats[p])

Reported(p) == ~Suspected(stats[p])

\* gather() returns and the status of every peer is decided, with no wait in between.
Check ==
  /\ phase = "probing" /\ probing = {}
  /\ phase' = "asleep"
  /\ status' = [p \in Peers |-> Reported(p)]
  /\ UNCHANGED <<probing, elapsed, stats, dead, silence, answers>>

\* The next round, when the interval is over (at once if the round took longer).
NextRound ==
  /\ phase = "asleep" /\ elapsed >= Interval
  /\ phase' = "probing"
  /\ probing' = Peers
  /\ elapsed' = 0
  /\ UNCHANGED <<stats, status, dead, silence, answers>>

\* on_shutdown cancels the loop, wherever it waits.
Stop ==
  /\ phase = "asleep" \/ probing # {}
  /\ phase' = "stopped"
  /\ probing' = {} /\ elapsed' = 0
  /\ UNCHANGED <<stats, status, dead, silence, answers>>

Later(t) == IF t + Tick < MaxAge THEN t + Tick ELSE MaxAge

\* Time passes while probes run, up to their timeout, and while the loop sleeps.
Pass ==
  /\ \/ phase = "probing" /\ probing # {} /\ elapsed < Timeout
     \/ phase = "asleep" /\ elapsed < Interval
  /\ elapsed' = elapsed + Tick
  /\ stats' = [p \in Peers |-> IF stats[p].age = Never THEN stats[p]
                                 ELSE [stats[p] EXCEPT !.age = Later(@)]]
  /\ silence' = [p \in Peers |-> IF stats[p].age = Never THEN 0 ELSE Later(silence[p])]
  /\ UNCHANGED <<phase, probing, status, dead, answers>>

\* The process of a peer stops for good.  (One that comes back is a peer whose
\* probes failed for a while.)
Die(p) ==
  /\ p \notin dead
  /\ dead' = dead \cup {p}
  /\ UNCHANGED <<phase, probing, elapsed, stats, status, silence, answers>>

Next ==
  \/ Start \/ Check \/ NextRound \/ Stop \/ Pass
  \/ \E p \in Peers : Answer(p) \/ Fail(p) \/ Die(p)

Spec == Init /\ [][Next]_vars

\* Time passes, the loop runs, and a probe ends: answered, failed or timed out.
FairSpec ==
  /\ Spec
  /\ WF_vars(Pass) /\ WF_vars(Check) /\ WF_vars(NextRound) /\ WF_vars(Start)
  /\ \A p \in Peers : WF_vars(elapsed >= Timeout /\ (Answer(p) \/ Fail(p)))

-----------------------------------------------------------------------------
(* Properties *)

TypeOK ==
  /\ phase \in {"off", "probing", "asleep", "stopped"}
  /\ probing \in SUBSET Peers
  /\ elapsed \in Nat
  /\ stats \in [Peers -> Stats]
  /\ status \in [Peers -> BOOLEAN]
  /\ dead \in SUBSET Peers
  /\ silence \in [Peers -> Nat]
  /\ answers \in [Peers -> Nat]

\* A peer is only suspected, in a report or in /fd/status, after a silence that
\* exceeds MinInterval by 5.612 times MinStd: whatever the intervals were between
\* its answers, how many of them were too short to be sampled, and after long
\* outages.  With the parameters of the code this is 761 ms, longer than a round
\* without a slow peer, so that a peer that answers is not suspected in one.
SuspectsAreSilent ==
  \A p \in Peers :
    Suspected(stats[p]) \/ (phase = "asleep" /\ ~status[p]) =>
      Exceeds(silence[p] - MinInterval, MinStd * MinStd)

\* A peer that answered three times or more and died is reported in the end,
\* whatever long intervals its mean and deviation have taken in before.
DeadIsReported ==
  \A p \in Peers :
    p \in dead /\ stats[p].n >= 2 ~> ~status[p] \/ phase = "stopped"

\* "sukses bila /health 200" (base_node.py:155): a peer that answered the probe of
\* this round is not reported down at its end.  It does not hold: while one peer
\* times out, the others' answers grow old (DetectorSlowRound.cfg).
AnsweredIsUp ==
  \A p \in Peers :
    phase = "asleep" /\ silence[p] <= elapsed /\ stats[p].n >= 2 => status[p]

\* "Gagal: biarkan FD yang menilai berdasarkan phi" (failure_detector.py:240; the
\* detector will judge by phi): a dead peer is reported.  It does not hold of one
\* that never answered three times (DetectorNeverSeen.cfg).
EveryDeadIsReported ==
  \A p \in Peers : p \in dead ~> ~status[p] \/ phase = "stopped"

=============================================================================
