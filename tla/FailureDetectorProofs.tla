------------------------ MODULE FailureDetectorProofs ------------------------
(***************************************************************************)
(* Proofs about FailureDetector, for any nodes, parameters and bounds: its *)
(* types, and that suspicion needs silence.  The invariant behind it is    *)
(* that a mean, whatever it is made of, is at least MinInterval, and that  *)
(* the age of the statistics is the silence of the peer.                   *)
(***************************************************************************)
EXTENDS FailureDetector, TLAPS

-----------------------------------------------------------------------------
(* The arithmetic *)

\* A quotient is a natural number, and at least m if there are m times k to divide.
LEMMA QuotientBound ==
  ASSUME NEW x \in Nat, NEW k \in Nat \ {0}, NEW m \in Nat, x >= k * m
  PROVE  x \div k \in Nat /\ x \div k >= m
  BY SMTT(30)

\* A product grows with its factor.
LEMMA ProductMonotonic ==
  ASSUME NEW k \in Nat, NEW a \in Nat, NEW b \in Nat, a >= b
  PROVE  k * a \in Nat /\ k * a >= k * b
  BY SMTT(30)

\* The weighted average of two numbers is not below their lower bound.
LEMMA AverageBound ==
  ASSUME NEW n \in Nat, NEW a \in Nat, NEW b \in Nat, NEW m \in Nat, a >= m, b >= m
  PROVE  Average(Weight(n), a, b) \in Nat /\ Average(Weight(n), a, b) >= m
<1> DEFINE k == Weight(n)
<1>1. k \in Nat \ {0} /\ k - 1 \in Nat
  BY DEF Weight
<1> HIDE DEF k
<1>2. (k - 1) * a \in Nat /\ (k - 1) * a >= (k - 1) * m
  BY <1>1, ProductMonotonic
<1>3. k * m = (k - 1) * m + m /\ k * m \in Nat
  BY <1>1, SMTT(30)
<1>4. (k - 1) * a + b \in Nat /\ (k - 1) * a + b >= k * m
  <2>1. (k - 1) * m \in Nat
    BY <1>1, ProductMonotonic
  <2> DEFINE u == (k - 1) * a
             v == (k - 1) * m
  <2> HIDE DEF u, v
  <2> QED BY <1>2, <1>3, <2>1 DEF u, v
<1>5. ((k - 1) * a + b) \div k \in Nat /\ ((k - 1) * a + b) \div k >= m
  BY <1>1, <1>4, QuotientBound
<1> QED BY <1>5 DEF Average, k

-----------------------------------------------------------------------------
(* One peer's statistics *)

\* What is true of the statistics of a peer at any time.
Sound(s) == /\ s \in Stats
            /\ s.age = Never => s.n = 0
            /\ s.n > 0 => s.mean >= MinInterval

\* A sample keeps it: the noise filter lets in no interval below MinInterval, and
\* the first one replaces the mean.
LEMMA SampledIsSound ==
  ASSUME NEW s \in Stats, Sound(s), NEW i \in Nat, i >= MinInterval
  PROVE  Sound(Sampled(s, i)) /\ Sampled(s, i).age = 0
<1> DEFINE n    == Counted(s.n)
           mean == Average(Weight(n), s.mean, i)
           dev  == (i - mean) * (i - mean)
           m2   == Average(Weight(n), s.m2, dev)
<1>0. MinInterval \in Nat /\ MaxSamples \in Nat \ {0}
  BY TimesAssumption
<1>1. n \in 1..MaxSamples /\ (n > 1 => s.n > 0) /\ n \in Nat
  BY <1>0 DEF Stats, Counted
<1>2. mean \in Nat
  <2>1. s.mean \in Nat /\ s.mean >= 0 /\ i >= 0
    BY DEF Stats
  <2> QED BY <1>1, <2>1, AverageBound
<1>3. n > 1 => mean >= MinInterval
  <2>1. SUFFICES ASSUME n > 1 PROVE mean >= MinInterval
    OBVIOUS
  <2>2. s.mean \in Nat /\ s.mean >= MinInterval
    BY <1>1, <2>1 DEF Sound, Stats
  <2> QED BY <1>0, <1>1, <2>2, AverageBound
<1> HIDE DEF mean
<1>4. dev \in Nat
  <2>1. i - mean \in Int
    BY <1>2
  <2> DEFINE d == i - mean
  <2>2. d \in Int
    BY <2>1
  <2> HIDE DEF d
  <2>3. d * d \in Nat
    BY <2>2, SMTT(30)
  <2> QED BY <2>3 DEF d
<1> HIDE DEF dev
<1>5. m2 \in Nat
  <2>1. s.m2 \in Nat /\ s.m2 >= 0 /\ dev >= 0
    BY <1>4 DEF Stats
  <2> QED BY <1>1, <1>4, <2>1, AverageBound
<1>6. (i * i) \div 10 \in Nat
  <2>1. i * i \in Nat /\ i * i >= 10 * 0
    BY SMTT(30)
  <2> QED BY <2>1, QuotientBound
<1> HIDE DEF m2, n
<1>7. Sampled(s, i) = IF n > 1 THEN [age |-> 0, n |-> n, mean |-> mean, m2 |-> m2]
                      ELSE [age |-> 0, n |-> n, mean |-> i, m2 |-> (i * i) \div 10]
  BY DEF Sampled, n, mean, dev, m2
<1>8. CASE n > 1
  BY <1>0, <1>1, <1>2, <1>3, <1>5, <1>7, <1>8 DEF Sound, Stats, Never
<1>9. CASE ~(n > 1)
  <2> DEFINE seed == (i * i) \div 10
  <2> HIDE DEF seed
  <2>1. seed \in Nat
    BY <1>6 DEF seed
  <2>2. Sampled(s, i) = [age |-> 0, n |-> n, mean |-> i, m2 |-> seed]
    BY <1>7, <1>9 DEF seed
  <2> QED BY <1>0, <1>1, <1>9, <2>1, <2>2 DEF Sound, Stats, Never
<1> QED BY <1>8, <1>9

\* So does every heartbeat.
LEMMA RecordedIsSound ==
  ASSUME NEW s \in Stats, Sound(s)
  PROVE  Sound(Recorded(s)) /\ Recorded(s).age = 0
<1>1. CASE s.age = Never \/ s.age < MinInterval
  BY <1>1 DEF Recorded, Sound, Stats, Never
<1>2. CASE ~(s.age = Never \/ s.age < MinInterval)
  <2>1. s.age \in Nat /\ s.age >= MinInterval
    BY <1>2, TimesAssumption DEF Stats
  <2> QED BY <1>2, <2>1, SampledIsSound DEF Recorded
<1> QED BY <1>1, <1>2

\* A longer silence exceeds what a shorter one exceeds.
LEMMA ExceedsMonotonic ==
  ASSUME NEW d \in Int, NEW e \in Int, NEW v \in Nat, NEW w \in Nat,
         Exceeds(d, v), e >= d, v >= w
  PROVE  Exceeds(e, w)
<1>1. d \in Nat /\ e \in Nat /\ 2 * d * d >= 63 * v
  BY DEF Exceeds
<1>2. e * e >= d * d
  BY <1>1, SMTT(30)
<1>3. 2 * e * e = 2 * (e * e) /\ 2 * d * d = 2 * (d * d)
  BY <1>1, SMTT(30)
<1>4. e * e \in Nat /\ d * d \in Nat
  BY <1>1, SMTT(30)
<1> DEFINE ee == e * e
           dd == d * d
<1>5. 2 * ee >= 63 * w
  <2> HIDE DEF ee, dd
  <2>1. ee \in Nat /\ dd \in Nat /\ ee >= dd /\ 2 * dd >= 63 * v
    BY <1>1, <1>2, <1>3, <1>4 DEF ee, dd
  <2> QED BY <2>1
<1> QED BY <1>1, <1>3, <1>5 DEF Exceeds

\* Suspicion, at any age, needs a silence well beyond MinInterval.
LEMMA SuspicionNeedsSilence ==
  ASSUME NEW s \in Stats, Sound(s), Suspected(s)
  PROVE  Exceeds(s.age - MinInterval, MinStd * MinStd)
<1>1. MinInterval \in Nat /\ MinStd * MinStd \in Nat
  <2>1. MinStd \in Nat
    BY TimesAssumption
  <2> QED BY <2>1, TimesAssumption, SMTT(30)
<1>2. s.age \in Nat /\ s.mean \in Nat /\ s.mean >= MinInterval /\ s.m2 \in Nat
  BY DEF Suspected, Sound, Stats
<1>3. Deviation(s) \in Nat /\ Deviation(s) >= MinStd * MinStd
  <2> DEFINE q == MinStd * MinStd
  <2> HIDE DEF q
  <2>1. Deviation(s) = IF s.m2 > q THEN s.m2 ELSE q
    BY DEF Deviation, q
  <2>2. q \in Nat
    BY <1>1 DEF q
  <2> QED BY <1>2, <2>1, <2>2 DEF q
<1>4. Exceeds(s.age - s.mean, Deviation(s))
  BY DEF Suspected
<1>5. s.age - s.mean \in Int /\ s.age - MinInterval \in Int
        /\ s.age - MinInterval >= s.age - s.mean
  BY <1>1, <1>2
<1> QED BY <1>1, <1>3, <1>4, <1>5, ExceedsMonotonic

-----------------------------------------------------------------------------
(* The inductive invariant *)

Silent(p) == Exceeds(silence[p] - MinInterval, MinStd * MinStd)

\* The age of a peer's statistics is its silence, which stays within MaxAge.
AgeIsSilence(p) == /\ silence[p] \in 0..MaxAge
                   /\ stats[p].age # Never => stats[p].age = silence[p]

\* While the loop sleeps, a peer it reported down has been heard of, and is silent.
ReportedIsSilent(p) == phase = "asleep" /\ ~status[p] => stats[p].age # Never /\ Silent(p)

IInv ==
  /\ TypeOK
  /\ probing # {} => phase = "probing"
  /\ \A p \in Peers : Sound(stats[p]) /\ AgeIsSilence(p) /\ ReportedIsSilent(p)

LEMMA InitInvariant == Init => IInv
<1> SUFFICES ASSUME Init PROVE IInv
  OBVIOUS
<1>1. \A p \in Peers : stats[p] = [age |-> Never, n |-> 0, mean |-> 0, m2 |-> 0]
  BY DEF Init
<1>2. \A p \in Peers : stats[p] \in Stats
  BY <1>1, TimesAssumption DEF Stats, Never
<1>3. stats \in [Peers -> Stats]
  BY <1>2 DEF Init
<1>4. TypeOK
  BY <1>3 DEF Init, TypeOK
<1>5. \A p \in Peers : Sound(stats[p]) /\ AgeIsSilence(p) /\ ReportedIsSilent(p)
  BY <1>1, <1>2, TimesAssumption DEF Init, Sound, AgeIsSilence, ReportedIsSilent, Never
<1> QED BY <1>4, <1>5 DEF Init, IInv

\* What a step keeps of a peer whose statistics, silence and report it leaves alone.
LEMMA Untouched ==
  ASSUME NEW p \in Peers, Sound(stats[p]), AgeIsSilence(p), ReportedIsSilent(p),
         stats'[p] = stats[p], silence'[p] = silence[p],
         phase' = "asleep" => phase = "asleep" /\ status'[p] = status[p]
  PROVE  (Sound(stats[p]) /\ AgeIsSilence(p) /\ ReportedIsSilent(p))'
<1>1. Sound(stats'[p])
  OBVIOUS
<1>2. AgeIsSilence(p)'
  BY DEF AgeIsSilence
<1>3. ReportedIsSilent(p)'
  BY DEF ReportedIsSilent, Silent
<1> QED BY <1>1, <1>2, <1>3

\* A heartbeat of p.
LEMMA AnswerKeeps ==
  ASSUME IInv, NEW p \in Peers, Answer(p)
  PROVE  IInv'
<1>1. stats[p] \in Stats /\ Sound(stats[p]) /\ phase = "probing" /\ phase' = "probing"
  BY DEF IInv, TypeOK, Answer
<1>2. Sound(Recorded(stats[p])) /\ Recorded(stats[p]).age = 0
  BY <1>1, RecordedIsSound
<1>3. stats' = [stats EXCEPT ![p] = Recorded(stats[p])] /\ silence' = [silence EXCEPT ![p] = 0]
  BY DEF Answer
<1>4. stats'[p] = Recorded(stats[p]) /\ silence'[p] = 0
  BY <1>3 DEF IInv, TypeOK
<1>5. stats' \in [Peers -> Stats]
  BY <1>2, <1>3 DEF IInv, TypeOK, Sound
<1>6. TypeOK'
  BY <1>5 DEF IInv, TypeOK, Answer
<1>7. ASSUME NEW q \in Peers
      PROVE  (Sound(stats[q]) /\ AgeIsSilence(q) /\ ReportedIsSilent(q))'
  <2>1. CASE q = p
    <3>1. Sound(stats'[q])
      BY <1>2, <1>4, <2>1
    <3>2. AgeIsSilence(q)'
      BY <1>2, <1>4, <2>1, TimesAssumption DEF AgeIsSilence
    <3>3. ReportedIsSilent(q)'
      BY <1>1 DEF ReportedIsSilent
    <3> QED BY <3>1, <3>2, <3>3
  <2>2. CASE q # p
    <3>1. stats'[q] = stats[q] /\ silence'[q] = silence[q]
      BY <1>3, <2>2 DEF IInv, TypeOK
    <3> QED BY <1>1, <3>1, Untouched DEF IInv
  <2> QED BY <2>1, <2>2
<1> QED BY <1>1, <1>6, <1>7 DEF IInv

\* The end of a round.
LEMMA CheckKeeps ==
  ASSUME IInv, Check
  PROVE  IInv'
<1>1. TypeOK'
  BY DEF IInv, TypeOK, Check, Reported
<1>2. ASSUME NEW p \in Peers
      PROVE  (Sound(stats[p]) /\ AgeIsSilence(p) /\ ReportedIsSilent(p))'
  <2>1. Sound(stats'[p]) /\ AgeIsSilence(p)'
    BY DEF IInv, Check, AgeIsSilence
  <2>2. ASSUME ~status'[p]
        PROVE  stats[p].age # Never /\ Silent(p)
    <3>1. Suspected(stats[p])
      BY <2>2 DEF Check, Reported
    <3>2. stats[p].age # Never /\ stats[p].age = silence[p]
      BY <3>1 DEF Suspected, IInv, AgeIsSilence
    <3> QED BY <3>1, <3>2, SuspicionNeedsSilence DEF IInv, TypeOK, Silent
  <2>3. ReportedIsSilent(p)'
    BY <2>2 DEF ReportedIsSilent, Silent, Check
  <2> QED BY <2>1, <2>3
<1> QED BY <1>1, <1>2 DEF IInv, Check

\* Time passes: ages and silences grow alike.
LEMMA PassKeeps ==
  ASSUME IInv, Pass
  PROVE  IInv'
<1>0. Tick \in Nat \ {0} /\ MaxAge \in Nat \ {0} /\ MinInterval \in Nat
        /\ MinStd * MinStd \in Nat
  <2>1. MinStd \in Nat
    BY TimesAssumption
  <2> QED BY <2>1, TimesAssumption, SMTT(30)
<1>1. ASSUME NEW t \in 0..MaxAge
      PROVE  Later(t) \in 0..MaxAge /\ Later(t) >= t
  BY <1>0 DEF Later
<1>2. ASSUME NEW p \in Peers
      PROVE  /\ stats'[p] \in Stats
             /\ silence'[p] \in 0..MaxAge
             /\ (Sound(stats[p]) /\ AgeIsSilence(p) /\ ReportedIsSilent(p))'
  <2>0. stats[p] \in Stats /\ Sound(stats[p]) /\ AgeIsSilence(p) /\ ReportedIsSilent(p)
    BY DEF IInv, TypeOK
  <2>1. CASE stats[p].age = Never
    <3>1. stats'[p] = stats[p] /\ silence'[p] = 0
      BY <2>1 DEF Pass
    <3>2. Sound(stats'[p])
      BY <2>0, <3>1
    <3>3. AgeIsSilence(p)'
      BY <1>0, <2>1, <3>1 DEF AgeIsSilence
    <3>4. ReportedIsSilent(p)'
      BY <2>0, <2>1, <3>1 DEF ReportedIsSilent, Pass
    <3> QED BY <1>0, <2>0, <3>1, <3>2, <3>3, <3>4
  <2>2. CASE stats[p].age # Never
    <3>1. stats'[p] = [stats[p] EXCEPT !.age = Later(stats[p].age)]
            /\ silence'[p] = Later(silence[p])
      BY <2>2 DEF Pass
    <3>2. stats[p].age = silence[p] /\ silence[p] \in 0..MaxAge
      BY <2>0, <2>2 DEF AgeIsSilence
    <3>3. Later(silence[p]) \in 0..MaxAge /\ Later(silence[p]) >= silence[p]
      BY <1>1, <3>2
    <3>4. stats'[p] \in Stats /\ Sound(stats'[p]) /\ stats'[p].age = silence'[p]
            /\ stats'[p].age # Never
      BY <2>0, <3>1, <3>2, <3>3 DEF Stats, Sound, Never
    <3>5. Silent(p) => Silent(p)'
      <4>1. silence[p] - MinInterval \in Int /\ silence'[p] - MinInterval \in Int
              /\ silence'[p] - MinInterval >= silence[p] - MinInterval
        BY <1>0, <3>1, <3>2, <3>3
      <4> QED BY <1>0, <4>1, ExceedsMonotonic DEF Silent
    <3>6. ReportedIsSilent(p)'
      BY <2>0, <3>4, <3>5 DEF ReportedIsSilent, Pass
    <3> QED BY <3>1, <3>3, <3>4, <3>6 DEF AgeIsSilence
  <2> QED BY <2>1, <2>2
<1>3. DOMAIN stats' = Peers /\ DOMAIN silence' = Peers
  BY DEF Pass
<1>4. stats' \in [Peers -> Stats] /\ silence' \in [Peers -> Nat]
  <2>1. \A p \in Peers : silence'[p] \in Nat
    BY <1>0, <1>2
  <2>2. stats' = [p \in Peers |-> stats'[p]] /\ silence' = [p \in Peers |-> silence'[p]]
    BY DEF Pass
  <2> QED BY <1>2, <2>1, <2>2
<1>5. TypeOK'
  BY <1>0, <1>4 DEF IInv, TypeOK, Pass
<1> QED BY <1>2, <1>5 DEF IInv, Pass

\* The steps that touch neither statistics nor silence nor reports.
LEMMA OthersKeep ==
  ASSUME IInv,
         \/ Start \/ NextRound \/ Stop \/ UNCHANGED vars
         \/ \E p \in Peers : Fail(p) \/ Die(p)
  PROVE  IInv'
<1>1. stats' = stats /\ silence' = silence /\ status' = status
        /\ (phase' = "asleep" => phase = "asleep") /\ (probing' # {} => phase' = "probing")
  BY DEF IInv, Start, NextRound, Stop, Fail, Die, vars
<1>2. TypeOK'
  BY DEF IInv, TypeOK, Start, NextRound, Stop, Fail, Die, vars
<1>3. \A p \in Peers : (Sound(stats[p]) /\ AgeIsSilence(p) /\ ReportedIsSilent(p))'
  BY <1>1, Untouched DEF IInv
<1> QED BY <1>1, <1>2, <1>3 DEF IInv

LEMMA Invariance == Spec => []IInv
<1>1. IInv /\ [Next]_vars => IInv'
  BY AnswerKeeps, CheckKeeps, PassKeeps, OthersKeep DEF Next
<1> QED BY InitInvariant, <1>1, PTL DEF Spec

-----------------------------------------------------------------------------
(* The theorems *)

\* The detector and its loop keep their types (failure_detector.py:33-39).
THEOREM DetectorTypeOK == Spec => []TypeOK
<1>1. IInv => TypeOK
  BY DEF IInv
<1> QED BY Invariance, <1>1, PTL

\* Nobody is suspected without a silence of MinInterval and 5.612 times MinStd, in
\* any report and at any moment (failure_detector.py:121-151, 246-248).
THEOREM SuspicionIsSlow == Spec => []SuspectsAreSilent
<1>1. IInv => SuspectsAreSilent
  <2> SUFFICES ASSUME IInv, NEW p \in Peers,
                      Suspected(stats[p]) \/ (phase = "asleep" /\ ~status[p])
               PROVE  Silent(p)
    BY DEF SuspectsAreSilent, Silent
  <2>1. CASE Suspected(stats[p])
    <3>1. stats[p].age = silence[p]
      BY <2>1 DEF Suspected, IInv, AgeIsSilence
    <3> QED BY <2>1, <3>1, SuspicionNeedsSilence DEF IInv, TypeOK, Silent
  <2>2. CASE phase = "asleep" /\ ~status[p]
    BY <2>2 DEF IInv, ReportedIsSilent
  <2> QED BY <2>1, <2>2
<1> QED BY Invariance, <1>1, PTL

=============================================================================
