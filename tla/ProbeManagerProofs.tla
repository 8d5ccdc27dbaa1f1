------------------------ MODULE ProbeManagerProofs ------------------------
(***************************************************************************)
(* Theorems about ProbeManager, for any set of keys, any thresholds and    *)
(* any number of samples.                                                  *)
(***************************************************************************)
EXTENDS ProbeManager, TLAPS

Sample == [ok : BOOLEAN, own : BOOLEAN]

Machine == [state : {"Unknown", "Healthy", "Unhealthy"}, success : 0..SuccessThreshold,
            failure : 0..FailureThreshold, samples : Seq(Sample)]

\* The types the properties need, those of the history included.
Typed ==
    /\ targets \subseteq Key
    /\ machines \in [targets -> Machine]
    /\ changed \subseteq targets
    /\ wake \in BOOLEAN
    /\ round \in [inFlight : BOOLEAN, left : SUBSET Key, anyChanged : BOOLEAN, orphaned : SUBSET Key]
    /\ sweep \in [phase : {"idle", "states", "take", "publish"},
                  paths : UNION {[K -> BOOLEAN] : K \in SUBSET Key}, changed : SUBSET Key]
    /\ DOMAIN reported \subseteq Key

-----------------------------------------------------------------------------
(* What the counters of a machine say of its samples. *)

\* n counts the samples at the end of s that say ok: all of the streak, unless the
\* count has stopped at its threshold.
Counts(n, s, ok, threshold) ==
    /\ n <= Len(s)
    /\ \A l \in (Len(s) - n + 1)..Len(s) : s[l].ok = ok
    /\ n < threshold => Len(s) = n \/ s[Len(s) - n].ok # ok

\* state is that of the last sample that settled it, if there was one.
Settled(state, s) ==
    \/ state = "Unknown" /\ \A j \in 1..Len(s) : ~Settles(s, j)
    \/ \E j \in 1..Len(s) :
        /\ Settles(s, j)
        /\ \A l \in (j + 1)..Len(s) : ~Settles(s, l)
        /\ state = IF s[j].ok THEN "Healthy" ELSE "Unhealthy"

Tallied(m) ==
    /\ Counts(m.success, m.samples, TRUE, SuccessThreshold)
    /\ Counts(m.failure, m.samples, FALSE, FailureThreshold)
    /\ Settled(m.state, m.samples)

AllTallied == \A k \in DOMAIN machines : Tallied(machines[k])

\* A change not yet taken has its token, has it coming at the end of the round, or
\* has a sweep before it that will take it.
ChangeCovered ==
    /\ round.left # {} => round.inFlight
    /\ changed # {} => wake \/ (round.inFlight /\ round.anyChanged) \/ sweep.phase \in {"states", "take"}

\* A probe still to be folded in for a machine it was not sent for finds one
\* without samples.
OrphansFresh ==
    \A k \in round.left \cap round.orphaned \cap DOMAIN machines : machines[k].samples = <<>>

-----------------------------------------------------------------------------
(* Lemmas about streaks and verdicts. *)

\* One more sample leaves the earlier ones as they were.
LEMMA AppendedSample ==
  ASSUME NEW s \in Seq(Sample), NEW e \in Sample
  PROVE  /\ Append(s, e) \in Seq(Sample)
         /\ Len(s) \in Nat
         /\ Len(Append(s, e)) = Len(s) + 1
         /\ \A i \in 1..Len(s) : Append(s, e)[i] = s[i] /\ s[i] \in Sample
         /\ Append(s, e)[Len(s) + 1] = e
  OBVIOUS

\* A sample that says the same lengthens the streak, up to the threshold.
LEMMA StreakGrows ==
  ASSUME NEW s \in Seq(Sample), NEW e \in Sample, NEW threshold \in Nat \ {0},
         NEW n \in 0..threshold, Counts(n, s, e.ok, threshold)
  PROVE  Counts(Raised(n, threshold), Append(s, e), e.ok, threshold)
  <1> DEFINE t == Append(s, e)
             c == Raised(n, threshold)
  <1>1. /\ Len(s) \in Nat /\ Len(t) = Len(s) + 1
        /\ \A i \in 1..Len(s) : t[i] = s[i]
        /\ t[Len(s) + 1] = e
    BY AppendedSample
  <1> HIDE DEF t
  <1>2. c \in Nat /\ c <= n + 1 /\ c <= threshold /\ (c < threshold => c = n + 1)
    BY DEF Raised
  <1> HIDE DEF c
  <1>3. n <= Len(s) /\ c <= Len(t)
    BY <1>1, <1>2 DEF Counts
  <1>4. \A l \in (Len(t) - c + 1)..Len(t) : t[l].ok = e.ok
    <2> SUFFICES ASSUME NEW l \in (Len(t) - c + 1)..Len(t), l # Len(t)
                 PROVE  t[l].ok = e.ok
      BY <1>1
    <2>1. l \in (Len(s) - n + 1)..Len(s) /\ l \in 1..Len(s)
      BY <1>1, <1>2, <1>3
    <2>2. QED
      BY <2>1, <1>1 DEF Counts
  <1>5. c < threshold => Len(t) = c \/ t[Len(t) - c].ok # e.ok
    <2> SUFFICES ASSUME c < threshold, Len(t) # c
                 PROVE  t[Len(t) - c].ok # e.ok
      OBVIOUS
    <2>1. c = n + 1 /\ n < threshold /\ Len(s) # n
      BY <1>1, <1>2
    <2>2. Len(t) - c = Len(s) - n /\ Len(s) - n \in 1..Len(s)
      BY <2>1, <1>1, <1>3
    <2>3. QED
      BY <2>1, <2>2, <1>1 DEF Counts
  <1>6. QED
    BY <1>3, <1>4, <1>5 DEF Counts, t, c

\* A sample that says the opposite ends it.
LEMMA StreakEnds ==
  ASSUME NEW s \in Seq(Sample), NEW e \in Sample, NEW threshold \in Nat \ {0}, NEW ok, e.ok # ok
  PROVE  Counts(0, Append(s, e), ok, threshold)
  BY AppendedSample DEF Counts

\* The count reaches its threshold exactly when the last samples are a streak of
\* that length.
LEMMA CountTellsStreak ==
  ASSUME NEW s \in Seq(Sample), NEW ok, NEW threshold \in Nat \ {0},
         NEW n \in 0..threshold, Counts(n, s, ok, threshold)
  PROVE  EndsStreak(s, Len(s), threshold, ok) <=> n >= threshold
  <1>1. Len(s) \in Nat
    OBVIOUS
  <1>2. CASE n = threshold
    BY <1>1, <1>2 DEF Counts, EndsStreak
  <1>3. CASE n < threshold /\ Len(s) = n
    BY <1>1, <1>3 DEF EndsStreak
  <1>4. CASE n < threshold /\ Len(s) # n
    <2>1. s[Len(s) - n].ok # ok
      BY <1>4 DEF Counts
    <2>2. Len(s) - n \in (Len(s) - threshold + 1)..Len(s)
      BY <1>1, <1>4
    <2>3. QED
      BY <2>1, <2>2, <1>4 DEF EndsStreak
  <1>5. QED
    BY <1>2, <1>3, <1>4

\* What an earlier sample settled it settles still.
LEMMA SettlesKept ==
  ASSUME NEW s \in Seq(Sample), NEW e \in Sample, NEW j \in 1..Len(s)
  PROVE  Settles(Append(s, e), j) <=> Settles(s, j)
  <1>1. \A i \in 1..Len(s) : Append(s, e)[i] = s[i]
    BY AppendedSample
  <1>2. ASSUME NEW n \in Nat, NEW ok
        PROVE  EndsStreak(Append(s, e), j, n, ok) <=> EndsStreak(s, j, n, ok)
    <2>1. j >= n => (j - n + 1)..j \subseteq 1..Len(s)
      OBVIOUS
    <2>2. QED
      BY <2>1, <1>1 DEF EndsStreak
  <1>3. QED
    BY <1>2, ThresholdAssumption DEF Settles

\* A sample that settles nothing leaves the verdict, one that does gives it.
LEMMA SettledStep ==
  ASSUME NEW s \in Seq(Sample), NEW e \in Sample, NEW state, Settled(state, s)
  PROVE  LET t == Append(s, e)
         IN  Settled(IF Settles(t, Len(t)) THEN IF e.ok THEN "Healthy" ELSE "Unhealthy" ELSE state, t)
  <1> DEFINE t == Append(s, e)
  <1>1. /\ Len(s) \in Nat /\ Len(t) = Len(s) + 1
        /\ \A i \in 1..Len(s) : t[i] = s[i]
        /\ t[Len(s) + 1] = e
    BY AppendedSample
  <1>2. \A j \in 1..Len(s) : Settles(t, j) <=> Settles(s, j)
    BY SettlesKept
  <1> HIDE DEF t
  <1>3. CASE Settles(t, Len(t))
    BY <1>1, <1>3 DEF Settled, t
  <1>4. CASE ~Settles(t, Len(t))
    <2>1. CASE state = "Unknown" /\ \A j \in 1..Len(s) : ~Settles(s, j)
      BY <1>1, <1>2, <1>4, <2>1 DEF Settled, t
    <2>2. CASE \E j \in 1..Len(s) :
                 /\ Settles(s, j)
                 /\ \A l \in (j + 1)..Len(s) : ~Settles(s, l)
                 /\ state = IF s[j].ok THEN "Healthy" ELSE "Unhealthy"
      <3>1. PICK j \in 1..Len(s) :
                 /\ Settles(s, j)
                 /\ \A l \in (j + 1)..Len(s) : ~Settles(s, l)
                 /\ state = IF s[j].ok THEN "Healthy" ELSE "Unhealthy"
        BY <2>2
      <3>2. \A l \in (j + 1)..Len(t) : ~Settles(t, l)
        <4> SUFFICES ASSUME NEW l \in (j + 1)..Len(t), l # Len(t)
                     PROVE  ~Settles(t, l)
          BY <1>4
        <4>1. l \in (j + 1)..Len(s) /\ l \in 1..Len(s)
          BY <1>1
        <4>2. QED
          BY <4>1, <3>1, <1>2
      <3>3. j \in 1..Len(t) /\ Settles(t, j) /\ t[j] = s[j]
        BY <3>1, <1>1, <1>2
      <3>4. Settled(state, t)
        BY <3>1, <3>2, <3>3 DEF Settled
      <3>5. QED
        BY <3>4, <1>4 DEF t
    <2>3. QED
      BY <2>1, <2>2 DEF Settled
  <1>5. QED
    BY <1>3, <1>4

\* There is one sample that settles the verdict last, so Verdict is what it says.
LEMMA SettledIsVerdict ==
  ASSUME NEW s \in Seq(Sample), NEW state, Settled(state, s)
  PROVE  state = Verdict(s)
  <1>1. Len(s) \in Nat
    OBVIOUS
  <1>2. CASE \A j \in 1..Len(s) : ~Settles(s, j)
    BY <1>2 DEF Settled, Verdict
  <1>3. CASE \E j \in 1..Len(s) : Settles(s, j)
    <2> DEFINE Last(j) == Settles(s, j) /\ \A l \in (j + 1)..Len(s) : ~Settles(s, l)
    <2>1. PICK j \in 1..Len(s) : Last(j) /\ state = IF s[j].ok THEN "Healthy" ELSE "Unhealthy"
      BY <1>3 DEF Settled
    <2> DEFINE c == CHOOSE i \in 1..Len(s) : Last(i)
    <2>2. c \in 1..Len(s) /\ Last(c)
      BY <2>1
    <2>3. c = j
      <3> HIDE DEF c
      <3>1. ~(c < j) /\ ~(j < c)
        BY <2>1, <2>2, <1>1
      <3>2. QED
        BY <3>1, <2>2, <1>1
    <2>4. Verdict(s) = IF s[c].ok THEN "Healthy" ELSE "Unhealthy"
      BY <1>3 DEF Verdict
    <2>5. QED
      BY <2>1, <2>3, <2>4
  <1>4. QED
    BY <1>2, <1>3

-----------------------------------------------------------------------------
(* Lemmas about the machines. *)

LEMMA NewMachineTallied == NewMachine \in Machine /\ Tallied(NewMachine)
  <1>1. NewMachine \in Machine
    BY ThresholdAssumption DEF NewMachine, Machine
  <1>2. Tallied(NewMachine)
    BY ThresholdAssumption DEF NewMachine, Tallied, Counts, Settled
  <1>3. QED
    BY <1>1, <1>2

\* The machine that Fold leaves.
Folded(m, e) == [Observe(m, e.ok) EXCEPT !.samples = Append(@, e)]

LEMMA Resampled ==
  ASSUME NEW o \in Machine, NEW t
  PROVE  [o EXCEPT !.samples = t]
           = [state |-> o.state, success |-> o.success, failure |-> o.failure, samples |-> t]
  BY DEF Machine

\* Observe and the sample together keep the counters and the state right.
LEMMA FoldTallied ==
  ASSUME NEW m \in Machine, NEW e \in Sample, Tallied(m)
  PROVE  /\ Folded(m, e) \in Machine
         /\ Folded(m, e).samples = Append(m.samples, e)
         /\ Folded(m, e).state = Observe(m, e.ok).state
         /\ Tallied(Folded(m, e))
  <1> DEFINE s == m.samples
             t == Append(s, e)
             up == Raised(m.success, SuccessThreshold)
             down == Raised(m.failure, FailureThreshold)
             f == Folded(m, e)
             o == Observe(m, e.ok)
  <1>1. /\ s \in Seq(Sample) /\ t \in Seq(Sample)
        /\ m.success \in 0..SuccessThreshold /\ m.failure \in 0..FailureThreshold
        /\ e.ok \in BOOLEAN
        /\ Len(t) = Len(s) + 1 /\ Len(s) \in Nat /\ t[Len(t)] = e
    BY AppendedSample DEF Machine, Sample
  <1>2. up \in 0..SuccessThreshold /\ down \in 0..FailureThreshold
    BY <1>1, ThresholdAssumption DEF Raised
  <1>3. CASE e.ok
    <2>0. o = [state |-> IF up >= SuccessThreshold THEN "Healthy" ELSE m.state,
               success |-> up, failure |-> 0, samples |-> s]
      BY <1>3 DEF Observe, Machine
    <2>1. /\ f = [state |-> IF up >= SuccessThreshold THEN "Healthy" ELSE m.state,
                  success |-> up, failure |-> 0, samples |-> t]
          /\ f.state = (IF up >= SuccessThreshold THEN "Healthy" ELSE m.state) /\ f.state = o.state
          /\ f.success = up /\ f.failure = 0 /\ f.samples = t
      <3>1. o \in Machine
        BY <2>0, <1>1, <1>2, ThresholdAssumption DEF Machine
      <3>2. f = [state |-> o.state, success |-> o.success, failure |-> o.failure,
                 samples |-> Append(o.samples, e)]
        BY <3>1, Resampled DEF Folded
      <3>3. QED
        BY <2>0, <3>2
    <2>2. Counts(up, t, TRUE, SuccessThreshold) /\ Counts(0, t, FALSE, FailureThreshold)
      <3>1. e.ok = TRUE
        BY <1>1, <1>3
      <3>2. Counts(m.success, s, TRUE, SuccessThreshold)
        BY DEF Tallied
      <3>3. Counts(up, t, TRUE, SuccessThreshold)
        BY <1>1, <3>1, <3>2, StreakGrows, ThresholdAssumption
      <3>4. Counts(0, t, FALSE, FailureThreshold)
        BY <1>1, <3>1, StreakEnds, ThresholdAssumption
      <3>5. QED
        BY <3>3, <3>4
    <2>3. Settles(t, Len(t)) <=> up >= SuccessThreshold
      <3>1. EndsStreak(t, Len(t), SuccessThreshold, TRUE) <=> up >= SuccessThreshold
        BY <2>2, <1>1, <1>2, CountTellsStreak, ThresholdAssumption
      <3>2. ~EndsStreak(t, Len(t), FailureThreshold, FALSE)
        BY <1>1, <1>3, ThresholdAssumption DEF EndsStreak
      <3>3. QED
        BY <3>1, <3>2 DEF Settles
    <2>4. Settled(f.state, t)
      BY <2>1, <2>3, <1>1, <1>3, SettledStep DEF Tallied
    <2>5. f \in Machine
      BY <2>1, <1>1, <1>2, ThresholdAssumption DEF Machine
    <2>6. QED
      BY <2>1, <2>2, <2>4, <2>5, Zenon DEF Tallied
  <1>4. CASE ~e.ok
    <2>0. o = [state |-> IF down >= FailureThreshold THEN "Unhealthy" ELSE m.state,
               success |-> 0, failure |-> down, samples |-> s]
      BY <1>4 DEF Observe, Machine
    <2>1. /\ f = [state |-> IF down >= FailureThreshold THEN "Unhealthy" ELSE m.state,
                  success |-> 0, failure |-> down, samples |-> t]
          /\ f.state = (IF down >= FailureThreshold THEN "Unhealthy" ELSE m.state) /\ f.state = o.state
          /\ f.success = 0 /\ f.failure = down /\ f.samples = t
      <3>1. o \in Machine
        BY <2>0, <1>1, <1>2, ThresholdAssumption DEF Machine
      <3>2. f = [state |-> o.state, success |-> o.success, failure |-> o.failure,
                 samples |-> Append(o.samples, e)]
        BY <3>1, Resampled DEF Folded
      <3>3. QED
        BY <2>0, <3>2
    <2>2. Counts(0, t, TRUE, SuccessThreshold) /\ Counts(down, t, FALSE, FailureThreshold)
      <3>1. e.ok = FALSE
        BY <1>1, <1>4
      <3>2. Counts(m.failure, s, FALSE, FailureThreshold)
        BY DEF Tallied
      <3>3. Counts(down, t, FALSE, FailureThreshold)
        BY <1>1, <3>1, <3>2, StreakGrows, ThresholdAssumption
      <3>4. Counts(0, t, TRUE, SuccessThreshold)
        BY <1>1, <3>1, StreakEnds, ThresholdAssumption
      <3>5. QED
        BY <3>3, <3>4
    <2>3. Settles(t, Len(t)) <=> down >= FailureThreshold
      <3>1. EndsStreak(t, Len(t), FailureThreshold, FALSE) <=> down >= FailureThreshold
        BY <2>2, <1>1, <1>2, CountTellsStreak, ThresholdAssumption
      <3>2. ~EndsStreak(t, Len(t), SuccessThreshold, TRUE)
        BY <1>1, <1>4, ThresholdAssumption DEF EndsStreak
      <3>3. QED
        BY <3>1, <3>2 DEF Settles
    <2>4. Settled(f.state, t)
      BY <2>1, <2>3, <1>1, <1>4, SettledStep DEF Tallied
    <2>5. f \in Machine
      BY <2>1, <1>1, <1>2, ThresholdAssumption DEF Machine
    <2>6. QED
      BY <2>1, <2>2, <2>4, <2>5, Zenon DEF Tallied
  <1>5. QED
    BY <1>3, <1>4

-----------------------------------------------------------------------------
(* The inductive invariant. *)

ProbeInv == Typed /\ AllTallied /\ ChangeCovered /\ OrphansFresh

LEMMA InitProbe == Init => ProbeInv
  <1> SUFFICES ASSUME Init PROVE ProbeInv
    OBVIOUS
  <1>1. machines \in [{} -> Machine] /\ <<>> \in [{} -> BOOLEAN] /\ DOMAIN reported = {}
    BY DEF Init
  <1>2. Typed
    BY <1>1 DEF Init, Typed, NoRound, NoSweep
  <1>3. QED
    BY <1>1, <1>2 DEF Init, ProbeInv, AllTallied, ChangeCovered, OrphansFresh, NoRound

LEMMA StepProbe == ProbeInv /\ [Next]_vars => ProbeInv'
  <1> SUFFICES ASSUME ProbeInv, [Next]_vars
               PROVE  ProbeInv'
    OBVIOUS
  <1> USE DEF ProbeInv
  <1>1. CASE RoundStarts
    BY <1>1 DEF RoundStarts, NoRound, managerVars, Typed, AllTallied, ChangeCovered, OrphansFresh
  <1>2. CASE RoundEnds
    BY <1>2 DEF RoundEnds, NoRound, managerVars, Typed, AllTallied, ChangeCovered, OrphansFresh
  <1>3. ASSUME NEW k \in Key, PassOver(k)
        PROVE  ProbeInv'
    BY <1>3 DEF PassOver, managerVars, Typed, AllTallied, ChangeCovered, OrphansFresh
  <1>4. ASSUME NEW k \in Key, NEW ok \in BOOLEAN, Fold(k, ok)
        PROVE  ProbeInv'
    <2> DEFINE e == [ok |-> ok, own |-> k \notin round.orphaned]
               moved == Observe(machines[k], ok).state # machines[k].state
    <2>1. /\ k \in round.left /\ k \in targets
          /\ machines[k] \in Machine /\ Tallied(machines[k])
          /\ e \in Sample /\ e.ok = ok
      BY <1>4 DEF Fold, Typed, AllTallied, Sample
    <2>2. /\ machines' = [machines EXCEPT ![k] = Folded(machines[k], e)]
          /\ round' = [round EXCEPT !.left = @ \ {k}, !.anyChanged = @ \/ moved]
          /\ changed' = IF moved THEN changed \cup {k} ELSE changed
          /\ UNCHANGED <<targets, wake, sweep, reported>>
      BY <1>4 DEF Fold, Folded
    <2>3. Folded(machines[k], e) \in Machine /\ Tallied(Folded(machines[k], e))
      BY <2>1, FoldTallied
    <2>4. moved \in BOOLEAN
      OBVIOUS
    <2> HIDE DEF e, moved
    <2>5. Typed'
      BY <2>1, <2>2, <2>3, <2>4 DEF Typed
    <2>6. AllTallied'
      BY <2>2, <2>3 DEF AllTallied, Typed
    <2>7. ChangeCovered'
      BY <2>1, <2>2, <2>4 DEF ChangeCovered, Typed
    <2>8. OrphansFresh'
      BY <2>2 DEF OrphansFresh, Typed
    <2>9. QED
      BY <2>5, <2>6, <2>7, <2>8
  <1>5. ASSUME NEW K \in SUBSET Key, SetTargets(K)
        PROVE  ProbeInv'
    <2> USE <1>5 DEF SetTargets
    <2>1. wake' \in BOOLEAN /\ sweep' = [NoSweep EXCEPT !.phase = "states"]
      BY DEF Typed
    <2>2. machines' \in [K -> Machine]
      BY NewMachineTallied DEF Typed
    <2>3. sweep' \in [phase : {"idle", "states", "take", "publish"},
                      paths : UNION {[L -> BOOLEAN] : L \in SUBSET Key}, changed : SUBSET Key]
      <3>1. <<>> \in [{} -> BOOLEAN]
        OBVIOUS
      <3>2. QED
        BY <2>1, <3>1 DEF NoSweep
    <2>4. Typed'
      BY <2>1, <2>2, <2>3 DEF Typed
    <2>5. AllTallied'
      BY NewMachineTallied DEF AllTallied
    <2>6. ChangeCovered'
      BY <2>1 DEF ChangeCovered, Typed, NoSweep
    <2>7. OrphansFresh'
      BY DEF OrphansFresh, ChangeCovered, Typed, NewMachine
    <2>8. QED
      BY <2>4, <2>5, <2>6, <2>7
  <1>6. CASE States
    <2> DEFINE decided == {k \in targets : machines[k].state # "Unknown"}
               paths == [k \in decided |-> machines[k].state = "Healthy"]
    <2>1. paths \in [decided -> BOOLEAN] /\ decided \in SUBSET Key
      BY DEF Typed
    <2>2. sweep' = [sweep EXCEPT !.phase = "take", !.paths = paths]
          /\ UNCHANGED <<managerVars, wake, round, reported>>
      BY <1>6 DEF States
    <2> HIDE DEF decided, paths
    <2>3. paths \in UNION {[K -> BOOLEAN] : K \in SUBSET Key}
      BY <2>1
    <2>4. Typed'
      BY <2>2, <2>3 DEF Typed, managerVars
    <2>5. QED
      BY <2>2, <2>4, <1>6 DEF States, managerVars, Typed, AllTallied, ChangeCovered, OrphansFresh
  <1>7. CASE TakeChanged
    BY <1>7 DEF TakeChanged, Typed, AllTallied, ChangeCovered, OrphansFresh
  <1>8. ASSUME NEW full \in BOOLEAN, Publish(full)
        PROVE  ProbeInv'
    <2>1. DOMAIN sweep.paths \subseteq Key
      BY DEF Typed
    <2>2. DOMAIN reported' \subseteq Key /\ sweep' = NoSweep
      BY <1>8, <2>1 DEF Publish, Typed
    <2>3. sweep' \in [phase : {"idle", "states", "take", "publish"},
                      paths : UNION {[L -> BOOLEAN] : L \in SUBSET Key}, changed : SUBSET Key]
      <3>1. <<>> \in [{} -> BOOLEAN]
        OBVIOUS
      <3>2. QED
        BY <2>2, <3>1 DEF NoSweep
    <2>4. Typed'
      BY <1>8, <2>2, <2>3 DEF Publish, Typed, managerVars
    <2>5. QED
      BY <1>8, <2>4 DEF Publish, managerVars, Typed, AllTallied, ChangeCovered, OrphansFresh, NoSweep
  <1>9. CASE UNCHANGED vars
    BY <1>9 DEF vars, managerVars, Typed, AllTallied, ChangeCovered, OrphansFresh
  <1>10. QED
    BY <1>1, <1>2, <1>3, <1>4, <1>5, <1>6, <1>7, <1>8, <1>9 DEF Next, Round, Sweep

LEMMA ProbeInvariant == Spec => []ProbeInv
  BY InitProbe, StepProbe, PTL DEF Spec

-----------------------------------------------------------------------------
(* Theorems. *)

\* Every variable of the Manager, the round and the sweep stays within its type,
\* and each target has its machine.
THEOREM ProbeTypes == Spec => []ProbeTypeOK
  <1>1. ProbeInv => ProbeTypeOK
    BY DEF ProbeInv, Typed, ProbeTypeOK, Machine
  <1>2. QED
    BY <1>1, ProbeInvariant, PTL

\* Machine.Observe, whose counters stop at their thresholds, computes the verdict
\* of the last streak that was long enough, for all thresholds and any samples.
THEOREM VerdictIsEarned == Spec => []VerdictEarned
  <1>1. ProbeInv => VerdictEarned
    BY SettledIsVerdict DEF ProbeInv, Typed, Machine, AllTallied, Tallied, VerdictEarned
  <1>2. QED
    BY <1>1, ProbeInvariant, PTL

\* No change of state is left without its token in wake once round and sweep rest.
THEOREM NoChangeUnannounced == Spec => []ChangeWakes
  <1>1. ProbeInv => ChangeWakes
    BY DEF ProbeInv, ChangeCovered, ChangeWakes
  <1>2. QED
    BY <1>1, ProbeInvariant, PTL

\* At most the first sample of a machine comes from a probe sent for an earlier one.
THEOREM LateProbeOnce == Spec => []LateProbeCountsOnce
  <1>1. Init => LateProbeCountsOnce
    BY DEF Init, LateProbeCountsOnce
  <1>2. ProbeInv /\ LateProbeCountsOnce /\ [Next]_vars => LateProbeCountsOnce'
    <2> SUFFICES ASSUME ProbeInv, LateProbeCountsOnce, [Next]_vars
                 PROVE  LateProbeCountsOnce'
      OBVIOUS
    <2>1. ASSUME NEW k \in Key, NEW ok \in BOOLEAN, Fold(k, ok)
          PROVE  LateProbeCountsOnce'
      <3> DEFINE s == machines[k].samples
                 e == [ok |-> ok, own |-> k \notin round.orphaned]
      <3>1. /\ k \in round.left \cap DOMAIN machines
            /\ machines[k] \in Machine /\ Tallied(machines[k]) /\ s \in Seq(Sample) /\ e \in Sample /\ e.ok = ok
        BY <2>1 DEF Fold, ProbeInv, Typed, AllTallied, Machine, Sample
      <3>2. machines' = [machines EXCEPT ![k] = Folded(machines[k], e)]
        BY <2>1 DEF Fold, Folded
      <3>3. Folded(machines[k], e).samples = Append(s, e)
        BY <3>1, FoldTallied
      <3>4. k \in round.orphaned => s = <<>>
        BY <3>1 DEF ProbeInv, OrphansFresh
      <3>5. \A j \in 2..Len(Append(s, e)) : Append(s, e)[j].own
        <4>1. CASE k \in round.orphaned
          BY <3>1, <3>4, <4>1, AppendedSample
        <4>2. CASE k \notin round.orphaned
          <5> SUFFICES ASSUME NEW j \in 2..Len(Append(s, e)) PROVE Append(s, e)[j].own
            OBVIOUS
          <5>1. CASE j = Len(s) + 1
            <6>1. Append(s, e)[j] = e
              BY <3>1, <5>1, AppendedSample
            <6>2. e.own
              BY <4>2
            <6>3. QED
              BY <6>1, <6>2, Zenon
          <5>2. CASE j # Len(s) + 1
            <6>1. j \in 2..Len(s) /\ j \in 1..Len(s)
              BY <3>1, <5>2, AppendedSample
            <6>2. s[j].own
              BY <6>1, <3>1 DEF LateProbeCountsOnce
            <6>3. QED
              BY <3>1, <6>1, <6>2, AppendedSample
          <5>3. QED
            BY <5>1, <5>2
        <4>3. QED
          BY <4>1, <4>2
      <3> HIDE DEF s, e
      <3>6. QED
        BY <3>2, <3>3, <3>5 DEF LateProbeCountsOnce
    <2>2. ASSUME NEW K \in SUBSET Key, SetTargets(K)
          PROVE  LateProbeCountsOnce'
      BY <2>2 DEF SetTargets, LateProbeCountsOnce, NewMachine
    <2>3. CASE UNCHANGED machines
      BY <2>3 DEF LateProbeCountsOnce
    <2>4. QED
      BY <2>1, <2>2, <2>3
      DEF Next, Round, Sweep, RoundStarts, RoundEnds, PassOver, States, TakeChanged, Publish, vars, managerVars
  <1>3. QED
    BY <1>1, <1>2, ProbeInvariant, PTL DEF Spec
=============================================================================
