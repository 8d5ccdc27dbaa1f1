--------------------------- MODULE ProbeManager ---------------------------
(***************************************************************************)
(* The agent's path probes: Manager (agent/probe/manager.go), its state    *)
(* machines (agent/probe/state.go), and the part of Agent.sweep that uses  *)
(* them (agent/agent.go).  A round of probes and a sweep run in goroutines *)
(* of their own and meet in the Manager's mutex, so every critical section *)
(* is an action.                                                           *)
(***************************************************************************)
EXTENDS Naturals, Sequences

CONSTANTS
    Key,               \* scope keys
    FailureThreshold,
    SuccessThreshold,
    MaxSamples         \* bound: key -> samples a machine of it takes in

\* NewMachine raises a threshold below one to one.
ASSUME ThresholdAssumption ==
    /\ FailureThreshold \in Nat \ {0}
    /\ SuccessThreshold \in Nat \ {0}
    /\ MaxSamples \in [Key -> Nat]

VARIABLES
    targets,   \* the keys of Manager.targets
    machines,  \* Manager.machines
    changed,   \* Manager.changed
    wake,      \* whether Manager.wake holds a token
    round,     \* the round in flight
    sweep,     \* the sweep in progress
    reported   \* path reports that went out: key -> the last PathReady sent

managerVars == <<targets, machines, changed>>
vars == <<managerVars, wake, round, sweep, reported>>

\* samples is history: the results folded in, each with whether its probe had been
\* sent for this machine or for one the key had before.
NewMachine == [state |-> "Unknown", success |-> 0, failure |-> 0, samples |-> <<>>]

\* orphaned is history: keys that lost their machine after the round took its targets.
NoRound == [inFlight |-> FALSE, left |-> {}, anyChanged |-> FALSE, orphaned |-> {}]

NoSweep == [phase |-> "idle", paths |-> <<>>, changed |-> {}]

-----------------------------------------------------------------------------
(* Machine.Observe. Streaks are counted up to their threshold only.         *)

Raised(n, threshold) == IF n < threshold THEN n + 1 ELSE n

\* Mutant of Observe: a failure does not end a streak of successes.
ObserveForgiving(m, ok) ==
    IF ok THEN LET n == Raised(m.success, SuccessThreshold) IN
               [m EXCEPT !.success = n, !.failure = 0,
                         !.state = IF n >= SuccessThreshold THEN "Healthy" ELSE @]
          ELSE LET n == Raised(m.failure, FailureThreshold) IN
               [m EXCEPT !.failure = n,
                         !.state = IF n >= FailureThreshold THEN "Unhealthy" ELSE @]

Observe(m, ok) ==
    IF ok THEN LET n == Raised(m.success, SuccessThreshold) IN
               [m EXCEPT !.success = n, !.failure = 0,
                         !.state = IF n >= SuccessThreshold THEN "Healthy" ELSE @]
          ELSE LET n == Raised(m.failure, FailureThreshold) IN
               [m EXCEPT !.failure = n, !.success = 0,
                         !.state = IF n >= FailureThreshold THEN "Unhealthy" ELSE @]

-----------------------------------------------------------------------------
(* A round. *)

\* Start's ticker: one round at a time. It takes a copy of the targets; with none
\* it is over at once.
RoundStarts ==
    /\ ~round.inFlight
    /\ targets # {}
    /\ round' = [NoRound EXCEPT !.inFlight = TRUE, !.left = targets]
    /\ UNCHANGED <<managerVars, wake, sweep, reported>>

\* Mutant of Fold: a result is not taken off the list and counts again.
FoldTwice(k, ok) ==
    LET m == Observe(machines[k], ok)
        moved == m.state # machines[k].state
    IN  /\ k \in round.left \cap DOMAIN machines
        /\ Len(machines[k].samples) < MaxSamples[k]
        /\ \E left \in {round.left, round.left \ {k}} :
             round' = [round EXCEPT !.left = left, !.anyChanged = @ \/ moved]
        /\ machines' = [machines EXCEPT ![k] =
             [m EXCEPT !.samples = Append(@, [ok |-> ok, own |-> k \notin round.orphaned])]]
        /\ changed' = IF moved THEN changed \cup {k} ELSE changed
        /\ UNCHANGED <<targets, wake, sweep, reported>>

\* All probes have answered, and the results are folded in key by key. A key
\* without a machine is passed over.
Fold(k, ok) ==
    LET m == Observe(machines[k], ok)
        moved == m.state # machines[k].state
    IN  /\ k \in round.left \cap DOMAIN machines
        /\ Len(machines[k].samples) < MaxSamples[k]
        /\ round' = [round EXCEPT !.left = @ \ {k}, !.anyChanged = @ \/ moved]
        /\ machines' = [machines EXCEPT ![k] =
             [m EXCEPT !.samples = Append(@, [ok |-> ok, own |-> k \notin round.orphaned])]]
        /\ changed' = IF moved THEN changed \cup {k} ELSE changed
        /\ UNCHANGED <<targets, wake, sweep, reported>>

PassOver(k) ==
    /\ k \in round.left \ DOMAIN machines
    /\ round' = [round EXCEPT !.left = @ \ {k}]
    /\ UNCHANGED <<managerVars, wake, sweep, reported>>

\* Mutant of RoundEnds: nobody is woken.
RoundEndsQuietly ==
    /\ round.inFlight /\ round.left = {}
    /\ round' = NoRound
    /\ UNCHANGED <<managerVars, wake, sweep, reported>>

\* The send on wake does not block: a token that is there already will do.
RoundEnds ==
    /\ round.inFlight /\ round.left = {}
    /\ wake' = (wake \/ round.anyChanged)
    /\ round' = NoRound
    /\ UNCHANGED <<managerVars, sweep, reported>>

-----------------------------------------------------------------------------
(* A sweep: SetTargets, States, TakeChanged, Publish. *)

\* Mutant of SetTargets: the change mark of a key that left stays.
SetTargetsKeepChanged(K) ==
    /\ sweep.phase = "idle"
    /\ \/ wake' = wake
       \/ wake /\ wake' = FALSE
    /\ targets' = K
    /\ machines' = [k \in K |-> IF k \in DOMAIN machines THEN machines[k] ELSE NewMachine]
    /\ changed' = changed
    /\ round' = [round EXCEPT !.orphaned = IF round.inFlight
                                           THEN @ \cup (DOMAIN machines \ K) ELSE {}]
    /\ sweep' = [NoSweep EXCEPT !.phase = "states"]
    /\ UNCHANGED reported

\* It begins on a resync tick, on a namespace event or on wake, and sets the
\* targets it has found.
SetTargets(K) ==
    /\ sweep.phase = "idle"
    /\ \/ wake' = wake
       \/ wake /\ wake' = FALSE
    /\ targets' = K
    /\ machines' = [k \in K |-> IF k \in DOMAIN machines THEN machines[k] ELSE NewMachine]
    /\ changed' = changed \cap K
    /\ round' = [round EXCEPT !.orphaned = IF round.inFlight
                                           THEN @ \cup (DOMAIN machines \ K) ELSE {}]
    /\ sweep' = [NoSweep EXCEPT !.phase = "states"]
    /\ UNCHANGED reported

\* A machine without a verdict is left out.
States ==
    LET decided == {k \in targets : machines[k].state # "Unknown"}
    IN  /\ sweep.phase = "states"
        /\ sweep' = [sweep EXCEPT !.phase = "take",
                       !.paths = [k \in decided |-> machines[k].state = "Healthy"]]
        /\ UNCHANGED <<managerVars, wake, round, reported>>

TakeChanged ==
    /\ sweep.phase = "take"
    /\ sweep' = [sweep EXCEPT !.phase = "publish", !.changed = changed]
    /\ changed' = {}
    /\ UNCHANGED <<targets, machines, wake, round, reported>>

\* Mutant of Publish: no full report is ever made.
PublishChanges(full) ==
    LET sent == DOMAIN sweep.paths \cap sweep.changed
    IN  /\ sweep.phase = "publish"
        /\ reported' = [k \in sent \cup DOMAIN reported |->
                          IF k \in sent THEN sweep.paths[k] ELSE reported[k]]
        /\ sweep' = NoSweep
        /\ UNCHANGED <<managerVars, wake, round>>

\* The sink sends everything, or what changed.
Publish(full) ==
    LET sent == IF full THEN DOMAIN sweep.paths ELSE DOMAIN sweep.paths \cap sweep.changed
    IN  /\ sweep.phase = "publish"
        /\ reported' = [k \in sent \cup IF full THEN {} ELSE DOMAIN reported |->
                          IF k \in sent THEN sweep.paths[k] ELSE reported[k]]
        /\ sweep' = NoSweep
        /\ UNCHANGED <<managerVars, wake, round>>

-----------------------------------------------------------------------------
(* Specification. *)

Init ==
    /\ targets = {}
    /\ machines = <<>>
    /\ changed = {}
    /\ wake = FALSE
    /\ round = NoRound
    /\ sweep = NoSweep
    /\ reported = <<>>

Round == RoundStarts \/ RoundEnds \/ \E k \in Key : PassOver(k) \/ \E ok \in BOOLEAN : Fold(k, ok)

Sweep ==
    \/ \E K \in SUBSET Key : SetTargets(K)
    \/ States
    \/ TakeChanged
    \/ \E full \in BOOLEAN : Publish(full)

Next == Round \/ Sweep

Spec == Init /\ [][Next]_vars

\* Resync keeps ticking, a sweep that has begun goes on, and with the controller
\* within reach a sweep finds Refresh gone by again and again and reports in full.
FairSpec ==
    /\ Spec
    /\ WF_vars(Sweep)
    /\ SF_vars(Publish(TRUE))

-----------------------------------------------------------------------------
(* Properties. *)

\* Every variable stays within its type, and each target has its machine.
ProbeTypeOK ==
    /\ targets \subseteq Key
    /\ DOMAIN machines = targets
    /\ \A k \in targets :
        /\ machines[k].state \in {"Unknown", "Healthy", "Unhealthy"}
        /\ machines[k].success \in 0..SuccessThreshold
        /\ machines[k].failure \in 0..FailureThreshold
    /\ changed \subseteq targets
    /\ round.left \subseteq Key
    /\ sweep.phase \in {"idle", "states", "take", "publish"}
    /\ DOMAIN reported \subseteq Key

\* Sample j of s ends a streak of n that says ok.
EndsStreak(s, j, n, ok) == j >= n /\ \A l \in (j - n + 1)..j : s[l].ok = ok

Settles(s, j) ==
    EndsStreak(s, j, SuccessThreshold, TRUE) \/ EndsStreak(s, j, FailureThreshold, FALSE)

\* The verdict on a run of samples, without counters: that of the latest streak
\* which was long enough, and none before there was one.
Verdict(s) ==
    IF \A j \in 1..Len(s) : ~Settles(s, j) THEN "Unknown"
    ELSE LET last == CHOOSE j \in 1..Len(s) :
                        Settles(s, j) /\ \A l \in (j + 1)..Len(s) : ~Settles(s, l)
         IN  IF s[last].ok THEN "Healthy" ELSE "Unhealthy"

\* The machines' counters compute that verdict, whatever samples came in and
\* however rounds and changes of target interleaved.
VerdictEarned == \A k \in DOMAIN machines : machines[k].state = Verdict(machines[k].samples)

\* No change of state sits unannounced: with round and sweep at rest, a change not
\* yet taken has left a token in wake.
ChangeWakes == ~round.inFlight /\ sweep.phase = "idle" /\ changed # {} => wake

\* A key that returns starts from Unknown, but the probe of a round that was under
\* way when the key left may answer for its new machine. That happens once at most,
\* and before any probe of its own: no other sample was sent for an earlier machine.
LateProbeCountsOnce ==
    \A k \in DOMAIN machines :
        \A j \in 2..Len(machines[k].samples) : machines[k].samples[j].own

\* A verdict that lasts comes to be reported, and stays so: a change that happens
\* between States and TakeChanged loses its mark and goes out with its old value,
\* but not beyond the next full report.
LastingVerdictReported ==
    \A k \in Key, healthy \in BOOLEAN :
        <>[](k \in targets /\ machines[k].state = IF healthy THEN "Healthy" ELSE "Unhealthy")
            => <>[](k \in DOMAIN reported /\ reported[k] = healthy)
=============================================================================
