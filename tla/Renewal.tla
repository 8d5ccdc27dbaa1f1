------------------------------ MODULE Renewal ------------------------------
(***************************************************************************)
(* Whether an agent renews its evidence before the controller lets it      *)
(* lapse: the sweep loop of Agent.Start (agent/agent.go), the connection   *)
(* loop and Publish of GRPCSink (agent/grpc_sink.go) and the age the       *)
(* health store sees (controller/health_store.go), on one clock.           *)
(*                                                                         *)
(* Durations are counted in ticks. One piece of evidence stands for all    *)
(* that a snapshot carries; nothing about it changes, so deltas do not     *)
(* renew it. What else Publish and the stream handler do to each other is  *)
(* HealthTransport's subject; here a snapshot is accepted when it is sent, *)
(* unless the connection is broken. A sweep takes up to Busy ticks before  *)
(* it publishes, and a stream up to Dial ticks to open.                    *)
(***************************************************************************)
EXTENDS Naturals

CONSTANTS
    Resync,      \* --resync
    Refresh,     \* --refresh
    MaxSession,  \* --max-session; 0 disables the cap
    TTL,         \* --health-ttl
    Second,      \* the first pause before a reconnect
    Plenty,      \* the pause from which on it is not doubled: 5 s
    Useful,      \* a session that lived longer resets the pause: 10 s
    Busy,        \* the longest a sweep takes until it publishes
    Dial         \* the longest a stream takes to open when nothing is broken

ASSUME RenewalAssumption ==
    /\ Resync \in Nat \ {0} /\ Refresh \in Nat \ {0} /\ TTL \in Nat
    /\ MaxSession \in Nat /\ Useful \in Nat /\ Busy \in Nat /\ Dial \in Nat
    /\ Second \in Nat \ {0} /\ Plenty \in Nat /\ Second < Plenty

VARIABLES
    ticker,    \* time left until Agent.Start's ticker fires
    token,     \* whether ticker.C holds a tick
    sweeping,  \* whether a sweep is under way
    busy,      \* time left until it publishes at the latest
    need,      \* GRPCSink.needSnapshot
    snap,      \* time since GRPCSink.lastSnapshot, up to Refresh
    session,   \* "pausing", "opening" while it dials, "open" once there is a stream
    broken,    \* whether its connection carries nothing and the agent has not noticed
    dial,      \* time left until the stream is open at the latest
    lived,     \* time since the session started, up to Useful + 1
    left,      \* time left to the session under MaxSession
    pause,     \* time left until the next session when there is none
    backoff,   \* GRPCSink.Start's backoff
    age,       \* age of the evidence in the store, Oldest + 1 when there is none
    calm,      \* history: nothing has failed since the evidence was last renewed
    quiet      \* history: time since anything was wrong, up to RecoveryTime + 1

sweepVars == <<ticker, token, sweeping, busy>>
sinkVars == <<need, snap>>
sessionVars == <<session, broken, dial, lived, left, pause, backoff>>
history == <<calm, quiet>>
vars == <<sweepVars, sinkVars, sessionVars, age, history>>

\* The longest pause that doubling leads to.
LongestPause == 2 * (Plenty - 1)

\* The longest the store goes without a snapshot while nothing fails: while a stream
\* lasts, and when its cap strikes just before the snapshot that was due.
SteadyGap == Refresh - 1 + Resync + Busy
CappedGap == SteadyGap + Second + Dial + Resync + Busy

\* The longest until the last session starts after a failure: the pause, or the rest
\* of a session that opened too late to send a snapshot before its cap.
Regrouping ==
    IF LongestPause < Second + Resync + Busy THEN Second + Resync + Busy ELSE LongestPause

RecoveryTime == Regrouping + Dial + Resync + Busy

\* Ages beyond this are not told apart.
Oldest == IF TTL < CappedGap THEN CappedGap ELSE TTL

UpTo(n, limit) == IF n < limit THEN n + 1 ELSE n
Down(n) == IF n > 0 THEN n - 1 ELSE 0

-----------------------------------------------------------------------------
(* Agent.Start. *)

\* The channel of the ticker holds one tick.
TickerFires ==
    /\ ticker = 0
    /\ ticker' = Resync
    /\ token' = TRUE
    /\ UNCHANGED <<sweeping, busy, sinkVars, sessionVars, age, history>>

Begin ==
    /\ ~sweeping
    /\ sweeping' = TRUE
    /\ busy' = Busy
    /\ UNCHANGED <<ticker, sinkVars, sessionVars, age, history>>

SweepOnTick == token /\ token' = FALSE /\ Begin

\* A namespace event or a change of a path state.
SweepOnEvent == UNCHANGED token /\ Begin

-----------------------------------------------------------------------------
(* Publish, the last step of a sweep. *)

Published ==
    /\ sweeping
    /\ sweeping' = FALSE
    /\ UNCHANGED <<ticker, token, busy, sessionVars>>

Due == need \/ snap >= Refresh

SnapshotSent ==
    /\ Published
    /\ session = "open" /\ Due
    /\ need' = FALSE
    /\ snap' = 0

PublishSnapshot ==
    /\ SnapshotSent
    /\ ~broken
    /\ age' = 0
    /\ calm' = TRUE
    /\ UNCHANGED quiet

\* The sends go through, and the controller never sees what was sent.
SnapshotUnheard ==
    /\ SnapshotSent
    /\ broken
    /\ UNCHANGED <<age, history>>

\* Only changes are sent, and there are none.
PublishDeltas ==
    /\ Published
    /\ session = "open" /\ ~Due
    /\ UNCHANGED <<sinkVars, age, history>>

\* There is no stream.
PublishFails ==
    /\ Published
    /\ session # "open"
    /\ UNCHANGED <<sinkVars, age, history>>

-----------------------------------------------------------------------------
(* GRPCSink.Start and session. *)

\* The session's age and its cap count from here, the dialling included.
SessionStarts ==
    /\ session = "pausing" /\ pause = 0
    /\ session' = "opening"
    /\ dial' = Dial
    /\ lived' = 0
    /\ left' = MaxSession
    /\ UNCHANGED <<sweepVars, sinkVars, broken, pause, backoff, age, history>>

\* A dial that hung may open in the end.
Opens ==
    /\ session = "opening"
    /\ session' = "open"
    /\ broken' = FALSE
    /\ need' = TRUE
    /\ UNCHANGED <<sweepVars, snap, dial, lived, left, pause, backoff, age, history>>

\* Mutant of Doubled: the pause is doubled without end.
DoubledForEver(b) == 2 * b

Doubled(b) == IF b < Plenty THEN 2 * b ELSE b

\* Mutant of PauseAfter: a session that was useful does not reset the pause.
PauseNeverReset(age_of_session) == backoff

\* The pause after a session that lived so long.
PauseAfter(age_of_session) == IF age_of_session > Useful THEN Second ELSE backoff

\* session has returned: back off before the next one.
BackOff ==
    /\ session' = "pausing"
    /\ broken' = FALSE
    /\ pause' = PauseAfter(lived)
    /\ backoff' = Doubled(PauseAfter(lived))
    /\ UNCHANGED <<sweepVars, sinkVars, dial, lived, left>>

Failure == calm' = FALSE /\ quiet' = 0

\* The controller cannot be reached, or not before MaxSession is up.
OpenFails ==
    /\ session = "opening"
    /\ BackOff
    /\ Failure
    /\ UNCHANGED age

\* MaxSession is up.
SessionCapped ==
    /\ session = "open" /\ MaxSession > 0 /\ left = 0
    /\ BackOff
    /\ UNCHANGED <<age, history>>

\* The agent learns that the connection is lost or the stream refused, or the
\* controller restarts and with it the evidence is gone.
SessionLost ==
    /\ session = "open"
    /\ BackOff
    /\ Failure
    /\ age' \in {age, Oldest + 1}

\* The connection goes dead, or the dial hangs, and nothing tells the agent.
Breaks ==
    /\ session # "pausing" /\ ~broken
    /\ broken' = TRUE
    /\ Failure
    /\ UNCHANGED <<sweepVars, sinkVars, session, dial, lived, left, pause, backoff, age>>

\* An ack that asks for a snapshot.
ResyncAsked ==
    /\ session = "open" /\ ~broken
    /\ need' = TRUE
    /\ UNCHANGED <<sweepVars, snap, sessionVars, age, history>>

-----------------------------------------------------------------------------
(* Time. *)

\* A timer that is due goes off, and a tick that waits is taken, before time goes on.
\* On a broken stream a send may block, and the sweep with it.
Tick ==
    /\ ticker > 0
    /\ sweeping => busy > 0 \/ (session = "open" /\ broken)
    /\ token => sweeping
    /\ session = "pausing" => pause > 0
    /\ session = "opening" => dial > 0 \/ broken
    /\ session # "pausing" => MaxSession = 0 \/ left > 0
    /\ ticker' = ticker - 1
    /\ busy' = Down(busy)
    /\ snap' = UpTo(snap, Refresh)
    /\ dial' = Down(dial)
    /\ lived' = UpTo(lived, Useful + 1)
    /\ left' = Down(left)
    /\ pause' = Down(pause)
    /\ age' = UpTo(age, Oldest + 1)
    /\ quiet' = IF broken THEN 0 ELSE UpTo(quiet, RecoveryTime + 1)
    /\ UNCHANGED <<token, sweeping, need, session, broken, backoff, calm>>

-----------------------------------------------------------------------------
(* Specification. *)

\* Both loops start; the first sweep and the first session begin at once.
Init ==
    /\ ticker = Resync /\ token = FALSE
    /\ sweeping = TRUE /\ busy = Busy
    /\ need = FALSE /\ snap = Refresh
    /\ session = "pausing" /\ broken = FALSE /\ dial = 0
    /\ lived = 0 /\ left = 0 /\ pause = 0 /\ backoff = Second
    /\ age = Oldest + 1
    /\ calm = FALSE /\ quiet = 0

Sweeps ==
    \/ TickerFires \/ SweepOnTick \/ SweepOnEvent
    \/ PublishSnapshot \/ SnapshotUnheard \/ PublishDeltas \/ PublishFails

Sink ==
    \/ SessionStarts \/ Opens \/ OpenFails
    \/ SessionCapped \/ SessionLost \/ Breaks \/ ResyncAsked

Next == Sweeps \/ Sink \/ Tick

Spec == Init /\ [][Next]_vars

-----------------------------------------------------------------------------
(* Properties. *)

\* Every variable stays within its type.
RenewalTypeOK ==
    /\ ticker \in 0..Resync /\ token \in BOOLEAN
    /\ sweeping \in BOOLEAN /\ busy \in 0..Busy
    /\ need \in BOOLEAN /\ snap \in 0..Refresh
    /\ session \in {"pausing", "opening", "open"} /\ broken \in BOOLEAN /\ dial \in 0..Dial
    /\ lived \in 0..(Useful + 1) /\ left \in 0..MaxSession
    /\ pause \in 0..LongestPause /\ backoff \in 1..LongestPause
    /\ age \in 0..(Oldest + 1)
    /\ calm \in BOOLEAN /\ quiet \in 0..(RecoveryTime + 1)

\* Time left until the next Publish at the latest.
UntilPublish == IF sweeping THEN busy ELSE IF token THEN Busy ELSE ticker + Busy

\* The parts of the inductive invariant. With a stream and no snapshot wanted, the
\* evidence is as old as the last snapshot until Refresh has passed, and the
\* Publish that comes next is soon enough.
SteadyBound ==
    calm /\ session = "open" /\ ~need =>
        /\ snap < Refresh => age <= snap
        /\ age + UntilPublish <= SteadyGap

\* A stream that opened in time lasts until its first snapshot is sent.
OutlastsPublish == MaxSession > 0 => UntilPublish < left

WantedBound ==
    calm /\ session = "open" /\ need =>
        \/ age + UntilPublish <= SteadyGap
        \/ age + UntilPublish <= CappedGap /\ OutlastsPublish

CappedBound ==
    /\ calm /\ session = "pausing" => age + pause <= SteadyGap + Second
    /\ calm /\ session = "opening" => age + dial <= SteadyGap + Second + Dial

LivedOrLeft ==
    session = "open" /\ MaxSession > 0 => lived > Useful \/ lived + left >= MaxSession

\* A dial that does not hang leaves the session nearly all of its time.
DialBound ==
    session = "opening" /\ MaxSession > 0 =>
        /\ lived > Useful \/ lived + left >= MaxSession
        /\ ~broken => left >= MaxSession - Dial + dial

BrokenBound == broken => ~calm /\ quiet = 0 /\ session # "pausing"

RecoveringBound ==
    ~calm /\ ~broken =>
        \/ session = "pausing" /\ quiet + pause <= Regrouping
        \/ session = "opening" /\ quiet + dial <= Regrouping + Dial
        \/ /\ session = "open" /\ need
           /\ quiet + UntilPublish <= RecoveryTime
           /\ OutlastsPublish \/ quiet + UntilPublish <= Resync + Busy

RenewalInv ==
    /\ RenewalTypeOK /\ SteadyBound /\ WantedBound /\ CappedBound /\ LivedOrLeft
    /\ DialBound /\ BrokenBound /\ RecoveringBound

\* With nothing failing, evidence is renewed in time, although the agent drops its own
\* stream every MaxSession and has to dial anew, and Refresh is looked at by sweeps
\* only. With a cap, a TTL below CappedGap lets evidence lapse.
RenewedInTime == calm => age <= CappedGap

\* Trouble is over soon after it is over: within RecoveryTime of the last failure
\* the evidence is renewed, however long the trouble and the pauses before.
RecoveryBounded == quiet > RecoveryTime => calm

\* What the comment on --refresh in deploy/agent-daemonset.yaml promises of flags like
\* these: with nothing failing, evidence does not lapse between snapshots.
LeaseHeld == calm => age <= TTL
=============================================================================
