--------------------------- MODULE RenewalProofs ---------------------------
(***************************************************************************)
(* Renewal for every value of the flags: how old evidence gets while       *)
(* nothing fails, and that it is renewed soon after the last failure. What *)
(* the bounds ask of the flags is that a session lasts long enough to be   *)
(* of use.                                                                 *)
(***************************************************************************)
EXTENDS Renewal, TLAPS

USE RenewalAssumption

\* The two halves of RenewalTypeOK: flags and durations.
Flags ==
    /\ token \in BOOLEAN /\ sweeping \in BOOLEAN /\ need \in BOOLEAN
    /\ session \in {"pausing", "opening", "open"} /\ broken \in BOOLEAN /\ calm \in BOOLEAN

Durations ==
    /\ ticker \in 0..Resync /\ busy \in 0..Busy /\ snap \in 0..Refresh
    /\ dial \in 0..Dial /\ lived \in 0..(Useful + 1) /\ left \in 0..MaxSession
    /\ pause \in 0..LongestPause /\ backoff \in 1..LongestPause
    /\ age \in 0..(Oldest + 1) /\ quiet \in 0..(RecoveryTime + 1)

\* The halves make up RenewalTypeOK.
LEMMA Halves == RenewalTypeOK <=> Flags /\ Durations
  BY Zenon DEF RenewalTypeOK, Flags, Durations

\* The bounds that are sums of flags are natural numbers.
LEMMA BoundsAreNat ==
  /\ LongestPause \in Nat /\ Second \in 1..LongestPause
  /\ SteadyGap \in Nat /\ CappedGap \in Nat /\ Oldest \in Nat /\ CappedGap <= Oldest
  /\ Regrouping \in Nat /\ LongestPause <= Regrouping /\ Second + Resync + Busy <= Regrouping
  /\ RecoveryTime \in Nat
  BY DEF LongestPause, SteadyGap, CappedGap, Oldest, Regrouping, RecoveryTime

\* Init satisfies the inductive invariant.
LEMMA RenewalInitInv == Init => RenewalInv
<1> SUFFICES ASSUME Init PROVE RenewalInv
  OBVIOUS
<1>1. RenewalTypeOK
  <2>1. Flags BY Zenon DEF Init, Flags
  <2>2. Durations BY BoundsAreNat DEF Init, Durations
  <2> QED BY <2>1, <2>2, Halves
<1>2. SteadyBound /\ WantedBound /\ CappedBound /\ LivedOrLeft /\ DialBound /\ BrokenBound
  BY DEF Init, SteadyBound, WantedBound, CappedBound, LivedOrLeft, DialBound, BrokenBound
<1>3. RecoveringBound
  BY BoundsAreNat DEF Init, RecoveringBound
<1> QED BY <1>1, <1>2, <1>3 DEF RenewalInv

\* Every step keeps the flags Boolean and the session in one of its phases.
LEMMA FlagsStep == Flags /\ [Next]_vars => Flags'
<1> SUFFICES ASSUME Flags, [Next]_vars PROVE Flags'
  OBVIOUS
<1> USE DEF Flags
<1>1. CASE TickerFires
  BY <1>1, Zenon DEF TickerFires, sinkVars, sessionVars, history
<1>2. CASE SweepOnTick
  BY <1>2, Zenon DEF SweepOnTick, Begin, sinkVars, sessionVars, history
<1>3. CASE SweepOnEvent
  BY <1>3, Zenon DEF SweepOnEvent, Begin, sinkVars, sessionVars, history
<1>4. CASE PublishSnapshot
  BY <1>4, Zenon DEF PublishSnapshot, SnapshotSent, Published, sessionVars
<1>5. CASE SnapshotUnheard
  BY <1>5, Zenon DEF SnapshotUnheard, SnapshotSent, Published, sessionVars, history
<1>6. CASE PublishDeltas
  BY <1>6, Zenon DEF PublishDeltas, Published, sinkVars, sessionVars, history
<1>7. CASE PublishFails
  BY <1>7, Zenon DEF PublishFails, Published, sinkVars, sessionVars, history
<1>8. CASE SessionStarts
  BY <1>8, Zenon DEF SessionStarts, sweepVars, sinkVars, history
<1>9. CASE Opens
  BY <1>9, Zenon DEF Opens, sweepVars, history
<1>10. CASE OpenFails
  BY <1>10, Zenon DEF OpenFails, BackOff, Failure, sweepVars, sinkVars
<1>11. CASE SessionCapped
  BY <1>11, Zenon DEF SessionCapped, BackOff, sweepVars, sinkVars, history
<1>12. CASE SessionLost
  BY <1>12, Zenon DEF SessionLost, BackOff, Failure, sweepVars, sinkVars
<1>13. CASE Breaks
  BY <1>13, Zenon DEF Breaks, Failure, sweepVars, sinkVars
<1>14. CASE ResyncAsked
  BY <1>14, Zenon DEF ResyncAsked, sweepVars, sessionVars, history
<1>15. CASE Tick
  BY <1>15, Zenon DEF Tick
<1>16. CASE UNCHANGED vars
  BY <1>16, Zenon DEF vars, sweepVars, sinkVars, sessionVars, history
<1> QED
  BY <1>1, <1>2, <1>3, <1>4, <1>5, <1>6, <1>7, <1>8, <1>9, <1>10, <1>11, <1>12, <1>13, <1>14,
     <1>15, <1>16
  DEF Next, Sweeps, Sink

\* Every step of the loops and of the clock keeps every duration within its bound.
LEMMA DurationsStep == Durations /\ [Next]_vars => Durations'
<1> SUFFICES ASSUME Durations, [Next]_vars PROVE Durations'
  OBVIOUS
<1> USE DEF Durations
<1>0. LongestPause \in Nat /\ RecoveryTime \in Nat /\ Oldest \in Nat
  BY BoundsAreNat
<1>a. PauseAfter(lived) \in 1..LongestPause /\ Doubled(PauseAfter(lived)) \in 1..LongestPause
  BY DEF PauseAfter, Doubled, LongestPause
<1>1. CASE TickerFires
  BY <1>0, <1>1 DEF TickerFires, sinkVars, sessionVars, history
<1>2. CASE SweepOnTick
  BY <1>0, <1>2 DEF SweepOnTick, Begin, sinkVars, sessionVars, history
<1>3. CASE SweepOnEvent
  BY <1>0, <1>3 DEF SweepOnEvent, Begin, sinkVars, sessionVars, history
<1>4. CASE PublishSnapshot
  BY <1>0, <1>4 DEF PublishSnapshot, SnapshotSent, Published, sessionVars
<1>5. CASE SnapshotUnheard
  BY <1>0, <1>5 DEF SnapshotUnheard, SnapshotSent, Published, sessionVars, history
<1>6. CASE PublishDeltas
  BY <1>0, <1>6 DEF PublishDeltas, Published, sinkVars, sessionVars, history
<1>7. CASE PublishFails
  BY <1>0, <1>7 DEF PublishFails, Published, sinkVars, sessionVars, history
<1>8. CASE SessionStarts
  BY <1>0, <1>8 DEF SessionStarts, sweepVars, sinkVars, history
<1>9. CASE Opens
  BY <1>0, <1>9 DEF Opens, sweepVars, history
<1>10. CASE OpenFails
  BY <1>0, <1>a, <1>10 DEF OpenFails, BackOff, Failure, sweepVars, sinkVars
<1>11. CASE SessionCapped
  BY <1>0, <1>a, <1>11 DEF SessionCapped, BackOff, sweepVars, sinkVars, history
<1>12. CASE SessionLost
  BY <1>0, <1>a, <1>12 DEF SessionLost, BackOff, Failure, sweepVars, sinkVars
<1>13. CASE Breaks
  BY <1>0, <1>13 DEF Breaks, Failure, sweepVars, sinkVars
<1>14. CASE ResyncAsked
  BY <1>0, <1>14 DEF ResyncAsked, sweepVars, sessionVars, history
<1>15. CASE Tick
  BY <1>0, <1>15 DEF Tick, UpTo, Down
<1>16. CASE UNCHANGED vars
  BY <1>16 DEF vars, sweepVars, sinkVars, sessionVars, history
<1> QED
  BY <1>1, <1>2, <1>3, <1>4, <1>5, <1>6, <1>7, <1>8, <1>9, <1>10, <1>11, <1>12, <1>13, <1>14,
     <1>15, <1>16
  DEF Next, Sweeps, Sink

\* Every step keeps every variable within its type.
LEMMA RenewalTypeStep == RenewalTypeOK /\ [Next]_vars => RenewalTypeOK'
<1> SUFFICES ASSUME RenewalTypeOK, [Next]_vars PROVE RenewalTypeOK'
  OBVIOUS
<1>1. Flags /\ Durations BY Halves
<1>2. Flags' /\ Durations' BY <1>1, FlagsStep, DurationsStep
<1>3. RenewalTypeOK' <=> Flags' /\ Durations'
  BY Zenon DEF RenewalTypeOK, Flags, Durations
<1> QED BY <1>2, <1>3

\* A session lasts long enough to open, to be useful and to send a snapshot. The
\* default cap is 300 s; nothing in the code sees to it.
SessionsOutlast == MaxSession > 0 => MaxSession > Useful + Dial + Resync + Busy

\* After a step that ends a session, what there is to wait for is its pause.
LEMMA BackOffStep ==
  ASSUME RenewalInv, RenewalTypeOK', BackOff,
         \/ Failure
         \/ SessionCapped /\ SessionsOutlast
  PROVE  RenewalInv'
<1> USE DEF RenewalInv, BackOff, sweepVars, sinkVars
<1>1. SteadyBound' /\ WantedBound' /\ LivedOrLeft' /\ DialBound' /\ BrokenBound'
  BY Zenon DEF SteadyBound, WantedBound, LivedOrLeft, DialBound, BrokenBound
<1>2. CASE Failure
  <2>1. CappedBound' BY <1>2 DEF Failure, CappedBound
  <2>2. quiet' + pause' <= Regrouping
    <3>1. quiet' = 0 /\ pause' \in 0..LongestPause BY <1>2, Zenon DEF Failure, RenewalTypeOK
    <3>2. \A p \in 0..LongestPause : 0 + p <= Regrouping BY BoundsAreNat
    <3> QED BY <3>1, <3>2, Zenon
  <2>3. RecoveringBound' BY <2>2, Zenon DEF RecoveringBound
  <2> QED BY <1>1, <2>1, <2>3
<1>3. CASE SessionCapped /\ SessionsOutlast
  <2>1. lived > Useful
    BY <1>3 DEF SessionCapped, SessionsOutlast, LivedOrLeft, RenewalTypeOK
  <2>2. pause' = Second BY <2>1 DEF PauseAfter
  <2>3. CappedBound'
    BY <1>3, <2>2, BoundsAreNat
    DEF SessionCapped, history, CappedBound, SteadyBound, WantedBound, OutlastsPublish, UntilPublish,
        RenewalTypeOK
  <2>4. RecoveringBound'
    BY <1>3, <2>2, BoundsAreNat
    DEF SessionCapped, history, RecoveringBound, BrokenBound, OutlastsPublish, UntilPublish,
        RenewalTypeOK
  <2> QED BY <1>1, <2>3, <2>4
<1> QED BY <1>2, <1>3

\* Every step preserves the invariant, when sessions last.
LEMMA RenewalStep ==
  ASSUME SessionsOutlast PROVE RenewalInv /\ [Next]_vars => RenewalInv'
<1> SUFFICES ASSUME RenewalInv, [Next]_vars PROVE RenewalInv'
  OBVIOUS
<1>0. RenewalTypeOK'
  BY RenewalTypeStep DEF RenewalInv
<1>a. CASE OpenFails
  BY <1>a, <1>0, BackOffStep DEF OpenFails
<1>b. CASE SessionCapped
  BY <1>b, <1>0, SessionsOutlast, BackOffStep DEF SessionCapped
<1>c. CASE SessionLost
  BY <1>c, <1>0, BackOffStep DEF SessionLost
<1> USE SessionsOutlast, <1>0, BoundsAreNat
    DEF SessionsOutlast, RenewalInv, RenewalTypeOK, SteadyBound, WantedBound, CappedBound,
        LivedOrLeft, DialBound, BrokenBound, RecoveringBound, OutlastsPublish, UntilPublish,
        RecoveryTime, SteadyGap, CappedGap
<1>1. CASE TickerFires BY <1>1 DEF TickerFires, sinkVars, sessionVars, history
<1>2. CASE SweepOnTick
  BY <1>2 DEF SweepOnTick, Begin, sinkVars, sessionVars, history
<1>3. CASE SweepOnEvent
  BY <1>3 DEF SweepOnEvent, Begin, sinkVars, sessionVars, history
<1>4. CASE PublishSnapshot
  BY <1>4 DEF PublishSnapshot, SnapshotSent, Published, sessionVars
<1>5. CASE SnapshotUnheard
  BY <1>5 DEF SnapshotUnheard, SnapshotSent, Published, sessionVars, history
<1>6. CASE PublishDeltas
  BY <1>6 DEF PublishDeltas, Due, Published, sinkVars, sessionVars, history
<1>7. CASE PublishFails
  BY <1>7 DEF PublishFails, Published, sinkVars, sessionVars, history
<1>8. CASE SessionStarts BY <1>8 DEF SessionStarts, sweepVars, sinkVars, history
<1>9. CASE Opens BY <1>9 DEF Opens, sweepVars, history
<1>10. CASE Breaks BY <1>10 DEF Breaks, Failure, sweepVars, sinkVars
<1>11. CASE ResyncAsked BY <1>11 DEF ResyncAsked, sweepVars, sessionVars, history
<1>12. CASE Tick BY <1>12 DEF Tick, UpTo, Down
<1>13. CASE UNCHANGED vars
  BY <1>13 DEF vars, sweepVars, sinkVars, sessionVars, history
<1> QED
  BY <1>a, <1>b, <1>c, <1>1, <1>2, <1>3, <1>4, <1>5, <1>6, <1>7, <1>8, <1>9, <1>10, <1>11, <1>12,
     <1>13
  DEF Next, Sweeps, Sink

\* The loops and the clock keep every variable within its type.
THEOREM RenewalTypeCorrect == Spec => []RenewalTypeOK
<1>1. Init => RenewalTypeOK BY RenewalInitInv DEF RenewalInv
<1> QED BY <1>1, RenewalTypeStep, PTL DEF Spec

\* Whatever --resync, --refresh, --health-ttl and the times a sweep and a dial take:
\* while nothing fails, evidence is renewed before it is older than CappedGap, also
\* across the end of a session at --max-session.
THEOREM SnapshotsInTime == ASSUME SessionsOutlast PROVE Spec => []RenewedInTime
<1>1. RenewalInv => RenewedInTime
  BY BoundsAreNat
  DEF RenewalInv, RenewalTypeOK, SteadyBound, WantedBound, CappedBound, RenewedInTime, UntilPublish,
      CappedGap
<1> QED BY <1>1, SessionsOutlast, RenewalInitInv, RenewalStep, PTL DEF Spec

\* Whatever the pauses had grown to, dials that hung and streams that went dead: the
\* evidence is renewed within RecoveryTime of the last failure.
THEOREM RecoveryInTime == ASSUME SessionsOutlast PROVE Spec => []RecoveryBounded
<1>1. RenewalInv => RecoveryBounded
  BY BoundsAreNat
  DEF RenewalInv, RenewalTypeOK, RecoveringBound, BrokenBound, RecoveryBounded, UntilPublish,
      RecoveryTime
<1> QED BY <1>1, SessionsOutlast, RenewalInitInv, RenewalStep, PTL DEF Spec
=============================================================================
