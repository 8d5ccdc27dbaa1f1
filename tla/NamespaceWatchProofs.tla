------------------------ MODULE NamespaceWatchProofs ------------------------
(***************************************************************************)
(* NamespaceWatch for any Pods, sandboxes, attachments and channel size:   *)
(* no subscription is left behind, a Pod is watched where it is read, and  *)
(* no change of a watched namespace goes by without a wake-up. At the end, *)
(* what Attachments derives for a sweep: the agent's targets are the       *)
(* controller's attachments on its node, and no primary address is one.    *)
(***************************************************************************)
EXTENDS NamespaceWatch, Attachments, TLAPS

USE NamespaceAssumption

\* The types of what the world, the monitor and the sweep hold, one by one.
WorldType ==
    /\ ready \subseteq created /\ files \subseteq created /\ created \subseteq Path
    /\ link \in [Path -> Reading] /\ wanted \subseteq Pod

MonitorType ==
    /\ cache \in [Pod -> created \cup {NoPath}] /\ watching \in [Pod -> created \cup {NoPath}]
    /\ subs \subseteq Pod \X created /\ fired \subseteq Pod \X created
    /\ events \in 0..EventCap

SweepType ==
    /\ phase \in {"idle", "sweep", "stopped"}
    /\ todo \subseteq Attachment /\ cur \in Attachment \cup {NoAttachment}
    /\ handles \in [Pod -> created \cup {NoPath}]
    /\ inspected \in [Pod -> Reading \cup {NoReading}]
    /\ locals \in [Attachment -> Reading \cup {NoReading}]
    /\ reported \in [Attachment -> Reading \cup {NoReading}]

\* The parts make up NamespaceTypeOK.
LEMMA TypeParts == NamespaceTypeOK <=> WorldType /\ MonitorType /\ SweepType
  BY DEF NamespaceTypeOK, WorldType, MonitorType, SweepType

\* What Resolve does, with the path it finds named.
LEMMA ResolveFinds ==
  ASSUME NEW a \in Attachment, Resolve(a)
  PROVE  \E q \in files :
            /\ phase = "sweep" /\ cur = NoAttachment /\ a \in todo
            /\ handles[HostOf[a]] = NoPath
            /\ cache' = [cache EXCEPT ![HostOf[a]] = q]
            /\ handles' = [handles EXCEPT ![HostOf[a]] = q]
            /\ Ensured(HostOf[a], q) \/ EnsureFailed(HostOf[a], q)
            /\ cur' = a
            /\ UNCHANGED <<world, fired, events, phase, todo, inspected, locals, reported>>
<1> DEFINE q == IF Usable(HostOf[a]) THEN cache[HostOf[a]] ELSE Newest(HostOf[a])
<1>1. q \in files
  BY DEF Resolve, Usable
<1> QED BY <1>1 DEF Resolve, Turn, Known

\* The world changes within its types.
LEMMA WorldTypeStep == WorldType /\ [Next]_vars => WorldType'
<1> SUFFICES ASSUME WorldType, [Next]_vars PROVE WorldType'
  OBVIOUS
<1> USE DEF WorldType
<1>1. ASSUME NEW q \in Path, SandboxReady(q) PROVE WorldType'
  BY <1>1 DEF SandboxReady
<1>2. ASSUME NEW q \in Path, SandboxStops(q) PROVE WorldType'
  BY <1>2 DEF SandboxStops
<1>3. ASSUME NEW q \in Path, FileRemoved(q) PROVE WorldType'
  BY <1>3 DEF FileRemoved
<1>4. ASSUME NEW q \in Path, LinkChanges(q) PROVE WorldType'
  <2>1. \E r \in Reading : r # link[q]
    BY DEF Reading
  <2>2. (CHOOSE r \in Reading : r # link[q]) \in Reading
    BY <2>1
  <2> QED BY <1>4, <2>2 DEF LinkChanges
<1>5. ASSUME NEW p \in Pod, WantedChanges(p) PROVE WorldType'
  BY <1>5 DEF WantedChanges
<1>6. CASE Pumps
  BY <1>6 DEF Pumps, PumpWakes, PumpDrops, SubscriptionDies, world
<1>7. ASSUME NEW a \in Attachment, Resolve(a) PROVE UNCHANGED world
  BY <1>7, ResolveFinds
<1>8. CASE Sweeps
  BY <1>7, <1>8 DEF Sweeps, SweepOnTick, SweepOnEvent, Begin, ResolveFails, Reuse, Inspect,
     InspectFails, SweepEnds, world
<1>9. CASE Stop BY <1>9 DEF Stop, world
<1>10. CASE UNCHANGED vars BY <1>10 DEF vars, world
<1> QED BY <1>1, <1>2, <1>3, <1>4, <1>5, <1>6, <1>8, <1>9, <1>10 DEF Next, World

\* The cache, the subscriptions and the wake-ups stay within their types.
LEMMA MonitorTypeStep == WorldType /\ MonitorType /\ [Next]_vars => MonitorType'
<1> SUFFICES ASSUME WorldType, MonitorType, [Next]_vars PROVE MonitorType'
  OBVIOUS
<1> USE DEF MonitorType
<1>1. ASSUME NEW q \in Path,
             SandboxReady(q) \/ SandboxStops(q) \/ FileRemoved(q) \/ LinkChanges(q)
      PROVE  MonitorType'
  BY <1>1 DEF SandboxReady, SandboxStops, FileRemoved, LinkChanges, monitor, world
<1>2. ASSUME NEW p \in Pod, WantedChanges(p) PROVE MonitorType'
  BY <1>2 DEF WantedChanges, monitor, world
<1>3. ASSUME NEW s \in Pod \X Path, PumpWakes(s) PROVE MonitorType'
  <2>1. events' \in 0..EventCap
    BY <1>3 DEF PumpWakes, Woken
  <2> QED BY <1>3, <2>1 DEF PumpWakes, monitor, world
<1>4. ASSUME NEW s \in Pod \X Path, PumpDrops(s) \/ SubscriptionDies(s) PROVE MonitorType'
  BY <1>4 DEF PumpDrops, SubscriptionDies, monitor, world
<1>5. CASE SweepOnTick BY <1>5 DEF SweepOnTick, Begin, monitor, world
<1>6. CASE SweepOnEvent BY <1>6 DEF SweepOnEvent, Begin, monitor, world
<1>7. ASSUME NEW a \in Attachment, Resolve(a) PROVE MonitorType'
  <2>1. PICK q \in files :
            /\ cache' = [cache EXCEPT ![HostOf[a]] = q]
            /\ Ensured(HostOf[a], q) \/ EnsureFailed(HostOf[a], q)
            /\ UNCHANGED <<world, fired, events>>
    BY <1>7, ResolveFinds
  <2>2. q \in created /\ created' = created /\ HostOf[a] \in Pod
    BY <2>1 DEF WorldType, world
  <2>3. subs' \subseteq Pod \X created
    BY <2>1, <2>2 DEF Ensured, EnsureFailed, Closed
  <2>4. watching' \in [Pod -> created \cup {NoPath}]
    BY <2>1, <2>2 DEF Ensured, EnsureFailed
  <2> QED BY <2>1, <2>2, <2>3, <2>4
<1>8. ASSUME NEW a \in Attachment, ResolveFails(a) PROVE MonitorType'
  BY <1>8 DEF ResolveFails, monitor, world
<1>9. ASSUME NEW a \in Attachment, Reuse(a) PROVE MonitorType'
  BY <1>9 DEF Reuse, monitor, world
<1>10. CASE Inspect \/ InspectFails BY <1>10 DEF Inspect, InspectFails, monitor, world
<1>11. CASE SweepEnds BY <1>11 DEF SweepEnds, world
<1>12. CASE Stop BY <1>12 DEF Stop, None, world
<1>13. CASE UNCHANGED vars BY <1>13 DEF vars, monitor, world
<1> QED
  BY <1>1, <1>2, <1>3, <1>4, <1>5, <1>6, <1>7, <1>8, <1>9, <1>10, <1>11, <1>12, <1>13
  DEF Next, World, Pumps, Sweeps

\* A sweep's local state stays within its types.
LEMMA SweepTypeStep == WorldType /\ MonitorType /\ SweepType /\ [Next]_vars => SweepType'
<1> SUFFICES ASSUME WorldType, MonitorType, SweepType, [Next]_vars PROVE SweepType'
  OBVIOUS
<1> USE DEF SweepType
<1>1. CASE World
  BY <1>1 DEF World, SandboxReady, SandboxStops, FileRemoved, LinkChanges, WantedChanges, sweepVars
<1>2. CASE Pumps
  BY <1>2 DEF Pumps, PumpWakes, PumpDrops, SubscriptionDies, sweepVars, world
<1>3. CASE Begin BY <1>3 DEF Begin, world
<1>4. ASSUME NEW a \in Attachment, Resolve(a) PROVE SweepType'
  BY <1>4, ResolveFinds DEF WorldType, world
<1>5. ASSUME NEW a \in Attachment, ResolveFails(a) PROVE SweepType'
  BY <1>5 DEF ResolveFails, Turn, world
<1>6. ASSUME NEW a \in Attachment, Reuse(a) PROVE SweepType'
  BY <1>6 DEF Reuse, Turn, world
<1>7. CASE Inspect
  <2> DEFINE p == HostOf[cur]
             r == IF inspected[p] # NoReading THEN inspected[p] ELSE link[handles[p]]
  <2>1. cur \in Attachment /\ p \in Pod /\ r \in Reading
    BY <1>7 DEF Inspect, WorldType, MonitorType
  <2>2. /\ inspected' = [inspected EXCEPT ![p] = r] /\ locals' = [locals EXCEPT ![cur] = r]
        /\ todo' = todo \ {cur} /\ cur' = NoAttachment
        /\ UNCHANGED <<phase, handles, reported, created>>
    BY <1>7 DEF Inspect, world
  <2> HIDE DEF p, r
  <2> QED BY <2>1, <2>2
<1>8. CASE InspectFails BY <1>8 DEF InspectFails, world
<1>9. CASE SweepEnds BY <1>9 DEF SweepEnds, None, Unread, Unreported, world
<1>10. CASE Stop BY <1>10 DEF Stop, world
<1>11. CASE UNCHANGED vars BY <1>11 DEF vars, sweepVars, world
<1> QED
  BY <1>1, <1>2, <1>3, <1>4, <1>5, <1>6, <1>7, <1>8, <1>9, <1>10, <1>11
  DEF Next, Sweeps, SweepOnTick, SweepOnEvent

\* The agent keeps every variable within its type, for any channel size.
THEOREM NamespaceTypeCorrect == Spec => []NamespaceTypeOK
<1>1. Init => NamespaceTypeOK
  BY DEF Init, NamespaceTypeOK, None, Unread, Unreported, Reading
<1>2. NamespaceTypeOK /\ [Next]_vars => NamespaceTypeOK'
  <2> SUFFICES ASSUME NamespaceTypeOK, [Next]_vars PROVE NamespaceTypeOK'
    OBVIOUS
  <2>1. WorldType' /\ MonitorType' /\ SweepType'
    BY TypeParts, WorldTypeStep, MonitorTypeStep, SweepTypeStep
  <2> QED BY <2>1 DEF NamespaceTypeOK, WorldType, MonitorType, SweepType
<1> QED BY <1>1, <1>2, PTL DEF Spec

-----------------------------------------------------------------------------
(* Subscriptions. *)

\* Subscribing, forgetting and closing leave no subscription without its entry.
LEMMA NoneLeftBehindStep ==
  WorldType /\ MonitorType /\ NoneLeftBehind /\ [Next]_vars => NoneLeftBehind'
<1> SUFFICES ASSUME WorldType, MonitorType, NoneLeftBehind, [Next]_vars PROVE NoneLeftBehind'
  OBVIOUS
<1> USE DEF NoneLeftBehind, MonitorType
<1>1. CASE World
  BY <1>1 DEF World, SandboxReady, SandboxStops, FileRemoved, LinkChanges, WantedChanges, monitor
<1>2. CASE Pumps
  BY <1>2 DEF Pumps, PumpWakes, PumpDrops, SubscriptionDies, monitor
<1>3. CASE Begin BY <1>3 DEF Begin, monitor
<1>4. ASSUME NEW a \in Attachment, Resolve(a) PROVE NoneLeftBehind'
  <2>1. PICK q \in files : Ensured(HostOf[a], q) \/ EnsureFailed(HostOf[a], q)
    BY <1>4, ResolveFinds
  <2>2. q \in Path /\ HostOf[a] \in Pod
    BY DEF WorldType
  <2>3. \A s \in subs : s[1] = HostOf[a] => s = <<HostOf[a], watching[HostOf[a]]>>
    OBVIOUS
  <2> QED BY <2>1, <2>2, <2>3 DEF Ensured, EnsureFailed, Closed
<1>5. ASSUME NEW a \in Attachment, ResolveFails(a) \/ Reuse(a) PROVE NoneLeftBehind'
  BY <1>5 DEF ResolveFails, Reuse, monitor
<1>6. CASE Inspect \/ InspectFails BY <1>6 DEF Inspect, InspectFails, monitor
<1>7. CASE SweepEnds
  <2>1. \A s \in subs : s = <<s[1], watching[s[1]]>> /\ s[1] \in Pod
    OBVIOUS
  <2>2. \A s \in subs' : s \in subs /\ s[1] \notin Forgotten
    BY <1>7, <2>1 DEF SweepEnds, Closed
  <2> QED BY <1>7, <2>1, <2>2 DEF SweepEnds
<1>8. CASE Stop
  <2>1. \A s \in subs : s = <<s[1], watching[s[1]]>>
    OBVIOUS
  <2> QED BY <1>8, <2>1 DEF Stop, Closed
<1>9. CASE UNCHANGED vars BY <1>9 DEF vars, monitor
<1> QED
  BY <1>1, <1>2, <1>3, <1>4, <1>5, <1>6, <1>7, <1>8, <1>9
  DEF Next, Sweeps, SweepOnTick, SweepOnEvent

\* No subscription that runs is unknown to Monitor.watching, whatever fails.
THEOREM NoSubscriptionLeaks == Spec => []NoneLeftBehind
<1>1. Init => NoneLeftBehind BY DEF Init, NoneLeftBehind
<1>2. NamespaceTypeOK /\ NoneLeftBehind /\ [Next]_vars => NoneLeftBehind'
  BY TypeParts, NoneLeftBehindStep
<1> QED BY <1>1, <1>2, NamespaceTypeCorrect, PTL DEF Spec

-----------------------------------------------------------------------------
(* Where Pods are read and watched. *)

\* A sweep's bookkeeping: which Pods are resolved, where, and what was read there.
Bookkeeping == WatchedWhereRead /\ BetweenSweeps /\ HandlesFit /\ ReadingsFit

\* A sweep keeps the cache, the subscriptions and its readings together.
LEMMA BookkeepingStep ==
  WorldType /\ MonitorType /\ SweepType /\ Bookkeeping /\ [Next]_vars => Bookkeeping'
<1> SUFFICES ASSUME WorldType, MonitorType, SweepType, Bookkeeping, [Next]_vars
             PROVE  Bookkeeping'
  OBVIOUS
<1> USE DEF Bookkeeping, WatchedWhereRead, BetweenSweeps, HandlesFit, ReadingsFit
<1>1. CASE World
  BY <1>1 DEF World, SandboxReady, SandboxStops, FileRemoved, LinkChanges, WantedChanges,
     monitor, sweepVars
<1>2. CASE Pumps
  BY <1>2 DEF Pumps, PumpWakes, PumpDrops, SubscriptionDies, monitor, sweepVars
<1>3. CASE Begin BY <1>3 DEF Begin, monitor
<1>4. ASSUME NEW a \in Attachment, Resolve(a) PROVE Bookkeeping'
  <2>1. PICK q \in files :
            /\ phase = "sweep" /\ handles[HostOf[a]] = NoPath
            /\ cache' = [cache EXCEPT ![HostOf[a]] = q]
            /\ handles' = [handles EXCEPT ![HostOf[a]] = q]
            /\ Ensured(HostOf[a], q) \/ EnsureFailed(HostOf[a], q)
            /\ cur' = a
            /\ UNCHANGED <<phase, inspected, locals>>
    BY <1>4, ResolveFinds
  <2>2. q \in Path /\ q # NoPath /\ HostOf[a] \in Pod /\ a # NoAttachment
    BY DEF WorldType
  <2>3. /\ watching'[HostOf[a]] \in {q, NoPath}
        /\ \A p \in Pod : p # HostOf[a] => watching'[p] = watching[p]
    BY <2>1, <2>2 DEF Ensured, EnsureFailed, MonitorType
  <2>4. WatchedWhereRead' /\ BetweenSweeps' BY <2>1
  <2>5. HandlesFit' BY <2>1, <2>2, <2>3 DEF SweepType, MonitorType
  <2>6. ReadingsFit' BY <2>1, <2>2 DEF SweepType
  <2> QED BY <2>4, <2>5, <2>6
<1>5. ASSUME NEW a \in Attachment, ResolveFails(a) PROVE Bookkeeping'
  <2>1. HostOf[a] \in Pod /\ handles[HostOf[a]] = NoPath /\ phase = "sweep"
    BY <1>5 DEF ResolveFails, Turn, Known
  <2>2. HandlesFit'
    BY <1>5, <2>1 DEF ResolveFails, MonitorType, monitor
  <2> QED BY <1>5, <2>1, <2>2 DEF ResolveFails, monitor
<1>6. ASSUME NEW a \in Attachment, Reuse(a) PROVE Bookkeeping'
  <2>1. phase = "sweep" /\ handles[HostOf[a]] # NoPath
    BY <1>6 DEF Reuse, Turn, Known
  <2> QED BY <1>6, <2>1 DEF Reuse, monitor
<1>7. CASE Inspect
  <2> DEFINE p == HostOf[cur]
             r == IF inspected[p] # NoReading THEN inspected[p] ELSE link[handles[p]]
  <2>1. cur \in Attachment /\ p \in Pod /\ phase = "sweep" /\ handles[p] # NoPath
    BY <1>7 DEF Inspect, SweepType
  <2>2. /\ inspected' = [inspected EXCEPT ![p] = r] /\ locals' = [locals EXCEPT ![cur] = r]
        /\ cur' = NoAttachment
        /\ UNCHANGED <<cache, watching, phase, handles>>
    BY <1>7 DEF Inspect, monitor
  <2>3. inspected[p] # NoReading => r = inspected[p] OBVIOUS
  <2> HIDE DEF p, r
  <2>4. WatchedWhereRead' /\ BetweenSweeps' /\ HandlesFit' BY <2>1, <2>2
  <2>5. ReadingsFit'
    <3>1. \A x \in Pod : inspected'[x] # NoReading => handles'[x] # NoPath
      BY <2>1, <2>2 DEF SweepType
    <3>2. ASSUME NEW x \in Attachment, locals'[x] # NoReading
          PROVE  locals'[x] = inspected'[HostOf[x]]
      <4>1. CASE x = cur BY <2>1, <2>2, <4>1 DEF SweepType, p
      <4>2. CASE x # cur /\ HostOf[x] = p
        BY <2>1, <2>2, <2>3, <3>2, <4>2 DEF SweepType
      <4>3. CASE HostOf[x] # p
        BY <2>1, <2>2, <3>2, <4>3 DEF SweepType, p
      <4> QED BY <4>1, <4>2, <4>3
    <3> QED BY <3>1, <3>2
  <2> QED BY <2>4, <2>5
<1>8. CASE InspectFails BY <1>8 DEF InspectFails, monitor
<1>9. CASE SweepEnds
  <2>1. WatchedWhereRead'
    BY <1>9 DEF SweepEnds, Forgotten, MonitorType
  <2> QED BY <1>9, <2>1 DEF SweepEnds, None, Unread, Unreported
<1>10. CASE Stop BY <1>10 DEF Stop, None
<1>11. CASE UNCHANGED vars BY <1>11 DEF vars, monitor, sweepVars
<1> QED
  BY <1>1, <1>2, <1>3, <1>4, <1>5, <1>6, <1>7, <1>8, <1>9, <1>10, <1>11
  DEF Next, Sweeps, SweepOnTick, SweepOnEvent

-----------------------------------------------------------------------------
(* Wake-ups. *)

Wakeful == ReadingsNoticed /\ ReportsNoticed

\* Every step keeps what was read right or a wake-up on its way.
LEMMA WakefulStep ==
  WorldType /\ MonitorType /\ SweepType /\ NoneLeftBehind /\ Bookkeeping /\ Wakeful /\ [Next]_vars
     => Wakeful'
<1> SUFFICES ASSUME WorldType, MonitorType, SweepType, NoneLeftBehind, Bookkeeping, Wakeful,
                    [Next]_vars
             PROVE  Wakeful'
  OBVIOUS
<1> USE DEF Wakeful, ReadingsNoticed, ReportsNoticed, Noticed
<1>1. ASSUME NEW q \in Path, SandboxReady(q) \/ SandboxStops(q) \/ FileRemoved(q)
      PROVE  Wakeful'
  BY <1>1 DEF SandboxReady, SandboxStops, FileRemoved, monitor, sweepVars
<1>2. ASSUME NEW q \in Path, LinkChanges(q) PROVE Wakeful'
  <2>1. \A x \in Path : x # q => link'[x] = link[x]
    BY <1>2 DEF LinkChanges, WorldType
  <2>2. \A s \in subs : s \in Pod \X Path /\ (s[2] = q => s \in fired')
    BY <1>2 DEF LinkChanges, MonitorType, WorldType
  <2>3. /\ fired \subseteq fired'
        /\ UNCHANGED <<watching, subs, events, phase, inspected, reported>>
    BY <1>2 DEF LinkChanges, monitor, sweepVars
  <2>4. ASSUME NEW p \in Pod, NEW r, Noticed(p, r) PROVE Noticed(p, r)'
    BY <2>1, <2>2, <2>3, <2>4
  <2> QED BY <2>3, <2>4
<1>3. ASSUME NEW p \in Pod, WantedChanges(p) PROVE Wakeful'
  BY <1>3 DEF WantedChanges, monitor, sweepVars
<1>4. ASSUME NEW s \in Pod \X Path, PumpWakes(s) PROVE Wakeful'
  <2>1. events' > 0
    BY <1>4 DEF PumpWakes, Woken, MonitorType
  <2> QED BY <1>4, <2>1 DEF PumpWakes, monitor, sweepVars
<1>5. ASSUME NEW s \in Pod \X Path, PumpDrops(s) PROVE Wakeful'
  BY <1>5 DEF PumpDrops, world, monitor, sweepVars
<1>6. ASSUME NEW s \in Pod \X Path, SubscriptionDies(s) PROVE Wakeful'
  BY <1>6 DEF SubscriptionDies, world, sweepVars
<1>7. CASE Begin
  <2>1. \A p \in Pod : inspected'[p] = NoReading
    BY <1>7 DEF Begin, Bookkeeping, BetweenSweeps, Unread
  <2> QED BY <1>7, <2>1 DEF Begin
<1>8. ASSUME NEW a \in Attachment, Resolve(a) PROVE Wakeful'
  <2>1. PICK q \in files :
            /\ phase = "sweep" /\ handles[HostOf[a]] = NoPath
            /\ Ensured(HostOf[a], q) \/ EnsureFailed(HostOf[a], q)
            /\ UNCHANGED <<world, fired, events, phase, inspected>>
    BY <1>8, ResolveFinds
  <2>2. inspected[HostOf[a]] = NoReading /\ HostOf[a] \in Pod
    BY <2>1 DEF Bookkeeping, ReadingsFit
  <2>3. \A p \in Pod : p # HostOf[a] =>
            watching'[p] = watching[p] /\ (<<p, watching[p]>> \in subs' => <<p, watching[p]>> \in subs)
    BY <2>1, <2>2 DEF Ensured, EnsureFailed, Closed, MonitorType
  <2> QED BY <2>1, <2>2, <2>3 DEF world
<1>9. ASSUME NEW a \in Attachment, ResolveFails(a) \/ Reuse(a) PROVE Wakeful'
  BY <1>9 DEF ResolveFails, Reuse, Turn, world, monitor
<1>10. CASE Inspect
  <2> DEFINE p == HostOf[cur]
             r == IF inspected[p] # NoReading THEN inspected[p] ELSE link[handles[p]]
  <2>1. cur \in Attachment /\ p \in Pod /\ phase = "sweep" /\ handles[p] # NoPath
    BY <1>10 DEF Inspect, SweepType, Bookkeeping, HandlesFit, BetweenSweeps
  <2>2. /\ inspected' = [inspected EXCEPT ![p] = r]
        /\ UNCHANGED <<link, watching, subs, fired, events, phase>>
    BY <1>10 DEF Inspect, world, monitor
  <2>3. Noticed(p, r)
    <3>1. CASE inspected[p] # NoReading BY <2>1, <3>1
    <3>2. CASE inspected[p] = NoReading
      <4>1. <<p, watching[p]>> \in subs => watching[p] = handles[p]
        BY <2>1 DEF Bookkeeping, HandlesFit, MonitorType, WorldType
      <4> QED BY <3>2, <4>1
    <3> QED BY <3>1, <3>2
  <2> HIDE DEF p, r
  <2> QED BY <2>1, <2>2, <2>3 DEF SweepType
<1>11. CASE InspectFails
  BY <1>11 DEF InspectFails, world, monitor, Bookkeeping, BetweenSweeps
<1>12. CASE SweepEnds
  <2>1. \A p \in Pod : inspected'[p] = NoReading
    BY <1>12 DEF SweepEnds, Unread
  <2>2. ASSUME NEW a \in Attachment, reported'[a] # NoReading
        PROVE  Noticed(HostOf[a], reported[a])'
    <3> DEFINE p == HostOf[a]
    <3>1. p \in Pod /\ inspected[p] = reported'[a] /\ handles[p] # NoPath
      BY <1>12, <2>2 DEF SweepEnds, Bookkeeping, ReadingsFit
    <3>2. watching'[p] = watching[p]
      BY <1>12, <3>1 DEF SweepEnds, Forgotten
    <3>3. subs' \subseteq subs /\ UNCHANGED <<link, fired, events>>
      BY <1>12 DEF SweepEnds, world
    <3>4. Noticed(p, inspected[p]) BY <2>2, <3>1
    <3> QED BY <3>1, <3>2, <3>3, <3>4
  <2> QED BY <2>1, <2>2
<1>13. CASE Stop
  BY <1>13 DEF Stop, Bookkeeping, BetweenSweeps, Unread
<1>14. CASE UNCHANGED vars BY <1>14 DEF vars, world, monitor, sweepVars
<1> QED
  BY <1>1, <1>2, <1>3, <1>4, <1>5, <1>6, <1>7, <1>8, <1>9, <1>10, <1>11, <1>12, <1>13, <1>14
  DEF Next, World, Pumps, Sweeps, SweepOnTick, SweepOnEvent

\* The inductive invariant holds in every state.
LEMMA NamespaceInvHolds == Spec => [](NamespaceTypeOK /\ NamespaceInv)
<1>1. Init => NamespaceInv
  BY DEF Init, NamespaceInv, NoneLeftBehind, WatchedWhereRead, BetweenSweeps, HandlesFit,
     ReadingsFit, ReadingsNoticed, ReportsNoticed, None, Unread, Unreported
<1>2. NamespaceTypeOK /\ NamespaceInv /\ [Next]_vars => NamespaceInv'
  <2> SUFFICES ASSUME NamespaceTypeOK, NamespaceInv, [Next]_vars PROVE NamespaceInv'
    OBVIOUS
  <2>1. NoneLeftBehind' /\ Bookkeeping' /\ Wakeful'
    BY TypeParts, NoneLeftBehindStep, BookkeepingStep, WakefulStep
    DEF NamespaceInv, Bookkeeping, Wakeful
  <2> QED BY <2>1 DEF NamespaceInv, Bookkeeping, Wakeful
<1> QED BY <1>1, <1>2, NamespaceTypeCorrect, PTL DEF Spec

\* Between sweeps every Pod is watched where the next sweep reads it, or not at all.
THEOREM WatchesFollowCache == Spec => []WatchedWhereRead
  BY NamespaceInvHolds, PTL DEF NamespaceInv

\* No change of a watched namespace is missed, for any number of Pods and however
\* small the channel: wake-ups that are coalesced or dropped are never the last.
THEOREM NoChangeMissed == Spec => []NoMissedChange
<1>1. NamespaceTypeOK /\ NamespaceInv => NoMissedChange
  <2> SUFFICES ASSUME NamespaceTypeOK, NamespaceInv, phase = "idle", events = 0, fired = {},
                      NEW a \in Attachment,
                      <<HostOf[a], watching[HostOf[a]]>> \in subs, reported[a] # NoReading
               PROVE  reported[a] = link[watching[HostOf[a]]]
    BY DEF NoMissedChange
  <2> QED BY DEF NamespaceInv, ReportsNoticed, Noticed
<1> QED BY <1>1, NamespaceInvHolds, PTL

-----------------------------------------------------------------------------
(* What a sweep is about: the attachments Agent.targets derives are those the controller *)
(* derives, and no primary address is among them, for any Services and Pods.             *)

\* An attachment is of its Pod's node.
LEMMA NodeOfAttachment ==
  ASSUME NEW pod, NEW nad, NEW a \in FromPod(pod, nad)
  PROVE  a.node = pod.node
  BY DEF FromPod, AttachmentOf

\* Agent.targets on a node's Pods yields what Reconcile discovers on that node, for
\* any Services and Pods.
THEOREM AgentAndControllerAgree ==
  ASSUME NEW svcs, NEW pods, NEW node
  PROVE  AgentCoversNode(svcs, pods, node)
<1> DEFINE agent == Targets(svcs, Cached(pods, node))
           published == UNION {Discovered(svc, pods) : svc \in svcs}
<1>1. ASSUME NEW a \in agent PROVE a \in published /\ a.node = node
  <2>1. PICK svc \in svcs : Published(svc) /\ a \in TargetsOf(svc, Cached(pods, node))
    BY <1>1 DEF Targets
  <2>2. PICK pod \in Cached(pods, node) :
            /\ pod.namespace = svc.namespace /\ Eligible(pod) /\ Matches(svc, pod)
            /\ a \in FromPod(pod, NAD(svc))
    BY <2>1 DEF TargetsOf
  <2>3. pod \in pods /\ pod.node = node
    BY DEF Cached
  <2>4. a \in Discovered(svc, pods)
    BY <2>1, <2>2, <2>3 DEF Discovered, Listed
  <2>5. a.node = node
    BY <2>2, <2>3, NodeOfAttachment
  <2> QED BY <2>4, <2>5
<1>2. ASSUME NEW a \in published, a.node = node PROVE a \in agent
  <2>1. PICK svc \in svcs : a \in Discovered(svc, pods)
    OBVIOUS
  <2>2. Published(svc)
    BY <2>1 DEF Discovered
  <2>3. PICK pod \in pods :
            /\ pod.namespace = svc.namespace /\ Matches(svc, pod) /\ Eligible(pod)
            /\ a \in FromPod(pod, NAD(svc))
    BY <2>1, <2>2 DEF Discovered, Listed
  <2>4. pod \in Cached(pods, node)
    BY <1>2, <2>3, NodeOfAttachment DEF Cached
  <2>5. a \in TargetsOf(svc, Cached(pods, node))
    BY <2>3, <2>4 DEF TargetsOf
  <2> QED BY <2>2, <2>5 DEF Targets
<1>3. agent = {a \in published : a.node = node}
  BY <1>1, <1>2
<1> QED BY <1>3 DEF AgentCoversNode

\* No address of a Pod is an attachment to a network unless the Pod's only entry for
\* the network that is not the default one carries it.
THEOREM PrimaryNeverPublished ==
  ASSUME NEW pod, NEW nad
  PROVE  NeverPrimary(pod, nad)
<1> SUFFICES ASSUME NEW a \in FromPod(pod, nad)
             PROVE  \E i \in DOMAIN Entries(pod) :
                      /\ ~Entries(pod)[i].default /\ Entries(pod)[i].name = nad
                      /\ a.ip \in Addresses(Entries(pod)[i])
                      /\ a.interface = Entries(pod)[i].interface
                      /\ \A j \in DOMAIN Entries(pod) :
                            ~Entries(pod)[j].default /\ Entries(pod)[j].name = nad => j = i
  BY DEF NeverPrimary
<1> DEFINE list == Entries(pod)
           i == CHOOSE k \in DOMAIN list : Found(list, nad) = {k}
<1>1. Unambiguous(list, nad)
  BY DEF FromPod
<1>2. i \in DOMAIN list /\ Found(list, nad) = {i}
  BY <1>1 DEF Unambiguous
<1>3. PICK ip \in Addresses(list[i]) : a = AttachmentOf(pod, nad, list[i], ip)
  BY <1>1 DEF FromPod, Select
<1>4. a.ip = ip /\ a.interface = list[i].interface
  BY <1>3 DEF AttachmentOf
<1> HIDE DEF i
<1> QED BY <1>2, <1>3, <1>4 DEF Found
=============================================================================
