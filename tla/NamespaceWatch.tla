--------------------------- MODULE NamespaceWatch ---------------------------
(***************************************************************************)
(* How an agent keeps sight of its Pods' network namespaces: the sweep of  *)
(* agent/agent.go over the namespace cache (agent/netns/cache.go, with the *)
(* runtime resolver of containerd.go behind it), the netlink subscriptions *)
(* of local.Monitor (agent/local/watcher.go) and the readings of           *)
(* local.Inspect (agent/local/observe.go).                                 *)
(*                                                                         *)
(* A namespace is its path. A Pod's sandboxes have one each, numbered in   *)
(* the order of their creation; a path does not come back. What is read of *)
(* a namespace is one Boolean, whether its interface is in order.          *)
(***************************************************************************)
EXTENDS Naturals, FiniteSets, FiniteSetsExt

CONSTANTS
    Pod, NoPath,
    Path,        \* of sandboxes: numbers, in the order of creation
    PodOf,       \* the Pod of a path
    Attachment,
    NoAttachment,
    HostOf,      \* the Pod of an attachment
    EventCap     \* the buffer of Monitor.out

ASSUME NamespaceAssumption ==
    /\ Path \subseteq Nat /\ NoPath \notin Path /\ NoAttachment \notin Attachment
    /\ PodOf \in [Path -> Pod]
    /\ HostOf \in [Attachment -> Pod]
    /\ EventCap \in Nat \ {0}

VARIABLES
    created,   \* the paths of all sandboxes so far
    ready,     \* those of sandboxes the runtime lists as ready
    files,     \* those that exist
    link,      \* what there is to read in a namespace
    wanted,    \* Pods of this node that managed Services select
    cache,     \* Cache.m: Pod to path
    watching,  \* Monitor.watching: Pod to path
    subs,      \* running pumps: pairs of Pod and path
    fired,     \* pairs with an update that the pump has not taken
    events,    \* number of wake-ups in Monitor.out
    phase,     \* where Agent.Start is: "idle", "sweep" or "stopped"
    todo,      \* sweep: attachments still to come
    cur,       \* sweep: the attachment about to be inspected
    handles,   \* sweep: Pod to resolved path
    inspected, \* sweep: Pod to reading
    locals,    \* sweep: attachment to report
    reported   \* the reports of the last complete sweep

world == <<created, ready, files, link, wanted>>
monitor == <<watching, subs>>
sweepVars == <<phase, todo, cur, handles, inspected, locals>>
vars == <<world, cache, monitor, fired, events, sweepVars, reported>>

Reading == {"good", "bad"}
NoReading == "none"
None == [p \in Pod |-> NoPath]
Unread == [p \in Pod |-> NoReading]
Unreported == [a \in Attachment |-> NoReading]

-----------------------------------------------------------------------------
(* Sandboxes, interfaces, Pods. *)

SandboxReady(q) ==
    /\ \A r \in created : PodOf[r] = PodOf[q] => r < q
    /\ created' = created \cup {q}
    /\ ready' = ready \cup {q}
    /\ files' = files \cup {q}
    /\ UNCHANGED <<link, wanted, cache, monitor, fired, events, sweepVars, reported>>

SandboxStops(q) ==
    /\ q \in ready
    /\ ready' = ready \ {q}
    /\ UNCHANGED <<created, files, link, wanted, cache, monitor, fired, events, sweepVars, reported>>

FileRemoved(q) ==
    /\ q \in files
    /\ files' = files \ {q}
    /\ UNCHANGED <<created, ready, link, wanted, cache, monitor, fired, events, sweepVars, reported>>

\* A link or an address changes; whoever is subscribed gets an update.
LinkChanges(q) ==
    /\ q \in files
    /\ link' = [link EXCEPT ![q] = CHOOSE r \in Reading : r # link[q]]
    /\ fired' = fired \cup {s \in subs : s[2] = q}
    /\ UNCHANGED <<created, ready, files, wanted, cache, monitor, events, sweepVars, reported>>

WantedChanges(p) ==
    /\ wanted' = IF p \in wanted THEN wanted \ {p} ELSE wanted \cup {p}
    /\ UNCHANGED <<created, ready, files, link, cache, monitor, fired, events, sweepVars, reported>>

-----------------------------------------------------------------------------
(* Monitor.pump. *)

\* Mutant of Woken: the channel has no buffer, so that a wake-up is lost when nobody
\* waits for it.
WokenIfIdle == IF phase = "idle" /\ events < EventCap THEN events + 1 ELSE events

\* wake: a full channel is left as it is.
Woken == IF events < EventCap THEN events + 1 ELSE events

PumpWakes(s) ==
    /\ s \in fired
    /\ fired' = fired \ {s}
    /\ events' = Woken
    /\ UNCHANGED <<world, cache, monitor, sweepVars, reported>>

\* The pump saw its end first.
PumpDrops(s) ==
    /\ s \in fired \ subs
    /\ fired' = fired \ {s}
    /\ UNCHANGED <<world, cache, monitor, events, sweepVars, reported>>

\* Netlink closes the channel after a receive error; Monitor.watching keeps the entry.
SubscriptionDies(s) ==
    /\ s \in subs
    /\ subs' = subs \ {s}
    /\ UNCHANGED <<world, cache, watching, fired, events, sweepVars, reported>>

-----------------------------------------------------------------------------
(* Agent.Start and sweep. *)

Begin ==
    /\ phase = "idle"
    /\ phase' = "sweep"
    /\ todo' = {a \in Attachment : HostOf[a] \in wanted}
    /\ UNCHANGED <<world, cache, monitor, fired, cur, handles, inspected, locals, reported>>

SweepOnTick == Begin /\ UNCHANGED events

\* The rest of a burst is drained.
SweepOnEvent == Begin /\ events > 0 /\ events' = 0

\* The sweep turns to an attachment.
Turn(a) == phase = "sweep" /\ cur = NoAttachment /\ a \in todo

\* Its Pod has been resolved in this sweep.
Known(a) == handles[HostOf[a]] # NoPath

\* CRIResolver: the newest sandbox that is ready.
Ready(p) == {q \in ready : PodOf[q] = p}
Newest(p) == IF Ready(p) = {} THEN NoPath ELSE Max(Ready(p))

\* Mutant of Usable: the namespace of a cached handle is taken to be there.
UsableForEver(p) == cache[p] # NoPath

\* The cached handle of a Pod whose namespace is still there.
Usable(p) == cache[p] \in files

\* Cache.Resolve fails: the runtime knows no sandbox, its namespace is not there, or
\* the call fails.
ResolveFails(a) ==
    /\ Turn(a) /\ ~Known(a)
    /\ ~Usable(HostOf[a])
    /\ cache' = [cache EXCEPT ![HostOf[a]] = NoPath]
    /\ todo' = todo \ {a}
    /\ UNCHANGED <<world, monitor, fired, events, phase, cur, handles, inspected, locals, reported>>

\* Mutant of Closed: a subscription is taken out of the map and not closed.
StillOpen(p) == subs

\* The subscriptions without the one that Monitor.watching has for p.
Closed(p) == subs \ {<<p, watching[p]>>}

\* Mutant of Ensured: a Pod that is watched stays watched where it is.
EnsuredOnce(p, q) ==
    /\ watching' = [watching EXCEPT ![p] = IF @ = NoPath THEN q ELSE @]
    /\ subs' = IF watching[p] = NoPath THEN subs \cup {<<p, q>>} ELSE subs

\* Monitor.Ensure leaves a subscription to the same path alone; otherwise it closes
\* the one there is and subscribes.
Ensured(p, q) ==
    /\ watching' = [watching EXCEPT ![p] = q]
    /\ subs' = IF watching[p] = q THEN subs ELSE Closed(p) \cup {<<p, q>>}

EnsureFailed(p, q) ==
    /\ watching[p] # q
    /\ watching' = [watching EXCEPT ![p] = NoPath]
    /\ subs' = Closed(p)

\* Mutant of Resolve: the runtime's answer is used although it is an error.
ResolveUnchecked(a) ==
    LET p == HostOf[a]
        q == IF Usable(p) THEN cache[p] ELSE Newest(p)
    IN  /\ Turn(a) /\ ~Known(a)
        /\ cache' = [cache EXCEPT ![p] = q]
        /\ handles' = [handles EXCEPT ![p] = q]
        /\ Ensured(p, q) \/ EnsureFailed(p, q)
        /\ cur' = a
        /\ UNCHANGED <<world, fired, events, phase, todo, inspected, locals, reported>>

\* Resolve, then Ensure, then on to Inspect.
Resolve(a) ==
    LET p == HostOf[a]
        q == IF Usable(p) THEN cache[p] ELSE Newest(p)
    IN  /\ Turn(a) /\ ~Known(a)
        /\ q # NoPath
        /\ Usable(p) \/ q \in files
        /\ cache' = [cache EXCEPT ![p] = q]
        /\ handles' = [handles EXCEPT ![p] = q]
        /\ Ensured(p, q) \/ EnsureFailed(p, q)
        /\ cur' = a
        /\ UNCHANGED <<world, fired, events, phase, todo, inspected, locals, reported>>

\* The next attachment of a Pod that is resolved.
Reuse(a) ==
    /\ Turn(a) /\ Known(a)
    /\ cur' = a
    /\ UNCHANGED <<world, cache, monitor, fired, events, phase, todo, handles, inspected, locals, reported>>

\* One reading serves all attachments of the interface.
Inspect ==
    LET p == HostOf[cur]
        r == IF inspected[p] # NoReading THEN inspected[p] ELSE link[handles[p]]
    IN  /\ cur # NoAttachment
        /\ inspected[p] # NoReading \/ handles[p] \in files
        /\ inspected' = [inspected EXCEPT ![p] = r]
        /\ locals' = [locals EXCEPT ![cur] = r]
        /\ todo' = todo \ {cur}
        /\ cur' = NoAttachment
        /\ UNCHANGED <<world, cache, monitor, fired, events, phase, handles, reported>>

\* The namespace is gone, or netlink fails.
InspectFails ==
    /\ cur # NoAttachment /\ inspected[HostOf[cur]] = NoReading
    /\ todo' = todo \ {cur}
    /\ cur' = NoAttachment
    /\ UNCHANGED <<world, cache, monitor, fired, events, phase, handles, inspected, locals, reported>>

\* retire: Pods that are watched and were not resolved are forgotten.
Forgotten == {p \in Pod : watching[p] # NoPath /\ handles[p] = NoPath}

SweepEnds ==
    /\ phase = "sweep" /\ cur = NoAttachment /\ todo = {}
    /\ watching' = [p \in Pod |-> IF p \in Forgotten THEN NoPath ELSE watching[p]]
    /\ subs' = {s \in subs : s[1] \in Forgotten => s \in Closed(s[1])}
    /\ cache' = [p \in Pod |-> IF p \in Forgotten THEN NoPath ELSE cache[p]]
    /\ reported' = locals
    /\ phase' = "idle"
    /\ handles' = None /\ inspected' = Unread /\ locals' = Unreported
    /\ UNCHANGED <<world, fired, events, todo, cur>>

\* The context ends; Monitor.Close is deferred.
Stop ==
    /\ phase = "idle"
    /\ phase' = "stopped"
    /\ watching' = None
    /\ subs' = {s \in subs : s \in Closed(s[1])}
    /\ UNCHANGED <<world, cache, fired, events, todo, cur, handles, inspected, locals, reported>>

-----------------------------------------------------------------------------
(* Specification. *)

Init ==
    /\ created = {} /\ ready = {} /\ files = {}
    /\ link = [q \in Path |-> "good"]
    /\ wanted = {}
    /\ cache = None /\ watching = None
    /\ subs = {} /\ fired = {} /\ events = 0
    /\ phase = "idle" /\ todo = {} /\ cur = NoAttachment
    /\ handles = None /\ inspected = Unread /\ locals = Unreported
    /\ reported = Unreported

World ==
    \/ \E q \in Path : SandboxReady(q) \/ SandboxStops(q) \/ FileRemoved(q) \/ LinkChanges(q)
    \/ \E p \in Pod : WantedChanges(p)

Pumps == \E s \in Pod \X Path : PumpWakes(s) \/ PumpDrops(s) \/ SubscriptionDies(s)

Sweeps ==
    \/ SweepOnTick \/ SweepOnEvent
    \/ \E a \in Attachment : Resolve(a) \/ ResolveFails(a) \/ Reuse(a)
    \/ Inspect \/ InspectFails
    \/ SweepEnds

Next == World \/ Pumps \/ Sweeps \/ Stop

Spec == Init /\ [][Next]_vars

\* The ticker keeps firing, and a sweep goes on: every call in it returns.
SweepStep ==
    \/ \E a \in Attachment : Resolve(a) \/ ResolveFails(a) \/ Reuse(a)
    \/ Inspect \/ InspectFails
    \/ SweepEnds

FairSpec == Spec /\ WF_vars(SweepOnTick) /\ WF_vars(SweepStep)

-----------------------------------------------------------------------------
(* Properties. *)

\* Every variable stays within its type; cache, watches and sweep know of no sandbox
\* but those the runtime has had.
NamespaceTypeOK ==
    /\ ready \subseteq created /\ files \subseteq created /\ created \subseteq Path
    /\ link \in [Path -> Reading]
    /\ wanted \subseteq Pod
    /\ cache \in [Pod -> created \cup {NoPath}]
    /\ watching \in [Pod -> created \cup {NoPath}]
    /\ subs \subseteq Pod \X created /\ fired \subseteq Pod \X created
    /\ events \in 0..EventCap
    /\ phase \in {"idle", "sweep", "stopped"}
    /\ todo \subseteq Attachment /\ cur \in Attachment \cup {NoAttachment}
    /\ handles \in [Pod -> created \cup {NoPath}]
    /\ inspected \in [Pod -> Reading \cup {NoReading}]
    /\ locals \in [Attachment -> Reading \cup {NoReading}]
    /\ reported \in [Attachment -> Reading \cup {NoReading}]

\* A change is noticed without waiting for the ticker: between sweeps, what was
\* reported of a namespace with a live subscription is what is there, unless a
\* wake-up is on its way. Wake-ups may be coalesced and dropped at a full channel,
\* and come while a sweep is under way.
NoMissedChange ==
    phase = "idle" /\ events = 0 /\ fired = {} =>
        \A a \in Attachment :
            LET s == <<HostOf[a], watching[HostOf[a]]>>
            IN  s \in subs /\ reported[a] # NoReading => reported[a] = link[s[2]]

\* No subscription is left behind: each that runs is the one Monitor.watching has
\* for its Pod, so that Forget, Ensure and Close can end it.
NoneLeftBehind == \A s \in subs : watching[s[1]] = s[2]

\* Between sweeps a Pod is watched where the cache has it, and so where the next
\* sweep reads it. A Pod in the cache that is not watched is one whose subscription
\* failed; retire does not find it.
WatchedWhereRead ==
    phase = "idle" => \A p \in Pod : watching[p] \in {cache[p], NoPath}

\* The parts of the inductive invariant behind the two. A sweep's locals exist
\* during a sweep only;
BetweenSweeps ==
    phase # "sweep" =>
        cur = NoAttachment /\ handles = None /\ inspected = Unread /\ locals = Unreported

\* a Pod that was resolved is cached, and watched if at all, where it was resolved;
HandlesFit ==
    /\ \A p \in Pod : handles[p] # NoPath => handles[p] = cache[p] /\ watching[p] \in {handles[p], NoPath}
    /\ cur # NoAttachment => handles[HostOf[cur]] # NoPath

\* what is reported of an attachment is what was read of its Pod, once resolved;
ReadingsFit ==
    /\ \A p \in Pod : inspected[p] # NoReading => handles[p] # NoPath
    /\ \A a \in Attachment : locals[a] # NoReading => locals[a] = inspected[HostOf[a]]

\* and a reading of a watched namespace is right or a wake-up is on its way.
Noticed(p, reading) ==
    <<p, watching[p]>> \in subs =>
        reading = link[watching[p]] \/ events > 0 \/ <<p, watching[p]>> \in fired

ReadingsNoticed == \A p \in Pod : inspected[p] # NoReading => Noticed(p, inspected[p])

ReportsNoticed ==
    phase = "idle" =>
        \A a \in Attachment : reported[a] # NoReading => Noticed(HostOf[a], reported[a])

NamespaceInv ==
    /\ NoneLeftBehind /\ WatchedWhereRead
    /\ BetweenSweeps /\ HandlesFit /\ ReadingsFit /\ ReadingsNoticed /\ ReportsNoticed

\* What disturbs the agent: the world changes, or a call fails that could have
\* succeeded.
Trouble ==
    \/ World \/ Stop
    \/ \E a \in Attachment : ResolveFails(a) /\ Newest(HostOf[a]) \in files
    \/ cur # NoAttachment /\ handles[HostOf[cur]] \in files /\ InspectFails

\* What is known of an attachment is what there is to know, if the namespace of an
\* older sandbox does not linger.
Current(a) ==
    LET p == HostOf[a]
        there == {q \in files : PodOf[q] = p}
    IN  /\ p \notin wanted \/ there = {} => reported[a] = NoReading
        /\ p \in wanted /\ there = {Newest(p)} => reported[a] = link[Newest(p)]

\* Whatever happened to subscriptions, wake-ups and cached handles, the agent comes
\* to report what is there once the world is quiet and calls succeed.
StateCatchesUp ==
    <>[][~Trouble]_vars => <>[](phase = "stopped" \/ \A a \in Attachment : Current(a))
=============================================================================
