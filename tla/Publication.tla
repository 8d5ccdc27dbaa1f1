---------------------------- MODULE Publication ----------------------------
(***************************************************************************)
(* From evidence to EndpointSlices: the report handlers' effect on the     *)
(* store and their notifications (health_server.go), the registry, the     *)
(* expiry sweeper, the health-event channel and the work queue, and the    *)
(* reconcile worker that reads the store and writes the slices             *)
(* (service_controller.go, endpointslice.go, readiness.go).                *)
(*                                                                         *)
(* The reports modelled here are the ones the store accepts; which ones it *)
(* accepts is HealthStore's subject, so an entry's process and sequence    *)
(* number play no part and every report of a node carries one origin.      *)
(***************************************************************************)
EXTENDS HealthMaps, FiniteSets, FiniteSetsExt

CONSTANTS
    Service,      \* Service names
    NoService,    \* what the idle worker is working on
    Selects,      \* Service -> the attachments its selector and NAD match
    Family,       \* address families; one slice each
    FamilyOf,     \* Attachment.AddressType
    AddressOf,    \* Attachment.IP, as its place in the sort order
    PathKeyOf,    \* Attachment.PathKey under the scope Reconcile uses
    ServiceState, \* the states a Service is in: "managed", "unmanaged", "absent"
    PodState,     \* the states a Pod is in: "ready", "unready", "none"
    Observed,     \* the attachments some agent reports on
    PathVerdict,  \* the verdicts path reports come to
    MaxEndpoints, \* maxEndpointsPerSlice
    EventCap      \* capacity of HealthEvents

ASSUME PublicationAssumption ==
    /\ NoService \notin Service
    /\ IsFiniteSet(Service) /\ IsFiniteSet(Attachment) /\ IsFiniteSet(PathKey)
    /\ Selects \in [Service -> SUBSET Attachment]
    /\ FamilyOf \in [Attachment -> Family]
    /\ AddressOf \in [Attachment -> Nat]
    /\ \A a, b \in Attachment : AddressOf[a] = AddressOf[b] => FamilyOf[a] = FamilyOf[b]
    /\ PathKeyOf \in [Attachment -> PathKey]
    /\ \A a \in Attachment : HomeOf[PathKeyOf[a]] = HomeOf[a]
    /\ ServiceState \subseteq {"managed", "unmanaged", "absent"}
    /\ PodState \subseteq {"ready", "unready", "none"}
    /\ Observed \subseteq Attachment
    /\ PathVerdict \subseteq BOOLEAN
    /\ MaxEndpoints \in Nat
    /\ EventCap \in Nat
    /\ \A n \in Node : \E o \in Origin : o.node = n

VARIABLES
    services,   \* the informer's Services: "absent", "unmanaged" or "managed"
    pods,       \* the informer's Pods, by attachment: "none", "unready", "ready"
    local,      \* HealthStore.local
    path,       \* HealthStore.path
    registry,   \* Registry.byService: Service -> the attachments it publishes
    answered,   \* history: what look-ups of a key in the registry have found
    sweeping,   \* whether the sweeper is between SweepExpired and Prune
    events,     \* how many events for each Service HealthEvents holds
    queue,      \* the Services waiting in the work queue
    job,        \* the reconcile in progress
    slices,     \* the API server's EndpointSlices: Service -> family -> endpoints
    cached,     \* the informer's copy of slices
    watch,      \* the slices <<s, f>> changed since the informer's copy of them
    dropped,    \* history: Services an event was dropped for while none was pending
    silenced    \* history: Services whose evidence changed and that were not told

worldVars == <<services, pods>>
storeVars == <<local, path, sweeping>>
registryVars == <<registry, answered>>
notifyVars == <<events, dropped>>
sliceVars == <<slices, cached, watch>>
vars == <<services, pods, local, path, registry, answered, sweeping, events, queue, job,
          slices, cached, watch, dropped, silenced>>

Idle == [svc |-> NoService, phase |-> "idle", atts |-> {}, podReady |-> {},
         todo |-> {}, half |-> {}, ready |-> Empty,
         have |-> Empty, old |-> {}, left |-> {}]

-----------------------------------------------------------------------------
(* What a reconcile reads and wants. *)

\* The attachments derived from the eligible Pods that s selects.
Discovered(s) == {a \in Selects[s] : pods[a] # "none"}

\* Mutant of DropConflicting: one claimant of a contested address stays.
KeepOneClaimant(A) == {a \in A : a = CHOOSE b \in A : AddressOf[b] = AddressOf[a]}

\* dropConflictingAddresses: every claimant of a contested address goes.
DropConflicting(A) == {a \in A : \A b \in A \ {a} : AddressOf[b] # AddressOf[a]}

\* The first MaxEndpoints by address.
Truncated(A) ==
    {a \in A : Cardinality({b \in A : AddressOf[b] < AddressOf[a]}) < MaxEndpoints}

Families(A) == {FamilyOf[a] : a \in A}

\* The attachments of A that get an endpoint, family by family.
Publishable(A) ==
    UNION {Truncated(DropConflicting({a \in A : FamilyOf[a] = f})) : f \in Families(A)}

\* The endpoints of one family's slice: attachment -> ready.
InFamily(ready, f) == [a \in {b \in DOMAIN ready : FamilyOf[b] = f} |-> ready[a]]

\* The two halves of ComputeReady, in the order it reads the store.
LocalHalf(a, podReady) == a \in podReady /\ StateOf(local, a) = "Healthy"
PathHalf(a) == StateOf(path, PathKeyOf[a]) = "Healthy"

\* The Services an attachment and a path key belong to.
OwnersOf(a) == {s \in DOMAIN registry : a \in registry[s]}
PathOwnersOf(k) == {s \in DOMAIN registry : \E a \in registry[s] : PathKeyOf[a] = k}

Owners(A, K) == UNION ({OwnersOf(a) : a \in A} \cup {PathOwnersOf(k) : k \in K})

\* What localFrom and pathFrom find for the keys that are reported on; for one
\* without owners they find nothing.
Answers ==
    {<<"local", a, OwnersOf(a)>> : a \in {b \in Observed : OwnersOf(b) # {}}} \cup
    {<<"path", PathKeyOf[a], PathOwnersOf(PathKeyOf[a])>> :
        a \in {b \in Observed : PathOwnersOf(PathKeyOf[b]) # {}}}

-----------------------------------------------------------------------------
(* Notification. *)

Total(f) == MapThenSumSet(LAMBDA s : f[s], Service)

Once(S) == [s \in Service |-> IF s \in S THEN 1 ELSE 0]

\* Mutant of Enqueue: HealthEvents is nil, so that every send is given up.
EnqueueNowhere(calls) == UNCHANGED <<events, dropped>>

\* ServiceReconciler.Enqueue, called calls[s] times for each s in no particular
\* order: a send that finds the channel full is given up.
Enqueue(calls) ==
    \E sent \in [Service -> 0..EventCap] :
        /\ \A s \in Service : sent[s] <= calls[s]
        /\ Total(sent) = Min({Total(calls), EventCap - Total(events)})
        /\ events' = [s \in Service |-> events[s] + sent[s]]
        /\ dropped' = dropped \cup
             {s \in Service : calls[s] > 0 /\ events'[s] = 0 /\ s \notin queue}

\* The channel source hands an event over to the work queue, which keeps each
\* Service once.
ChannelPump(s) ==
    /\ events[s] > 0
    /\ events' = [events EXCEPT ![s] = @ - 1]
    /\ queue' = queue \cup {s}
    /\ UNCHANGED <<worldVars, storeVars, registryVars, job, sliceVars, dropped, silenced>>

-----------------------------------------------------------------------------
(* The cluster, as the informers report it. *)

ServiceEvent(s, state) ==
    /\ services[s] # state
    /\ services' = [services EXCEPT ![s] = state]
    /\ queue' = queue \cup {s}
    /\ UNCHANGED <<pods, storeVars, registryVars, notifyVars, job, sliceVars, silenced>>

\* servicesForPod.
PodEvent(a, state) ==
    /\ pods[a] # state
    /\ pods' = [pods EXCEPT ![a] = state]
    /\ queue' = queue \cup {s \in Service : services[s] = "managed" /\ a \in Selects[s]}
    /\ UNCHANGED <<services, storeVars, registryVars, notifyVars, job, sliceVars, silenced>>

\* A slice event of the watch on owned slices: the informer's copy catches up and
\* the owner is queued.
SliceEvent(s, f) ==
    /\ <<s, f>> \in watch
    /\ watch' = watch \ {<<s, f>>}
    /\ cached' = [cached EXCEPT ![s] =
                    IF f \in DOMAIN slices[s] THEN Put(@, f, slices[s][f]) ELSE Drop(@, {f})]
    /\ queue' = queue \cup {s}
    /\ UNCHANGED <<worldVars, storeVars, registryVars, notifyVars, job, slices, silenced>>

\* Someone else deletes a slice: the garbage collector after its Service, a user.
SliceDeleted(s, f) ==
    /\ f \in DOMAIN slices[s]
    /\ slices' = [slices EXCEPT ![s] = Drop(@, {f})]
    /\ watch' = watch \cup {<<s, f>>}
    /\ UNCHANGED <<worldVars, storeVars, registryVars, notifyVars, queue, job, cached, silenced>>

-----------------------------------------------------------------------------
(* The report handlers of HealthServer.Sync, for reports the store accepts. *)

Report(m, k, ready) == Put(m, k, AcceptedEntry(OriginOf(HomeOf[k]), ready))

\* Those who change evidence touch nothing but the store, the channel and the history
\* of losses: calls says how often Notify is called for each Service, and the Services
\* concerned for which it is not called are silenced.
Told(calls, concerned) ==
    /\ Enqueue(calls)
    /\ silenced' = silenced \cup {s \in concerned : calls[s] = 0}
    /\ UNCHANGED <<worldVars, registryVars, queue, job, sliceVars>>

\* owners is what localFrom found before AcceptLocal; the registry may have changed
\* since, and whoever owns a by now is not looked up again.
LocalReport(a, owners, ready) ==
    /\ local' = Report(local, a, ready)
    /\ Told(Once(owners), OwnersOf(a))
    /\ UNCHANGED <<path, sweeping>>

\* Mutant of PathReport: the evidence is filed with the local evidence.
PathReportMisfiled(k, owners, ready) ==
    /\ local' = Report(local, k, ready)
    /\ Told(Once(owners), PathOwnersOf(k))
    /\ UNCHANGED <<path, sweeping>>

PathReport(k, owners, ready) ==
    /\ path' = Report(path, k, ready)
    /\ Told(Once(owners), PathOwnersOf(k))
    /\ UNCHANGED <<local, sweeping>>

\* The entries of m that go without having been reported by the sweeper when a
\* snapshot of n with the keys K is committed.
LostBy(m, n, K) == {k \in DOMAIN m : m[k].node = n /\ ~m[k].expired} \ K

\* SnapshotEnd: ApplySnapshot and notifyAll, which looks the owners up afterwards.
\* Only the owners of what is in the snapshot are told.
Snapshot(n, locals, paths) ==
    /\ local' = Replaced(local, OriginOf(n), locals)
    /\ path' = Replaced(path, OriginOf(n), paths)
    /\ Told(Once(Owners(DOMAIN locals, DOMAIN paths)),
            Owners(LostBy(local, n, DOMAIN locals), LostBy(path, n, DOMAIN paths)))
    /\ UNCHANGED sweeping

\* Retired: ForgetLocal whoever asks, and the owners are told if there are any.
Retired(a) ==
    /\ local' = Drop(local, {a})
    /\ Told(Once(OwnersOf(a)), {})
    /\ UNCHANGED <<path, sweeping>>

-----------------------------------------------------------------------------
(* Time. *)

\* The calls of Notify for the entries that lapse: one for each owner of each.
LapseCalls ==
    [s \in Service |->
        Cardinality({a \in Lapsed(local) : s \in OwnersOf(a)})
            + Cardinality({k \in Lapsed(path) : s \in PathOwnersOf(k)})]

\* One round of ExpirySweeper: SweepExpired and a Notify for each lapse; every
\* pruneEvery rounds Prune is to follow.
Sweep(prune) ==
    /\ ~sweeping
    /\ local' = Swept(local)
    /\ path' = Swept(path)
    /\ sweeping' = prune
    /\ Told(LapseCalls, {})

\* The dead entries no sweep has reported: fresh when the round swept, and more than
\* 2*ttl old now.
Unreported(m) == {k \in Dead(m) : ~m[k].expired}

Prune ==
    /\ sweeping
    /\ local' = Drop(local, Dead(local))
    /\ path' = Drop(path, Dead(path))
    /\ sweeping' = FALSE
    /\ Told(Once({}), Owners(Unreported(local), Unreported(path)))

ClockTick ==
    /\ local' = Aged(local)
    /\ path' = Aged(path)
    /\ UNCHANGED <<worldVars, sweeping, registryVars, notifyVars, queue, job, sliceVars, silenced>>

-----------------------------------------------------------------------------
(* The reconcile worker: one Service at a time. *)

Taken(s) ==
    /\ job.phase = "idle"
    /\ s \in queue
    /\ queue' = queue \ {s}
    /\ dropped' = dropped \ {s}
    /\ silenced' = silenced \ {s}
    /\ UNCHANGED <<worldVars, storeVars, events, sliceVars>>

\* The Service is gone: its slices are the garbage collector's business.
ReconcileAbsent(s) ==
    /\ services[s] = "absent"
    /\ Taken(s)
    /\ registry' = Drop(registry, {s})
    /\ answered' = answered \cup Answers'
    /\ UNCHANGED job

\* Not managed, or managed and invalid: forget it, then drop its slices, which is
\* applySlices with nothing wanted.
ReconcileUnmanaged(s) ==
    /\ services[s] = "unmanaged"
    /\ Taken(s)
    /\ registry' = Drop(registry, {s})
    /\ answered' = answered \cup Answers'
    /\ job' = [Idle EXCEPT !.svc = s, !.phase = "read"]

\* List the Pods, derive the attachments, and register them before publishing.
ReconcileManaged(s) ==
    /\ services[s] = "managed"
    /\ Taken(s)
    /\ registry' = Put(registry, s, Discovered(s))
    /\ answered' = answered \cup Answers'
    /\ job' = [Idle EXCEPT !.svc = s, !.phase = "read", !.atts = Discovered(s),
                           !.podReady = {a \in Discovered(s) : pods[a] = "ready"},
                           !.todo = Publishable(Discovered(s))]

\* ComputeReady's reads are separate critical sections of the store: first Local,
ReadLocal(a) ==
    /\ a \in job.todo
    /\ job' = IF LocalHalf(a, job.podReady)
              THEN [job EXCEPT !.todo = @ \ {a}, !.half = @ \cup {a}]
              ELSE [job EXCEPT !.todo = @ \ {a}, !.ready = Put(@, a, FALSE)]
    /\ UNCHANGED <<worldVars, storeVars, registryVars, notifyVars, queue, sliceVars, silenced>>

\* and, where that passed, Path.
ReadPath(a) ==
    /\ a \in job.half
    /\ job' = [job EXCEPT !.half = @ \ {a}, !.ready = Put(@, a, PathHalf(a))]
    /\ UNCHANGED <<worldVars, storeVars, registryVars, notifyVars, queue, sliceVars, silenced>>

\* applySlices lists the owned slices from the informer's copy.
ListSlices ==
    /\ job.phase = "read"
    /\ job.todo = {} /\ job.half = {}
    /\ job' = [job EXCEPT !.phase = "write", !.have = cached[job.svc],
                          !.old = {f \in Family : <<job.svc, f>> \in watch},
                          !.left = Families(job.atts) \cup DOMAIN cached[job.svc]]
    /\ UNCHANGED <<worldVars, storeVars, registryVars, notifyVars, queue, sliceVars, silenced>>

Wanted(f) == f \in Families(job.atts)

\* Mutant of UpToDate: a slice that is there is taken for up to date.
UpToDateIfPresent(f) == f \in DOMAIN job.have /\ Wanted(f)

\* sliceUpToDate.
UpToDate(f) ==
    f \in DOMAIN job.have /\ Wanted(f) /\ job.have[f] = InFamily(job.ready, f)

\* f's turn: the wanted slices first, then the stale ones.
Turn(f) ==
    /\ f \in job.left
    /\ Wanted(f) \/ \A g \in job.left : ~Wanted(g)

Done(f) ==
    /\ job' = [job EXCEPT !.left = @ \ {f}]
    /\ UNCHANGED <<worldVars, storeVars, registryVars, notifyVars, queue, cached, silenced>>

Written(f, ofService) ==
    /\ slices' = [slices EXCEPT ![job.svc] = ofService]
    /\ watch' = watch \cup {<<job.svc, f>>}
    /\ Done(f)

\* Create; that it already exists is not taken for an error.
CreateSlice(f) ==
    /\ Turn(f) /\ Wanted(f) /\ f \notin DOMAIN job.have
    /\ \/ /\ f \notin DOMAIN slices[job.svc]
          /\ Written(f, Put(slices[job.svc], f, InFamily(job.ready, f)))
       \/ /\ f \in DOMAIN slices[job.svc]
          /\ Done(f)
          /\ UNCHANGED <<slices, watch>>

KeepSlice(f) ==
    /\ Turn(f) /\ UpToDate(f)
    /\ Done(f)
    /\ UNCHANGED <<slices, watch>>

\* Update is refused unless the informer's copy was the current version.
UpdateSlice(f) ==
    /\ Turn(f) /\ Wanted(f) /\ f \in DOMAIN job.have /\ ~UpToDate(f)
    /\ f \in DOMAIN slices[job.svc] /\ f \notin job.old
    /\ Written(f, Put(slices[job.svc], f, InFamily(job.ready, f)))

\* Delete goes by name; that it is gone already is not taken for an error.
DeleteSlice(f) ==
    /\ Turn(f) /\ ~Wanted(f)
    /\ \/ /\ f \in DOMAIN slices[job.svc]
          /\ Written(f, Drop(slices[job.svc], {f}))
       \/ /\ f \notin DOMAIN slices[job.svc]
          /\ Done(f)
          /\ UNCHANGED <<slices, watch>>

\* Mutant of WriteFails: the error is swallowed and nothing is retried.
WriteFailsSwallowed ==
    /\ \E f \in job.left : Turn(f) /\ ~UpToDate(f)
    /\ job' = Idle
    /\ UNCHANGED <<worldVars, storeVars, registryVars, notifyVars, queue, sliceVars, silenced>>

\* An API error: what was written stays, the rest is retried from the top.
WriteFails ==
    /\ \E f \in job.left : Turn(f) /\ ~UpToDate(f)
    /\ job' = Idle
    /\ queue' = queue \cup {job.svc}
    /\ UNCHANGED <<worldVars, storeVars, registryVars, notifyVars, sliceVars, silenced>>

Finish ==
    /\ job.phase = "write" /\ job.left = {}
    /\ job' = Idle
    /\ UNCHANGED <<worldVars, storeVars, registryVars, notifyVars, queue, sliceVars, silenced>>

\* The controller stops at any point and comes up with an empty store; the
\* informers' first lists queue every Service and every owner of a slice.
Restart ==
    /\ local' = Empty
    /\ path' = Empty
    /\ registry' = Empty
    /\ answered' = {}
    /\ sweeping' = FALSE
    /\ events' = [s \in Service |-> 0]
    /\ queue' = {s \in Service : services[s] # "absent" \/ DOMAIN slices[s] # {}}
    /\ job' = Idle
    /\ cached' = slices
    /\ watch' = {}
    /\ dropped' = {}
    /\ silenced' = {}
    /\ UNCHANGED <<worldVars, slices>>

-----------------------------------------------------------------------------
(* Specification. *)

\* The controller starts in a cluster it has published nothing for.
Init ==
    /\ services \in [Service -> ServiceState]
    /\ pods \in [Attachment -> PodState]
    /\ local = Empty
    /\ path = Empty
    /\ registry = Empty
    /\ answered = {}
    /\ sweeping = FALSE
    /\ events = [s \in Service |-> 0]
    /\ queue = {s \in Service : services[s] # "absent"}
    /\ job = Idle
    /\ slices = [s \in Service |-> Empty]
    /\ cached = [s \in Service |-> Empty]
    /\ watch = {}
    /\ dropped = {}
    /\ silenced = {}

Cluster ==
    \/ \E s \in Service, state \in ServiceState : ServiceEvent(s, state)
    \/ \E a \in Attachment, state \in PodState : PodEvent(a, state)
    \/ \E s \in Service, f \in Family : SliceEvent(s, f) \/ SliceDeleted(s, f)

\* localFrom and pathFrom let a report of n pass only about these.
Known(n) == {a \in AttachmentsOn(n) : \E owners \in SUBSET Service : <<"local", a, owners>> \in answered}
KnownPaths(n) == {k \in PathKeysOn(n) : \E owners \in SUBSET Service : <<"path", k, owners>> \in answered}

Reports ==
    \E n \in Node :
        \/ \E a \in AttachmentsOn(n), owners \in SUBSET Service, ready \in BOOLEAN :
            <<"local", a, owners>> \in answered /\ LocalReport(a, owners, ready)
        \/ \E k \in PathKeysOn(n), owners \in SUBSET Service, ready \in PathVerdict :
            <<"path", k, owners>> \in answered /\ PathReport(k, owners, ready)
        \/ \E A \in SUBSET Known(n), K \in SUBSET KnownPaths(n) :
            \E locals \in [A -> BOOLEAN], paths \in [K -> PathVerdict] :
                Snapshot(n, locals, paths)
        \/ \E a \in AttachmentsOn(n) \cap Observed : Retired(a)

Sweeper == \/ \E prune \in BOOLEAN : Sweep(prune)
           \/ Prune

Worker ==
    \/ \E s \in Service : ReconcileAbsent(s) \/ ReconcileUnmanaged(s) \/ ReconcileManaged(s)
    \/ \E a \in Attachment : ReadLocal(a) \/ ReadPath(a)
    \/ ListSlices
    \/ \E f \in Family :
        CreateSlice(f) \/ KeepSlice(f) \/ UpdateSlice(f) \/ DeleteSlice(f)
    \/ WriteFails
    \/ Finish

Next ==
    \/ Worker
    \/ \E s \in Service : ChannelPump(s)
    \/ Cluster
    \/ Sweeper
    \/ ClockTick
    \/ Reports
    \/ Restart

Spec == Init /\ [][Next]_vars

\* The goroutines keep running and the API server and its watches keep working:
\* the sweeper's ticker, the channel source, the single worker on a queue that is
\* first in first out, writes that do not fail for ever, garbage collection.
Fairness ==
    /\ WF_vars(Sweeper /\ storeVars' # storeVars)
    /\ WF_vars(Worker)
    /\ \A s \in Service :
        /\ WF_vars(ChannelPump(s))
        /\ SF_vars(ReconcileAbsent(s) \/ ReconcileUnmanaged(s) \/ ReconcileManaged(s))
        /\ \A f \in Family :
            /\ WF_vars(SliceEvent(s, f))
            /\ SF_vars(job.svc = s /\ (CreateSlice(f) \/ UpdateSlice(f) \/ DeleteSlice(f)))
            /\ WF_vars(services[s] = "absent" /\ SliceDeleted(s, f))

\* The controller is not restarted for ever and others leave its slices alone.
Calm ==
    <>[][/\ ~Restart
         /\ \A s \in Service, f \in Family : services[s] # "absent" => ~SliceDeleted(s, f)]_vars

FairSpec == Spec /\ Fairness /\ Calm

-----------------------------------------------------------------------------
(* Properties. *)

IsSliceSet(x) ==
    /\ DOMAIN x \subseteq Family
    /\ \A f \in DOMAIN x :
        DOMAIN x[f] \subseteq Attachment /\ x[f] \in [DOMAIN x[f] -> BOOLEAN]

\* Every variable stays within its type, local and path evidence each under their own
\* kind of key.
TypeOK ==
    /\ services \in [Service -> ServiceState]
    /\ pods \in [Attachment -> PodState]
    /\ IsStoreMap(local, Attachment)
    /\ IsStoreMap(path, PathKey)
    /\ DOMAIN registry \subseteq Service
    /\ registry \in [DOMAIN registry -> SUBSET Attachment]
    /\ answered \subseteq ({"local"} \X Attachment \X SUBSET Service) \cup
                         ({"path"} \X PathKey \X SUBSET Service)
    /\ sweeping \in BOOLEAN
    /\ events \in [Service -> Nat]
    /\ queue \in SUBSET Service
    /\ job.svc \in Service \cup {NoService}
    /\ job.phase \in {"idle", "read", "write"}
    /\ \A s \in Service : IsSliceSet(slices[s]) /\ IsSliceSet(cached[s])
    /\ watch \in SUBSET (Service \X Family)
    /\ dropped \in SUBSET Service
    /\ silenced \in SUBSET Service

Pending(s) == events[s] > 0 \/ s \in queue \/ job.svc = s

\* Something is still on its way for s: a reconcile, a slice event, or a lapse
\* the sweeper has yet to report.
Owed(s) ==
    \/ Pending(s)
    \/ \E f \in Family : <<s, f>> \in watch
    \/ s \in DOMAIN registry /\ \E a \in registry[s] :
           a \in Lapsed(local) \/ PathKeyOf[a] \in Lapsed(path)

\* What ComputeReady would answer now.
ReadyNow(a) == pods[a] = "ready" /\ LocalHalf(a, {a}) /\ PathHalf(a)

Desired(s) ==
    IF services[s] = "managed"
    THEN LET A == Discovered(s) IN
         [f \in Families(A) |-> InFamily([a \in Publishable(A) |-> ReadyNow(a)], f)]
    ELSE Empty

\* Whatever interleaving of reports, lapses, Pod and Service changes, failed
\* writes, stale informer copies and restarts came before: once nothing is on its
\* way for a Service, its slices are exactly what the store supports, unless a
\* notification of it was lost (dropped or silenced).
Agreement ==
    \A s \in Service :
        services[s] # "absent" /\ ~Owed(s) /\ s \notin dropped \cup silenced
            => slices[s] = Desired(s)

\* With nothing on its way for a Service, an address that two of its Pods claim is
\* not published for either of them.
ContestedWithheld ==
    \A s \in Service : services[s] = "managed" /\ ~Owed(s) =>
        \A f \in DOMAIN slices[s] : \A a \in DOMAIN slices[s][f] :
            \A b \in Discovered(s) \ {a} : AddressOf[b] # AddressOf[a]

PublishedReady(s, a) ==
    \E f \in DOMAIN slices[s] : a \in DOMAIN slices[s][f] /\ slices[s][f][a]

\* An endpoint is withdrawn by itself: with nothing on its way for the Service, no
\* endpoint is published ready without fresh, healthy evidence behind it.
WithdrawnOnItsOwn ==
    \A s \in Service : services[s] = "managed" /\ ~Owed(s) =>
        \A a \in Attachment : PublishedReady(s, a) => ReadyNow(a)

\* s publishes a, and a notification of s has been lost.
Offered(s, a) == services[s] = "managed" /\ a \in Publishable(Discovered(s))
Lost(s) == s \in dropped \cup silenced

\* The evidence about a settles: the Pod and both halves are good from some time on,
\* or one of the three is bad from some time on.
Settles(s, a) ==
    \/ <>[](Offered(s, a) /\ ReadyNow(a))
    \/ <>[](Offered(s, a) /\ pods[a] # "ready")
    \/ <>[](Offered(s, a) /\ StateOf(local, a) # "Healthy")
    \/ <>[](Offered(s, a) /\ ~PathHalf(a))

\* Once the evidence about an endpoint settles, its publication follows: it ends up
\* published ready if the evidence is good and not if it is bad, unless notifications
\* of the Service are lost again and again or for ever. Evidence that keeps changing
\* promises nothing: ComputeReady may join a good local half and a good path half
\* that never held together.
Convergence ==
    \A s \in Service, a \in Attachment :
        Settles(s, a) => []<>Lost(s) \/ <>[](PublishedReady(s, a) <=> ReadyNow(a))
=============================================================================
