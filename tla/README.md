# A TLA+ verification of multus-service

multus-service publishes the secondary (Multus) addresses of Pods as EndpointSlices and
marks each one `ready` only while a node agent vouches for it. This directory holds a
model of the parts of it that carry state across goroutines, processes and restarts, the
TLC configurations that check the model on small instances, and TLAPS proofs, for every
size of cluster and every setting of the flags, of every safety property the passing runs check:
about the health store, the transport, the publication of EndpointSlices, the controller composed
of these, the agents' sessions, path probes, the renewal of evidence and the watching of namespaces.

All paths below are relative to the repository; `src/internal/controller` is written
`controller/` and `src/internal/agent` is written `agent/`.

## 1. Inventory

| Component | State | Operations | Talks to |
|---|---|---|---|
| Health store (`controller/health_store.go`) | `local`, `path`: evidence per attachment and per path key; `nodeInstance`: which agent process speaks for a node | `AdoptInstance`, `AcceptLocal`, `AcceptPath`, `ApplySnapshot`, `ForgetLocal`, `SweepExpired`, `Prune`; readers `Local`, `Path` | called by the stream handlers, the sweeper and reconciles, under one mutex |
| Stream handler (`controller/health_server.go`) | per stream: process, open snapshot and its buffers | `Sync`: adopt, snapshot, delta, retirement, refusal | store, registry, `Enqueue`, acks to the agent |
| Agent sink (`agent/grpc_sink.go`) | stream, `needSnapshot`, sequence, last snapshot, back-off | `Start`, `session`, `Publish` | gRPC stream |
| Agent sweep (`agent/agent.go`) | the previous sweep's observations | `Start`, `sweep`, `transition`, `retire` | ticker, monitor, namespace cache, probe manager, sink |
| Namespace cache and resolver (`agent/netns`) | Pod UID to namespace path | `Resolve`, `Forget` | container runtime, called by the sweep |
| Monitor and observer (`agent/local`) | subscription per Pod, bounded event channel | `Ensure`, `Forget`, `Close`, a pump per subscription; `Inspect` | netlink, wakes the sweep |
| Path probes (`agent/probe`) | targets, a state machine per target, changed marks, wake token | `SetTargets`, `round`, `States`, `TakeChanged` | sweep, through a mutex and a one-slot channel |
| Expiry sweeper (`controller/expiry.go`) | rounds since the last prune | sweep, notify, prune | store, registry, `Enqueue` |
| Registry (`controller/registry.go`) | attachments by Service, owners by attachment and path key | `SetService`, `RemoveService`, look-ups | written by reconciles, read by handlers and sweeper |
| Service reconciler (`controller/service_controller.go`, `pod_controller.go`) | event channel, work queue | `Reconcile`, `Enqueue`, watches | informers, registry, store, slices |
| Slices (`controller/endpointslice.go`, `readiness.go`) | EndpointSlices in the API server, a lagging copy in the informer | `desiredSlices`, `ComputeReady`, `applySlices` | API server |
| Agent registry and sessions (`controller/agent_registry.go`, `session.go`) | `byKey`, `byUID`; cancel functions per Pod UID | agent Pod reconcile, `Register`, release, `Revoke` | stream handlers |
| Authentication (`controller/auth.go`) | none | TokenReview, SubjectAccessReview, look-up in the agent registry | API server |
| Attachment derivation (`attach`, `multus`) | none | pure functions of a Pod and a Service | reconciler and agent |
| ICMP, credentials, observation log, wiring | sockets, files | I/O | the node |

What makes each correct:

- *store*: only the process in charge of a node adds evidence about it; evidence lapses by
  itself; a lapse is reported once, and only if it is one;
- *transport*: what is stored is what one sweep of one process observed; the agent left
  running is heard in the end;
- *publication*: when everything has been handled, the slices are what the evidence
  supports; settled evidence is published; a contested address is not;
- *sessions*: the two maps of the registry agree; every stream that can be revoked is in
  the session manager, and it is revoked when its agent goes;
- *probes*: a machine's verdict is that of its sample streaks, a change is announced,
  and a lasting verdict is reported;
- *renewal*: an agent that meets no failure renews its evidence within a bound, its own capping
  of sessions included, and one that met some is heard again within a bound;
- *namespaces*: a change in a watched namespace is seen without waiting for the ticker, no
  subscription outlives its use, and whatever failed, the reports come to be what is there;
- *derivation*: agent and controller derive the same attachments, and never a primary
  address.

What is hard here: several streams of one node at once (an agent restarts, or reconnects
before its old handler has noticed); a snapshot is many messages and is committed by the
last; the local and the path half of readiness are read in two critical sections; reconciles
read an informer cache that lags behind their own writes; the event channel is bounded and
sends into it are given up; the controller restarts with an empty store; Pods return under
an old name; probes answer after their target has gone; several timers have to fit under one
TTL; sandboxes are recreated under a cached path; wake-ups are coalesced and dropped.
`PROJECT.json` lists these hazards
with their lines and the properties aimed at them.

## 2. Modules and their code

| Module | Models |
|---|---|
| `EvidenceLease` | abstract: what the store promises its readers, a table of leases |
| `HealthMaps` | an entry, the maps, and what each store operation does to one map |
| `HealthStore` | the store, one action per method; extends `HealthMaps` |
| `HealthTransport` | agents, sinks, streams and `Sync` handlers on top of `HealthStore` |
| `Publication` | registry, notification, sweeper, reconcile worker, slices; extends `HealthMaps` |
| `Controller` | `HealthStore`'s steps called by handlers and sweeper, and `Publication` around them; an implementation of `Publication` |
| `Sessions` | agent Pods, `AgentRegistry`, `SessionManager`, the start and end of a handler |
| `ProbeManager` | probe rounds, state machines and the sweep that reads them |
| `Renewal` | sweep loop, `Publish`, dialling, capped and broken sessions, back-off and the age of evidence on one clock |
| `NamespaceWatch` | the sweep's use of the namespace cache, the resolver, `Monitor` and `Inspect` |
| `Attachments` | `attach.go`, `network_status.go`, and their use by `Reconcile` and `Agent.targets`, as operators |
| `HealthStoreProofs`, `HealthTransportProofs`, `PublicationProofs`, `ControllerProofs`, `SessionsProofs`, `ProbeManagerProofs`, `RenewalProofs`, `NamespaceWatchProofs` | theorems about the modules they are named after; the last also about `Attachments` |
| `MC*` | instances for TLC |

**Time in the store.** The code keeps instants and compares `now - AcceptedAt` with `ttl`
and `2*ttl`. The model keeps that difference, an age that stops growing at
`2*TTL + 1`, where every comparison has been settled. So time is unbounded although the
state space is finite.

**Atomicity.** What runs under one mutex is one action: the store's methods, a look-up, a
probe's fold, `SetTargets`. What takes the lock twice is two actions, and anything may
happen in between: `ReadLocal`/`ReadPath`, `States`/`TakeChanged`,
`Authenticate`/`Register`, `Upsert`/`Revoke`, `Sweep`/`Prune`, the look-up of a report's owners
and its acceptance by the store (`answered`), and the last line of `GRPCSink.Publish`, which
clears `needSnapshot` after the sends (`PublishDone`). Two exceptions, in `Publication`: a
look-up that *follows* the change of the store (`notifyAll`, `Retired`, a lapse) is one step with
it, because whoever changes the registry in between is a reconcile, which reads the store
afterwards; and so is the call of `Notify`, until which the notification would only be one more
thing on its way.

**`HealthTransport`.** A stream is a queue of envelopes from a sink to a handler. Either
end can go first: the client hangs up (`SessionCapped` when MaxSession is up, `SessionEnds` when
the connection is lost, `AgentDies`) and the handler may still work off what had arrived; the handler returns (`StaleInstance`,
`HandlerCancelled`) and the client notices later (`SessionRefused`). A sweep is atomic on
the agent's side; its messages are handled one by one. Envelopes are numbered by sweep, which
orders reports about one key as the code's envelope counter does. Acks matter only when they
ask for a snapshot. `Behind` ties a path key to its attachment, with which it is observed, registered
and marked as changed. MaxSession may end one session after the other for ever, once each has
committed a snapshot (`committed`); a shorter one counts as a loss. `Unknown` is the report about a subject the registry does not have.

**`Publication`.** An entry's process and sequence number play no part here; the reports
that appear are those the store accepts. `Enqueue` sends until the channel is full. A
reconcile takes a Service from the queue, reads Pods, registers the attachments, reads the
two halves of readiness for each publishable attachment, lists the slices from the informer's
copy and writes them one at a time; each write may fail, and an update fails when the copy
was old (`job.old`). A delta's owners are looked up before the store takes the report, and the
registry may change in between: `answered` has every answer the registry could have given since
the controller started, and a report may act on any of them. `sweeping` says that a round has swept and is
yet to prune; anything may happen meanwhile. `dropped` and `silenced` are history variables: they
record that a notification has been lost, and a reconcile of the Service clears them. `dropped` is
a send that found the channel full; `silenced` is evidence that changed without a call of `Notify`
for a Service it concerns (`Told`): an entry a snapshot leaves out, an entry pruned before any
sweep reported it, or a delta whose owners had been looked up before the Service became one.

**`Controller`.** `Publication` has the reports the store accepts and no processes. `Controller`
calls `HealthStore`'s own operations, with the process in charge of each node, takeovers and
sequence numbers, and shares everything else with `Publication`, which it instantiates with
maps whose entries have lost their process and sequence number (`Anonymous`).

**`Sessions`.** UIDs are never reused, names are. `revoking` is the UID between its removal
from the registry and the call of `Revoke`.

**`ProbeManager`.** `samples` and `orphaned` are history variables. Streak counters stop at
their threshold. A round takes a copy of the targets, and its results are folded in one key
at a time.

**`Renewal`.** Durations are in ticks, and the flags are constants. One piece of evidence that
never changes stands for what a snapshot carries: deltas do not renew it, and a snapshot sent
is accepted at once (what can happen in between is `HealthTransport`'s subject) unless the
connection is broken. A sweep takes up to `Busy` before it publishes. A session is `opening` while
it dials, sets up TLS and waits for `Sync`, up to `Dial` when nothing is wrong, and `open` once there
is a stream; its age and its cap count from the start of the dialling. `Breaks` is a connection
that goes dead, or a dial that hangs, without the agent noticing: sends then go through and nobody
hears them, or block; MaxSession or a failure ends it. `Tick` waits for timers that are due and for a
sweep that is to begin; everything else may happen at any time. A lost session may come with a
controller restart, after which the store is empty. `calm` and `quiet` are history variables:
whether anything has failed since the last renewal, and how long ago anything was last wrong. The
end of a capped session is no failure.

**`NamespaceWatch`.** A sweep goes attachment by attachment: `Resolve` (cache, runtime, then
`Monitor.Ensure`, which may fail after it has closed the old subscription), then `Inspect`,
one reading for all attachments of an interface, and at the end `retire`. Between any two of
these, sandboxes, namespace files, interfaces and pumps move. `subs` are the pumps that run and
`watching` what `Monitor` believes: a subscription whose socket has died leaves `subs` only.
`fired` holds updates the pump has not taken yet. A path is never reused. Two attachments of one Pod
share an interface here; interfaces beyond that differ in nothing. `targets` reads the manager's
synced cache, whose `List` does not fail, so a sweep is not given up at its start. A wake-up by
a path probe starts a sweep as the ticker does.

**`Attachments`.** Services, Pods and network-status entries are records; a network reference
is the sequence of its parts. Strings that do not parse say so in a field. Of the selector only
conjunctions of labels are modelled.

### Left out

- Ports, labels, annotations, hostnames, Kubernetes Events, the observation log.
- `ProbeScope` Node: the reconciler always uses Endpoint scope, so a path key is an
  attachment id. `PathKeyOf` is a parameter and may map several attachments to one key.
- TLS and credentials, which only succeed or fail; the ack counter; the checks that one stream
  keeps naming one node and one instance, and the refusal of a snapshot's end without its begin
  or with another epoch (`health_server.go:198-205`, answered with a request for a snapshot), which
  no agent of this repository trips: it sends begin and end in order, with one epoch.
- TokenReview and SubjectAccessReview: API calls without state of their own.
- The probe settings of a NetworkAttachmentDefinition (`attach/nad.go`, `attach/probe.go`,
  `Agent.probeConfig`) and the synthetic path mode: which keys are probed is a choice in
  `ProbeManager`.
- ICMP (`agent/probe/icmp.go`): one exchange on a raw socket; its outcome is a choice.
- Credentials, flags and construction, generated code.

## 3. Runs

| Run | Instance | Shows |
|---|---|---|
| `store` | 2 nodes, 2 processes, one attachment, a path key on each node, TTL 0, 2 sequence numbers | `TakeoverBounded`, `FlaggedIsStale`, and that each map implements `EvidenceLease` |
| `publication` | 1 managed Service, 1 Pod that stays ready, reports of either verdict, TTL 0, channel of 1, fairness | `Agreement` through lapses, failed writes, lagging copies and restarts; `Convergence` |
| `slices` | 3 attachments in 2 families, 2 of them on one address, one endpoint per slice; the Service managed, not managed or deleted | `Agreement` and `ContestedWithheld` while Pods and Service come and go |
| `controller` | 2 Services that publish the same Pod, a path key of its own, 2 processes, channel of 1; 3 envelopes, ticks, restarts, failed writes, changes of the Pod's readiness or deleted slices | `ReadyIsVouchedFor`, and that the whole implements `Publication` |
| `transport` | 2 streams, an attachment with a path, fairness, and one of two casts: one process alone that numbers 2 sweeps, with observations, registry and connections changing; or two processes, either of which may die, with the attachment only | `ReportedAsSwept`: an entry is what its sweep saw; `ReportsArrive` |
| `sessions` | 2 Pod names, 3 UIDs, 2 streams, fairness | `MapsAgree`, `SessionsExact`, `RevocationComplete`, `StreamsEndOnceSucceeded` |
| `probes` | 2 keys, thresholds 2 and 2, 4 samples for a machine of one key and 2 of the other, fairness | `VerdictEarned`, `ChangeWakes`, `LateProbeCountsOnce`, `LastingVerdictReported` |
| `renewal` | half-second ticks: Resync 1 s, Refresh 2 s and TTL 5 s as in `deploy/`, MaxSession 12.5 s, sweeps and dials of up to 0.5 s | `RenewedInTime`, `RecoveryBounded` |
| `namespaces` | a Pod with two attachments of one interface, 2 sandboxes, channel of 1, fairness | `NoMissedChange`, `NoneLeftBehind`, `WatchedWhereRead`, `StateCatchesUp`; its ASSUMEs evaluate `Attachments` |
| `silent_snapshot` | 1 managed Service, 1 Pod that comes and goes, TTL 0 | violates `WithdrawnOnItsOwn` |
| `superseded` | 2 processes, 2 streams, 2 sweeps | violates `SupersededIsDiscarded` |
| `shipped_lease` | as `renewal` | violates `LeaseHeld` |

Why the bounds are enough: a TTL of 0 has an entry at the limit, and one that is stale, flagged
and prunable; whether a round prunes is a choice, so that a stale entry also stays as one that is
not prunable yet would; two Services are the fewest for one report to have two owners, for an
owner to come after the look-up, and for one Service's event to crowd out the other's; `Budget` in
`controller` bounds what comes from outside and leaves the goroutines' own steps free: three steps
are an adoption, a snapshot that makes the endpoint ready, and a report, lapse, retirement,
restart or second takeover; two processes are a superseded one and its successor; two streams are
an old and a new one; two sequence numbers are an older and a newer; a channel of one is full
after one event. In `slices` nobody reports, so the endpoints are all unready and the run is about
which of them there are. In `publication` the Pod stays ready, so `Convergence` is checked for
evidence that comes and goes; changes of the Pod are in `slices` and `controller`. With one Service no event is ever crowded out,
so what these runs say of dropped events is said by `controller`, and by the theorems for any number
of Services; and `controller`'s three steps cannot make a second takeover grow old, so the clause of
`ReadyIsVouchedFor` about a replaced process is checked there only up to its limit and rests on the
theorem. The path key is a name of its own, so that a report filed in the wrong map shows. Services
and processes (`controller`) are interchangeable and declared symmetric; runs with liveness declare
nothing symmetric. In `sessions` three UIDs let a name be used again
while another Pod exists; streams may stop once UIDs have run out, hence no deadlock check there.
In `transport` a process of `Endless` goes on sending snapshots under its last number when it has
used up its `Sweeps`; the world then stands still (`Room`), so that they all see the same, and the
handler never compares the number of a snapshot. Such a repeat is sent once what was sent
before it has been handled (`RepeatsAlone`). The sessions of the processes in `Capped` end by
MaxSession for ever; those in `Cut` also lose connections, but not for ever. With the two
processes, the first one's streams end by its death or by refusal. Two casts in one run (`cast`;
who is not in it dies first) keep deltas, retirements and a changing registry, of which one process
is enough, apart from takeovers, of which one attachment is enough. `InboxCap` is the flow-control
window. Four samples for a machine with thresholds of two are the fewest with which a verdict
changes after it has been given.
`renewal` has the code's pauses (1 s doubled up to 8 s, reset after 10 s) and the deployed Resync,
Refresh and TTL; MaxSession is shortened from 300 s to the shortest that still resets the pause, so
that sessions are capped at every phase of the other timers. In `namespaces` two sandboxes are an
old and a new one, a Pod may be unselected and selected again, and a channel of one is full after
one wake-up; the agent may stop for good, hence no deadlock check. The ASSUMEs of
`MCNamespaceWatch` go through all Pods with up to two network-status entries.

Each property of a passing run also has a mutant: a changed definition, next to the one it
changes and marked `Mutant of`, under which TLC finds the property violated.

### Fairness

- `Publication!FairSpec`: the worker, the channel source, the informer and the sweeper keep
  running (weak fairness), so a lapse is swept and a round that is to prune gets there; every queued Service gets its turn (strong, the work
  queue is first in, first out); writes do not fail for ever (strong, errors are
  retried with back-off); `Calm`: the controller is not restarted for ever and nobody keeps
  deleting its slices. Reports, lapses and cluster changes are under no fairness.
- `HealthTransport!FairSpec`: an agent that lives reconnects (`Start` retries for ever), reads
  its acks, and keeps sending snapshots (Refresh comes due again and again); a handler goes
  through its inbox and returns once its client has gone; `Quiet`: connections are not lost and
  sessions not revoked for ever. MaxSession is under no such assumption: it ends sessions for ever.
- `Sessions!FairSpec`: the reconciler works its queue off, each Pod in its turn, and a
  cancelled handler returns. One that is blocked in `stream.Send` when it is cancelled does so only
  once its transport fails: `Send` watches the stream and not the derived context. Agents do not have to hang up by themselves.
- `ProbeManager!FairSpec`: sweeps keep coming (the Resync ticker) and get to the end, and
  among those that publish some report in full (Refresh). No fairness for rounds.
- `NamespaceWatch!FairSpec`: the Resync ticker keeps starting sweeps and every call in a sweep
  returns, with or without an error. No fairness for pumps, wake-ups or the runtime, and none
  that a call succeeds: `StateCatchesUp` speaks of the time after the last failure.

### Where code and words differ

The `violation` runs:

1. `silent_snapshot`. A snapshot that no longer contains an entry deletes it;
   `notifyAll` (`health_server.go:240`) tells only the owners of what the snapshot does
   contain, and the sweeper cannot report an entry that is gone. The endpoint stays `ready`
   until something else queues the Service. The repository's README (line 23): "When evidence
   stops, readiness is withdrawn on its own." `Agreement` and `Convergence` name the
   exception, `silenced`.
2. `superseded`. A `Retired` envelope is acted upon whichever process sent it
   (`health_server.go:309`); `docs/design.md:417-418`: "anything still in flight from a
   restarted agent is discarded".
3. `shipped_lease`. Refresh is looked at by sweeps only (`grpc_sink.go:173`), so the full state is
   re-sent up to Refresh + Resync + the length of a sweep apart (`SteadyGap`), where `README.md:122`
   has "at least this often" and `grpc_sink.go:40` "bounds how long". When MaxSession strikes just
   before such a snapshot, a pause of 1 s, a dial, another Resync and another sweep are added
   (`CappedGap`). With the flags in `deploy/` (Resync 1 s, Refresh 2 s, TTL 5 s) that is 5 s and
   whatever sweeps and dial take; with half a second each, evidence lapses every so often although
   nothing fails. `deploy/agent-daemonset.yaml:27-29` asks for no more than that refresh "stay well
   under the controller's --health-ttl, or unchanged attachments expire between snapshots". The
   defaults (2 s, 1 s, 3 s) make it 6 s before any sweep or dial.

Passing runs that contradict a document:

4. `slices`. `docs/design.md:455` has one endpoint published for a contested address; the code
   (`endpointslice.go:135`) publishes none, which is what `README.md:17` says and
   `ContestedWithheld` states.
5. `transport`. The ack to a report about an unknown attachment asks for no resync
   (`health_server.go:249`), although `api/health.proto:161-162` names this as a reason to ask;
   the evidence waits for the next full report, as `ReportsArrive` allows.

Exceptions that passing properties name:

- `Enqueue` (`service_controller.go:282`) gives up when the channel is full of other Services'
  events; its comment says "a full channel already means a reconcile is pending". The sweeper
  has flagged a lapse by then and will not say so again. `Agreement` and `Convergence` name it:
  `dropped`.
- A delta's owners are looked up before the store takes it (`health_server.go:246`, `:262`). A
  Service that registers the attachment and reads the store between the two is not told. Nobody
  corrects that before the next snapshot with the entry in it. `Agreement` names it: `silenced`.
- `SweepExpired` and `Prune` are two critical sections (`expiry.go:48`, `:66`). If the sweeper is
  held up between them for more than TTL, `Prune` removes entries that were fresh when the round
  swept, so that `SweepExpired` does not report them "once each" (`health_store.go:221`) but never.
  `Agreement` names it: `silenced`.
- `ApplySnapshot` ignores sequence numbers, so the end of an old stream's snapshot can put back
  what a delta of the new stream has replaced; and `AcceptLocal` compares a delta's number only with
  an entry that is still there, so an old stream's delta can bring back a key that a newer snapshot
  or retirement has removed. `api/health.proto:48-51` says the pair (instance, sequence) resolves
  such overlaps. `ReportsArrive` shows that a later snapshot repairs either.
- Nothing keeps `--max-session` above what resets the pause (`SessionsOutlast`): below some 10 s
  every capped session doubles the pause of the next, up to 8 s. The default is 300 s.
- A namespace's file may outlive its sandbox; until it is gone the cached path is used
  (`netns/cache.go:32`), although `cache.go:9-11` has the entry detected "on the next use".
  `Current` in `StateCatchesUp` names it.
- A cached Pod whose subscription failed is not in `Monitor.Watching()`, so `retire`
  (`agent.go:328`) leaves it in the cache, which `agent.go:308-309` says does not grow without
  bound. It is the reason for the one direction of `WatchedWhereRead`.

Smaller things met on the way, without a run of their own:

- A state that moves between `States` and `TakeChanged` (`agent/agent.go:261`) is sent with
  its old value and loses its mark, so it waits for the next full report although
  `agent.go:94-97` says "Report it now". `LastingVerdictReported` is what remains true.
- A probe sent before its key left the targets counts for the key's next machine
  (`probe/manager.go:224`), once at most: `LateProbeCountsOnce`.
- A sandbox recreated between two sweeps keeps its attachment's machine: `SetTargets` goes by
  the key alone, although `probe/manager.go:63-65` speaks of "a namespace that no longer exists".
- `dropConflictingAddresses` looks at one Service; two Services publish an address that a Pod
  of each claims.
- An agent Pod made anew under its name stays registered under the old UID until the new one
  has a node (`agent_registry.go:156`): the disjunct `Succeeded` of `StreamsEndOnceSucceeded`.
  DaemonSet Pods get fresh names, so this needs another kind of owner.
- A handler that looked its agent up before the agent was removed registers its stream after
  the revocation, and nobody cancels it: `inTime` in `RevocationComplete`.

## 4. Proofs

`HealthStoreProofs` proves, for any sets of nodes, processes, attachments and path keys, any
assignment `HomeOf` of subjects to nodes, and any TTL (`StoreAssumption` in `HealthMaps` is the
only assumption):

| Theorem | States |
|---|---|
| `StoreTypeCorrect` | `StoreSpec => []StoreTypeOK`; in particular an entry came from its subject's own node |
| `SupersededEvidenceLapses` | `StoreSpec => []TakeoverBounded` |
| `OnlyLapsesFlagged` | `StoreSpec => []FlaggedIsStale` |
| `StoreImplementsLocalLease` | `StoreSpec => LocalLease!Spec` |
| `StoreImplementsPathLease` | `StoreSpec => PathLease!Spec` |

`StoreTypeOK` is inductive as it stands. `TakeoverBounded` is not: it speaks of the moment when
a process has been in charge for more than TTL, and says nothing of the ticks before. The
inductive invariant adds `PredatesTakeover` for both maps: an entry of another process than
the one in charge is at least as old as the takeover. A takeover makes that true (age >= 0),
an accepted report belongs to the process in charge, and a tick ages both sides. Past TTL
such an entry is no longer fresh.

For the refinements the mapping shows a reader's view: the entries that are fresh, with verdict,
process and age. `AdoptInstance` is `Appoint`, an accepted report is `Grant`, a snapshot is
`Replace`, `ForgetLocal` is `GiveUp`, a tick is `Pass`, and every other step, among them
`SweepExpired` and `Prune`, is a stutter. `Prune` needs `2*TTL >= TTL`, and `Grant` and
`Replace` need the invariant that an entry's node is its subject's home. In `PathLease`
nothing is `Retirable`, so the theorem also says that `ForgetLocal` leaves path evidence alone.

`HealthTransportProofs` proves for any processes, streams, subjects and bounds
(`TransportAssumption`):

| Theorem | States |
|---|---|
| `TransportTypes` | `Spec => []TransportTypeOK` |
| `TransportDrivesStore` | `Spec => StoreSpec`: the transport implements `HealthStore` |
| `TransportKeepsLeases` | `Spec => ImplementsLocalLease /\ ImplementsPathLease` |
| `NothingButWhatWasSwept` | `Spec => []ReportedAsSwept` |

`HealthTransport` extends `HealthStore`, so the refinement needs no mapping: each handler's step is
a step of the store whose conditions `localFrom`, `pathFrom` and the adoption have established, and
every other step leaves the store alone. It rests on the types of what is in flight (`Typed`: a
handler that serves a process has only reports about that process's own node in its inbox and
buffers) and on `Held`: the stream a process holds on to is its own as long as it is served, and
no two processes hold one. Through `TransportDrivesStore` every theorem about the store, `TakeoverBounded` among
them, holds of the transport.

`ReportedAsSwept` speaks of the store; the invariant has to speak of what is on its way there
(`HistoryInv`). A report in flight says what the sweep it is stamped with saw (`Truthful`). The end
of a snapshot needs more, since what it commits is in the buffers: before an end in the inbox there
are the reports of its own sweep and nothing else, back to a begin, or back to the head, and then
the buffers hold what the same sweep saw (`EndsMatched`). So a snapshot interrupted by a lost
connection cannot be committed by the end of another. `Numbered` ties a process's counter to the
sweeps it has made, and `Repeated` says that a sweep under a number already used sees what the
first one under it saw.

`PublicationProofs` proves for any Services, selectors, attachments, path keys, families, TTL and
capacity of the channel (`PublicationAssumption`; Services, attachments and path keys are finitely
many):

| Theorem | States |
|---|---|
| `PublicationTypes` | `Spec => []TypeOK` |
| `ContestedNeverPublished` | `Spec => []ContestedWithheld` |
| `SlicesAgree` | `Spec => []Agreement` |

`Agreement` is about a Service for which nothing is on its way and says nothing of how it came to
rest. The invariant (`PublicationInv`) follows a reconcile, and has two halves. *Shape*, for a
Service that is not queued: the registry has what the Service offers (`Registered`), the reconcile
in progress works on exactly that (`JobCurrent`), its copy of a slice is right unless a slice event
is outstanding (`HaveCurrent`, from `CacheCurrent`), and a slice that is settled, which has had its
turn and no outstanding event, is there iff it is wanted and has the right endpoints
(`SlicesShaped`). A stale copy does no harm because whatever made it stale will queue the
Service again. Shape needs no notification of evidence, so `ContestedWithheld` holds even where
one was lost. *Truth*, for a Service that moreover has no event, no loss recorded and no lapse
unreported (`Quiet`): what the reconcile has read so far is still so (`ReadsTrue`), although the
halves are read at different times, and what settled slices say is so (`SlicesTrue`). The heart of
it is one lemma about the store (`StoreSteps`): a step leaves a Service quiet only if no reader can
tell the difference for anything it offers. A snapshot or a `Prune` may remove a flagged entry
without a word because a flagged entry is stale (`Flags`); one that is not flagged silences its
Services. `Registered` is why notifications reach the right Services.

Two clauses of `PublicationAssumption` came from the proofs. Equal addresses are of one family,
as `Attachment.AddressType` computes the family from the address; without it, a contested address
could be published once in each family. And every node's reports have an origin.

`ControllerProofs` proves for any processes, sequence numbers and takeovers, on top of the same
constants (`ControllerAssumption`, which is `PublicationAssumption`):

| Theorem | States |
|---|---|
| `ControllerImplementsPublication` | `Spec => ImplementsPublication` |
| `PublishedReadyIsVouchedFor` | `Spec => []ReadyIsVouchedFor` |

The refinement mapping leaves out an entry's process and sequence number. Every operation on a map
commutes with that (`Anonymous*`), since age, flag, verdict and node, all that readers, sweeper and
notifications look at, stay; a report the store accepts is then one that `Publication` allows, and
`AdoptInstance` is a stutter. So whatever is proved of `Publication` holds of the controller;
`AgreementTakenOver` takes `Agreement` over. For the second theorem a step of the controller is a
step of `HealthStore`, or restarts it (`StoreStepsOf`), so the store's invariant, `PredatesTakeover`
above all, holds as well. An endpoint at rest that is published ready has, by `Agreement`, fresh and
healthy evidence in both maps; by the store's invariant that evidence is of the process in charge or at
least as old as the takeover, and being fresh it is no older than TTL.

`ProbeManagerProofs` proves for any keys and any positive thresholds (`ThresholdAssumption`):

| Theorem | States |
|---|---|
| `ProbeTypes` | `Spec => []ProbeTypeOK` |
| `VerdictIsEarned` | `Spec => []VerdictEarned` |
| `NoChangeUnannounced` | `Spec => []ChangeWakes` |
| `LateProbeOnce` | `Spec => []LateProbeCountsOnce` |

`VerdictEarned` compares the state of a machine with its whole history. The machine keeps two
counters that stop at their thresholds, so the invariant says what a counter knows
(`AllTallied`): it counts the samples at the end that agree, all of them unless it has stopped, and
the state is that of the last sample that completed a streak. `ChangeWakes` speaks of the time when
round and sweep rest; in between, a change has its token, has it coming at the end of the round, or
has a sweep before it that will take it (`ChangeCovered`). `LateProbeCountsOnce` needs that a probe
still to be folded in for a machine it was not sent for finds one without samples
(`OrphansFresh`).

`SessionsProofs` proves for any sets of Pod names, UIDs and streams, from `NoUID \notin UID`:

| Theorem | States |
|---|---|
| `SessionsTypeCorrect` | `Spec => []SessionsTypeOK` |
| `RegistryConsistent` | `Spec => []MapsAgree` |
| `SessionManagerExact` | `Spec => []SessionsExact` |
| `RevocationIsComplete` | `Spec => []RevocationComplete` |

None of the last three is inductive alone. `MapsAgree` needs that two Pods never have one UID
(`PodsDistinct`) and that a registered UID can only be that of the Pod of its name
(`RegisteredOnce`): otherwise `Upsert` could register a UID a second name leads to.
`SessionsExact` needs that a stream past `Authenticate` has a UID (`StreamsNamed`) and that
only a registered stream is ever cancelled (`CancelledServes`): otherwise a stream could be
registered and cancelled at once. `RevocationComplete` needs `SessionsExact`: `Revoke` cancels
what the session manager holds, so that has to be every stream of the agent.

`RenewalProofs` proves for any flags that are positive (`RenewalAssumption`):

| Theorem | States |
|---|---|
| `RenewalTypeCorrect` | `Spec => []RenewalTypeOK`; in particular no pause exceeds `LongestPause` |
| `SnapshotsInTime` | `Spec => []RenewedInTime`, assuming `SessionsOutlast` |
| `RecoveryInTime` | `Spec => []RecoveryBounded`, assuming `SessionsOutlast` |

`SessionsOutlast` is all that is asked of the flags, and nothing of the TTL: if sessions are capped
at all, then not before a pause is reset and a snapshot sent. `deploy/` and the defaults meet it with
300 s. That evidence is never older than `CappedGap` is then a fact about the code, and whether a TTL
is long enough a comparison with it. `RenewedInTime` is a bound on an age and says nothing of how the age gets there. The invariant bounds
the age plus the time left until the next Publish (`UntilPublish`): with a stream and no snapshot
wanted by `SteadyGap` (`SteadyBound`); between a capped session and the next by `SteadyGap` plus
the first pause and the dial (`CappedBound`); and with a snapshot wanted by `CappedGap`, provided the stream
lasts until that Publish (`WantedBound`), which a second cap in a row could prevent. A capped
session has lived longer than `Useful` (`LivedOrLeft`), so the pause after it is the first one.
`DialBound` says how much of a
session its dial leaves. `RecoveringBound` is the same argument counted from the last failure.

`NamespaceWatchProofs` proves for any sets of Pods, paths and attachments and any positive
capacity (`NamespaceAssumption`):

| Theorem | States |
|---|---|
| `NamespaceTypeCorrect` | `Spec => []NamespaceTypeOK` |
| `NoSubscriptionLeaks` | `Spec => []NoneLeftBehind` |
| `WatchesFollowCache` | `Spec => []WatchedWhereRead` |
| `NoChangeMissed` | `Spec => []NoMissedChange` |

`NoneLeftBehind` needs the types only. The other two speak of the time between sweeps, and
the invariant has to follow a sweep: a Pod that was resolved is cached, and watched if at all, where it was resolved
(`HandlesFit`); a reading belongs to a resolved Pod and a report is its reading (`ReadingsFit`);
and each reading of a watched namespace is right, or there is an update in `fired` or a wake-up
in the channel (`ReadingsNoticed`). The last holds because `Ensure` comes before `Inspect`, and
because nothing but the start of a sweep empties the channel.

It also proves about `Attachments`, from no assumption:

| Theorem | States |
|---|---|
| `AgentAndControllerAgree` | `AgentCoversNode` for any Services, Pods and node |
| `PrimaryNeverPublished` | `NeverPrimary` for any Pod and network |

Only model-checked:

- liveness (`Convergence`, `ReportsArrive`, `StreamsEndOnceSucceeded`, `LastingVerdictReported`,
  `StateCatchesUp`): the prover does no fairness;
- the three violations, which are counterexamples.

The invariants above were checked by TLC, on the runs' instances, before they were proved.

## 5. Plan

Done, in this order: the store and its lease table, publication, transport, sessions, probes,
the proofs about the store and the sessions; then renewal, namespaces and the derivation of
attachments with their proofs; then the proofs about probes, transport and publication; then stale
owners and the stalled sweeper in `Publication`, and `Controller` with its refinement; then dialling,
hung and broken connections in `Renewal`, and sessions that never stop ending, deltas and retirements
in the one `transport` run.

Next:

1. Which keys are probed: `probeConfig` and the NAD's settings, joined with `ProbeManager`.
2. `Authenticate`'s earlier stages in `Sessions`.
3. Agents and transport under `Controller`: `HealthTransport` drives the store as `Controller`'s
   handlers do (`TransportDrivesStore`), so what is published could be traced to what was observed.
