----------------------------- MODULE Controller -----------------------------
(***************************************************************************)
(* The controller whole: HealthStore's operations, with the process in     *)
(* charge of each node and the sequence numbers, called by the handlers of *)
(* Sync and by the sweeper, and what Publication models around them.       *)
(*                                                                         *)
(* Publication takes it that an entry's process and sequence number show   *)
(* nowhere but in which reports the store accepts. Here they are present,  *)
(* and the module is to be an implementation of Publication.               *)
(***************************************************************************)
EXTENDS HealthStore

CONSTANTS
    Service, NoService, Selects, Family, FamilyOf, AddressOf, PathKeyOf,
    ServiceState, PodState, Observed, PathVerdict, MaxEndpoints, EventCap

VARIABLES
    services, pods, registry, answered, sweeping, events, queue, job,
    slices, cached, watch, dropped, silenced

\* An entry, and a map, without processes and sequence numbers.
Faceless(e) == [e EXCEPT !.instance = OriginOf(e.node).instance, !.seq = OriginOf(e.node).seq]
Anonymous(m) == [k \in DOMAIN m |-> Faceless(m[k])]

P == INSTANCE Publication WITH local <- Anonymous(local), path <- Anonymous(path)

\* The constants are as Publication takes them.
ASSUME ControllerAssumption == P!PublicationAssumption

restVars == <<services, pods, registry, answered, sweeping, events, queue, job,
              slices, cached, watch, dropped, silenced>>
vars == <<storeVars, restVars>>

-----------------------------------------------------------------------------
(* Sync: the begin of a stream, and the reports the store accepts. *)

Adopt(n, i) == AdoptInstance(n, i) /\ UNCHANGED restVars

LocalReport(o, a, owners, ready) ==
    /\ AcceptLocal(o, a, ready)
    /\ P!Told(P!Once(owners), P!OwnersOf(a))
    /\ UNCHANGED sweeping

PathReport(o, k, owners, ready) ==
    /\ AcceptPath(o, k, ready)
    /\ P!Told(P!Once(owners), P!PathOwnersOf(k))
    /\ UNCHANGED sweeping

SnapshotEnd(o, locals, paths) ==
    /\ ApplySnapshot(o, locals, paths)
    /\ P!Told(P!Once(P!Owners(DOMAIN locals, DOMAIN paths)),
              P!Owners(P!LostBy(local, o.node, DOMAIN locals),
                       P!LostBy(path, o.node, DOMAIN paths)))
    /\ UNCHANGED sweeping

Retired(a) ==
    /\ ForgetLocal(a)
    /\ P!Told(P!Once(P!OwnersOf(a)), {})
    /\ UNCHANGED sweeping

Handlers ==
    \/ \E n \in Node, i \in Instance : Adopt(n, i)
    \/ \E o \in Origin :
        \/ \E a \in AttachmentsOn(o.node), owners \in SUBSET Service, ready \in BOOLEAN :
            <<"local", a, owners>> \in answered /\ LocalReport(o, a, owners, ready)
        \/ \E k \in PathKeysOn(o.node), owners \in SUBSET Service, ready \in PathVerdict :
            <<"path", k, owners>> \in answered /\ PathReport(o, k, owners, ready)
        \/ \E A \in SUBSET P!Known(o.node), K \in SUBSET P!KnownPaths(o.node) :
            \E locals \in [A -> BOOLEAN], paths \in [K -> PathVerdict] :
                SnapshotEnd(o, locals, paths)
    \/ \E a \in Observed : Retired(a)

-----------------------------------------------------------------------------
(* The sweeper, and time. *)

Sweep(prune) ==
    /\ ~sweeping
    /\ SweepExpired
    /\ sweeping' = prune
    /\ P!Told(P!LapseCalls, {})

SweepEnds ==
    /\ sweeping
    /\ Prune
    /\ sweeping' = FALSE
    /\ P!Told(P!Once({}), P!Owners(P!Unreported(local), P!Unreported(path)))

Sweeper == (\E prune \in BOOLEAN : Sweep(prune)) \/ SweepEnds

TimePasses == ClockTick /\ UNCHANGED restVars

-----------------------------------------------------------------------------
(* What reads the store or leaves it alone is Publication's. *)

Elsewhere ==
    /\ UNCHANGED storeVars
    /\ P!Cluster \/ (\E s \in Service : P!ChannelPump(s)) \/ P!Worker

\* The store comes up empty, and with nobody in charge of any node.
Restart ==
    /\ local' = Empty
    /\ path' = Empty
    /\ nodeInstance' = Empty
    /\ sinceTakeover' = Empty
    /\ P!Restart

Init == StoreInit /\ P!Init

Next == Handlers \/ Sweeper \/ TimePasses \/ Elsewhere \/ Restart

Spec == Init /\ [][Next]_vars

-----------------------------------------------------------------------------
(* Properties. *)

\* Whatever processes report under whatever sequence numbers: registry, notifications,
\* sweeps, reconciles and slices behave as if there were none, and every report the store
\* accepts is one Publication has.
ImplementsPublication == P!Spec

\* k has fresh, healthy evidence, of the process in charge of its node or of one
\* it has replaced no more than TTL ago.
Vouched(m, k) ==
    /\ StateOf(m, k) = "Healthy"
    /\ HomeOf[k] \in DOMAIN nodeInstance
    /\ m[k].instance = nodeInstance[HomeOf[k]] \/ sinceTakeover[HomeOf[k]] <= TTL

\* End to end: with nothing on its way for a Service and no notification of it lost, an
\* endpoint is published ready only if its Pod is ready and both halves of the evidence are
\* vouched for, whatever is still in flight from superseded processes.
ReadyIsVouchedFor ==
    \A s \in Service, a \in Attachment :
        /\ services[s] # "absent" /\ ~P!Owed(s) /\ s \notin dropped \cup silenced
        /\ P!PublishedReady(s, a)
        => pods[a] = "ready" /\ Vouched(local, a) /\ Vouched(path, PathKeyOf[a])
=============================================================================
