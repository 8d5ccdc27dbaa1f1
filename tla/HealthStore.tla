---------------------------- MODULE HealthStore ----------------------------
(***************************************************************************)
(* internal/controller/health_store.go: the controller's two maps of       *)
(* observations, local (by attachment id) and path (by path key), the      *)
(* agent process authoritative for each node, and the operations on them.  *)
(* Every operation holds the store's mutex throughout, so each is one      *)
(* action.                                                                 *)
(***************************************************************************)
EXTENDS HealthMaps

VARIABLES
    local,         \* HealthStore.local
    path,          \* HealthStore.path
    nodeInstance,  \* HealthStore.nodeInstance
    sinceTakeover  \* history: ticks since nodeInstance[n] last changed value

storeVars == <<local, path, nodeInstance, sinceTakeover>>

\* Mutant of Current: any process is taken for the current one.
CurrentUnchecked(o) == o.node \in DOMAIN nodeInstance

\* currentLocked.
Current(o) == o.node \in DOMAIN nodeInstance /\ nodeInstance[o.node] = o.instance

-----------------------------------------------------------------------------
(* Operations. *)

\* NewHealthStore.
StoreInit ==
    /\ local = Empty
    /\ path = Empty
    /\ nodeInstance = Empty
    /\ sinceTakeover = Empty

AdoptInstance(n, i) ==
    /\ nodeInstance' = Put(nodeInstance, n, i)
    /\ sinceTakeover' = IF n \in DOMAIN nodeInstance /\ nodeInstance[n] = i
                        THEN sinceTakeover
                        ELSE Put(sinceTakeover, n, 0)
    /\ UNCHANGED <<local, path>>

\* Mutant of AcceptLocal: a superseded process is not turned away.
AcceptLocalUnfenced(o, a, ready) ==
    /\ ~OutOfOrder(local, o, a)
    /\ local' = Put(local, a, AcceptedEntry(o, ready))
    /\ UNCHANGED <<path, nodeInstance, sinceTakeover>>

AcceptLocal(o, a, ready) ==
    /\ Current(o)
    /\ ~OutOfOrder(local, o, a)
    /\ local' = Put(local, a, AcceptedEntry(o, ready))
    /\ UNCHANGED <<path, nodeInstance, sinceTakeover>>

\* Mutant of AcceptPath: the entry goes into the wrong map.
AcceptPathMisfiled(o, k, ready) ==
    /\ Current(o)
    /\ ~OutOfOrder(path, o, k)
    /\ local' = Put(local, k, AcceptedEntry(o, ready))
    /\ UNCHANGED <<path, nodeInstance, sinceTakeover>>

AcceptPath(o, k, ready) ==
    /\ Current(o)
    /\ ~OutOfOrder(path, o, k)
    /\ path' = Put(path, k, AcceptedEntry(o, ready))
    /\ UNCHANGED <<local, nodeInstance, sinceTakeover>>

ApplySnapshot(o, locals, paths) ==
    /\ Current(o)
    /\ local' = Replaced(local, o, locals)
    /\ path' = Replaced(path, o, paths)
    /\ UNCHANGED <<nodeInstance, sinceTakeover>>

ForgetLocal(a) ==
    /\ local' = Drop(local, {a})
    /\ UNCHANGED <<path, nodeInstance, sinceTakeover>>

SweepExpired ==
    /\ local' = Swept(local)
    /\ path' = Swept(path)
    /\ UNCHANGED <<nodeInstance, sinceTakeover>>

Prune ==
    /\ local' = Drop(local, Dead(local))
    /\ path' = Drop(path, Dead(path))
    /\ UNCHANGED <<nodeInstance, sinceTakeover>>

\* now() advances by one tick.
ClockTick ==
    /\ local' = Aged(local)
    /\ path' = Aged(path)
    /\ sinceTakeover' = [n \in DOMAIN sinceTakeover |->
                           IF sinceTakeover[n] <= TTL THEN sinceTakeover[n] + 1
                                                      ELSE sinceTakeover[n]]
    /\ UNCHANGED nodeInstance

-----------------------------------------------------------------------------
(* The store driven by any caller that respects what localFrom and pathFrom *)
(* have checked: a report is about a subject of the node it comes from.     *)

StoreNext ==
    \/ \E n \in Node, i \in Instance : AdoptInstance(n, i)
    \/ \E o \in Origin, ready \in BOOLEAN :
        \/ \E a \in AttachmentsOn(o.node) : AcceptLocal(o, a, ready)
        \/ \E k \in PathKeysOn(o.node) : AcceptPath(o, k, ready)
    \/ \E o \in Origin :
        \E A \in SUBSET AttachmentsOn(o.node), K \in SUBSET PathKeysOn(o.node) :
            \E locals \in [A -> BOOLEAN], paths \in [K -> BOOLEAN] :
                ApplySnapshot(o, locals, paths)
    \/ \E a \in Attachment : ForgetLocal(a)
    \/ SweepExpired
    \/ Prune
    \/ ClockTick

StoreSpec == StoreInit /\ [][StoreNext]_storeVars

-----------------------------------------------------------------------------
(* Properties. *)

\* The store's maps are well typed, and each entry came from the node its
\* subject lives on.
StoreTypeOK ==
    /\ IsStoreMap(local, Attachment)
    /\ IsStoreMap(path, PathKey)
    /\ DOMAIN nodeInstance \subseteq Node
    /\ nodeInstance \in [DOMAIN nodeInstance -> Instance]
    /\ sinceTakeover \in [DOMAIN nodeInstance -> 0..(TTL + 1)]

\* An entry of a process other than the one in charge of its node is at least
\* as old as the takeover.
PredatesTakeover(m) ==
    \A k \in DOMAIN m :
        /\ m[k].node \in DOMAIN nodeInstance
        /\ \/ m[k].instance = nodeInstance[m[k].node]
           \/ m[k].age >= sinceTakeover[m[k].node]

\* Once an agent process has been in charge of a node for more than TTL, no
\* reader sees fresh evidence from any process it superseded: whatever was in
\* flight when AdoptInstance ran, none of it was let in afterwards.
TakeoverBounded ==
    \A n \in DOMAIN nodeInstance : sinceTakeover[n] > TTL =>
        /\ \A a \in DOMAIN local :
            local[a].node = n /\ Fresh(local, a) => local[a].instance = nodeInstance[n]
        /\ \A k \in DOMAIN path :
            path[k].node = n /\ Fresh(path, k) => path[k].instance = nodeInstance[n]

\* SweepExpired reports a lapse, never a live lease: a flagged entry is stale,
\* and a renewal clears the flag so that the next lapse is reported again.
FlaggedIsStale ==
    /\ \A a \in DOMAIN local : local[a].expired => ~Fresh(local, a)
    /\ \A k \in DOMAIN path : path[k].expired => ~Fresh(path, k)

\* What a reader of one map can see.
Visible(m) ==
    [k \in {j \in DOMAIN m : Fresh(m, j)} |->
        [ready |-> m[k].ready, by |-> m[k].instance, age |-> m[k].age]]

LocalLease == INSTANCE EvidenceLease WITH
    Subject <- Attachment, Home <- HomeOf, Retirable <- Attachment,
    holder <- nodeInstance, lease <- Visible(local)

PathLease == INSTANCE EvidenceLease WITH
    Subject <- PathKey, Home <- HomeOf, Retirable <- {},
    holder <- nodeInstance, lease <- Visible(path)

\* To readers of HealthStore.Local the store is a lease table: evidence appears
\* only on the word of the process in charge, lapses by itself TTL after its
\* last renewal, and SweepExpired and Prune are invisible.
ImplementsLocalLease == LocalLease!Spec

\* The same for HealthStore.Path, where nothing but a lapse or a snapshot ends a
\* lease: ForgetLocal leaves path evidence alone.
ImplementsPathLease == PathLease!Spec
=============================================================================
