----------------------------- MODULE Sessions -----------------------------
(***************************************************************************)
(* Which agents may have a stream open: AgentRegistry and the reconciler   *)
(* that keeps it in step with the agent Pods (agent_registry.go), the      *)
(* SessionManager that can end a stream from outside (session.go), and the *)
(* part of HealthServer.Sync that ties a stream to both.                   *)
(***************************************************************************)
EXTENDS Naturals, FiniteSets

CONSTANTS
    PodName,  \* names of agent Pods
    UID,      \* Pod UIDs; the API server never gives one out twice
    NoUID,    \* ""
    Stream    \* stream handlers

ASSUME SessionsAssumption == NoUID \notin UID

VARIABLES
    pods,      \* the informer's agent Pods
    used,      \* the UIDs given out so far
    queue,     \* Pods waiting to be reconciled
    byKey,     \* AgentRegistry.byKey: Pod name -> UID
    byUID,     \* the keys of AgentRegistry.byUID
    revoking,  \* the UID the reconciler has removed and is about to revoke
    sessions,  \* SessionManager.streams: UID -> streams
    streams    \* the streams' handlers

podVars == <<pods, used>>
registryVars == <<byKey, byUID>>
vars == <<podVars, queue, registryVars, revoking, sessions, streams>>

Put(m, k, v) == [j \in DOMAIN m \cup {k} |-> IF j = k THEN v ELSE m[j]]

Drop(m, k) == [j \in DOMAIN m \ {k} |-> m[j]]

NoPod == [uid |-> NoUID, phase |-> "gone"]

\* inTime is history: whether the agent was registered when its stream was.
NoSession == [uid |-> NoUID, phase |-> "none", cancelled |-> FALSE, inTime |-> FALSE]

-----------------------------------------------------------------------------
(* The agent Pods, as the informer reports them. A name may be used again.  *)

PodCreated(p, u) ==
    /\ pods[p].phase = "gone" /\ u \notin used
    /\ pods' = [pods EXCEPT ![p] = [uid |-> u, phase |-> "unscheduled"]]
    /\ used' = used \cup {u}
    /\ queue' = queue \cup {p}
    /\ UNCHANGED <<registryVars, revoking, sessions, streams>>

PodMoves(p, from, to) ==
    /\ pods[p].phase = from
    /\ pods' = [pods EXCEPT ![p] = IF to = "gone" THEN NoPod ELSE [@ EXCEPT !.phase = to]]
    /\ queue' = queue \cup {p}
    /\ UNCHANGED <<used, registryVars, revoking, sessions, streams>>

-----------------------------------------------------------------------------
(* AgentPodReconciler, one Pod at a time. *)

Taken(p) ==
    /\ revoking = NoUID
    /\ p \in queue
    /\ queue' = queue \ {p}
    /\ UNCHANGED <<podVars, sessions, streams>>

\* Mutant of Deregister: a Pod that was never seen terminating stays registered.
DeregisterTerminating(p) ==
    /\ pods[p].phase = "terminating"
    /\ Taken(p)
    /\ IF p \in DOMAIN byKey
       THEN /\ byKey' = Drop(byKey, p)
            /\ byUID' = byUID \ {byKey[p]}
            /\ revoking' = byKey[p]
       ELSE UNCHANGED <<registryVars, revoking>>

\* Gone or terminating: AgentRegistry.remove.
Deregister(p) ==
    /\ pods[p].phase \in {"gone", "terminating"}
    /\ Taken(p)
    /\ IF p \in DOMAIN byKey
       THEN /\ byKey' = Drop(byKey, p)
            /\ byUID' = byUID \ {byKey[p]}
            /\ revoking' = byKey[p]
       ELSE UNCHANGED <<registryVars, revoking>>

\* No nodeName yet, so no authority to grant.
LeaveUnscheduled(p) ==
    /\ pods[p].phase = "unscheduled"
    /\ Taken(p)
    /\ UNCHANGED <<registryVars, revoking>>

\* Mutants of Upsert: a Pod that is gone is not told apart,
UpsertAnyPhase(p) ==
    /\ Taken(p)
    /\ byKey' = Put(byKey, p, pods[p].uid)
    /\ byUID' = byUID \cup {pods[p].uid}
    /\ revoking' = NoUID

\* the replaced UID stays in byUID,
UpsertKeepsOld(p) ==
    /\ pods[p].phase = "running"
    /\ Taken(p)
    /\ byKey' = Put(byKey, p, pods[p].uid)
    /\ byUID' = byUID \cup {pods[p].uid}
    /\ revoking' = IF p \in DOMAIN byKey /\ byKey[p] # pods[p].uid THEN byKey[p] ELSE NoUID

\* or its sessions are not revoked.
UpsertWithoutRevoke(p) ==
    /\ pods[p].phase = "running"
    /\ Taken(p)
    /\ byKey' = Put(byKey, p, pods[p].uid)
    /\ byUID' = (IF p \in DOMAIN byKey THEN byUID \ {byKey[p]} ELSE byUID) \cup {pods[p].uid}
    /\ revoking' = NoUID

\* AgentRegistry.upsert: a Pod made anew under its old name replaces the old UID.
Upsert(p) ==
    LET u == pods[p].uid
        replaced == p \in DOMAIN byKey /\ byKey[p] # u
    IN  /\ pods[p].phase = "running"
        /\ Taken(p)
        /\ byKey' = Put(byKey, p, u)
        /\ byUID' = (IF replaced THEN byUID \ {byKey[p]} ELSE byUID) \cup {u}
        /\ revoking' = IF replaced THEN byKey[p] ELSE NoUID

\* fireRemove, which is SessionManager.Revoke: cancel what is bound to the UID.
Revoke ==
    LET bound == IF revoking \in DOMAIN sessions THEN sessions[revoking] ELSE {}
    IN  /\ revoking # NoUID
        /\ revoking' = NoUID
        /\ sessions' = Drop(sessions, revoking)
        /\ streams' = [st \in Stream |->
                         IF st \in bound THEN [streams[st] EXCEPT !.cancelled = TRUE]
                                         ELSE streams[st]]
        /\ UNCHANGED <<podVars, queue, registryVars>>

-----------------------------------------------------------------------------
(* The handler of a stream. *)

\* Authenticate ends with the look-up in the registry;
Authenticate(st, u) ==
    /\ streams[st].phase = "none"
    /\ u \in byUID
    /\ streams' = [streams EXCEPT ![st].uid = u, ![st].phase = "authenticated"]
    /\ UNCHANGED <<podVars, queue, registryVars, revoking, sessions>>

\* Register comes after it, and does not look again.
Register(st) ==
    LET u == streams[st].uid
    IN  /\ streams[st].phase = "authenticated"
        /\ sessions' = Put(sessions, u, {st} \cup IF u \in DOMAIN sessions THEN sessions[u] ELSE {})
        /\ streams' = [streams EXCEPT ![st].phase = "registered", ![st].inTime = u \in byUID]
        /\ UNCHANGED <<podVars, queue, registryVars, revoking>>

\* Mutant of Release: the UID's whole entry goes.
ReleaseAll(st) ==
    /\ streams[st].phase = "registered"
    /\ sessions' = Drop(sessions, streams[st].uid)
    /\ streams' = [streams EXCEPT ![st] = NoSession]
    /\ UNCHANGED <<podVars, queue, registryVars, revoking>>

\* The handler returns, cancelled or because the client went away, and releases.
Release(st) ==
    LET u == streams[st].uid
        rest == IF u \in DOMAIN sessions THEN sessions[u] \ {st} ELSE {}
    IN  /\ streams[st].phase = "registered"
        /\ sessions' = IF rest = {} THEN Drop(sessions, u) ELSE Put(sessions, u, rest)
        /\ streams' = [streams EXCEPT ![st] = NoSession]
        /\ UNCHANGED <<podVars, queue, registryVars, revoking>>

-----------------------------------------------------------------------------
(* Specification. *)

Init ==
    /\ pods = [p \in PodName |-> NoPod]
    /\ used = {}
    /\ queue = {}
    /\ byKey = [p \in {} |-> NoUID]
    /\ byUID = {}
    /\ revoking = NoUID
    /\ sessions = [u \in {} |-> {}]
    /\ streams = [st \in Stream |-> NoSession]

PodEvents ==
    \E p \in PodName :
        \/ \E u \in UID : PodCreated(p, u)
        \/ PodMoves(p, "unscheduled", "running")
        \/ PodMoves(p, "running", "terminating")
        \/ \E from \in {"unscheduled", "running", "terminating"} : PodMoves(p, from, "gone")

Reconcile == Revoke \/ \E p \in PodName : Deregister(p) \/ LeaveUnscheduled(p) \/ Upsert(p)

Next ==
    \/ PodEvents
    \/ Reconcile
    \/ \E st \in Stream : Register(st) \/ Release(st) \/ \E u \in UID : Authenticate(st, u)

Spec == Init /\ [][Next]_vars

\* The reconciler works its queue off and a cancelled handler returns.
FairSpec ==
    /\ Spec
    /\ WF_vars(Reconcile)
    /\ \A p \in PodName : SF_vars(Deregister(p) \/ LeaveUnscheduled(p) \/ Upsert(p))
    /\ \A st \in Stream : WF_vars(streams[st].cancelled /\ Release(st))

-----------------------------------------------------------------------------
(* Properties. *)

\* Every variable stays within its type.
SessionsTypeOK ==
    /\ pods \in [PodName -> [uid : UID \cup {NoUID},
                             phase : {"gone", "unscheduled", "running", "terminating"}]]
    /\ used \subseteq UID
    /\ queue \subseteq PodName
    /\ DOMAIN byKey \subseteq PodName /\ byKey \in [DOMAIN byKey -> UID]
    /\ byUID \subseteq UID
    /\ revoking \in UID \cup {NoUID}
    /\ DOMAIN sessions \subseteq UID /\ sessions \in [DOMAIN sessions -> SUBSET Stream]
    /\ streams \in [Stream -> [uid : UID \cup {NoUID}, phase : {"none", "authenticated", "registered"},
                               cancelled : BOOLEAN, inTime : BOOLEAN]]

\* AgentRegistry's two maps agree: an agent is found by UID exactly as long as its
\* Pod's name leads to it, and no two names lead to one UID.
MapsAgree ==
    /\ byUID = {byKey[p] : p \in DOMAIN byKey}
    /\ \A p, q \in DOMAIN byKey : byKey[p] = byKey[q] => p = q

\* SessionManager holds the streams that can still be revoked, all of them and no
\* other: Revoke and release, in either order, neither leak an entry nor take one
\* of another stream along, and a UID without streams has no entry.
SessionsExact ==
    /\ \A st \in Stream, u \in UID :
        (u \in DOMAIN sessions /\ st \in sessions[u])
            <=> streams[st].phase = "registered" /\ ~streams[st].cancelled /\ streams[st].uid = u
    /\ \A u \in DOMAIN sessions : sessions[u] # {}

\* A stream that was registered while its agent was does not outlive the agent's
\* registration: by the time the agent is gone from AgentRegistry, the stream is
\* cancelled or about to be. (One whose handler looked the agent up just before
\* and registers just after is nobody's to cancel.)
RevocationComplete ==
    \A st \in Stream :
        streams[st].phase = "registered" /\ streams[st].inTime /\ ~streams[st].cancelled
            => streams[st].uid \in byUID \cup {revoking}

Serves(st, u) == streams[st].phase = "registered" /\ streams[st].uid = u

Deleted(u) == u \in used /\ \A p \in PodName : pods[p].uid # u

\* u's Pod was made anew under its name and the new one has no node yet.
Succeeded(u) == \E p \in DOMAIN byKey : byKey[p] = u /\ pods[p].phase = "unscheduled"

\* Deleting an agent Pod ends its stream, if a Pod that takes over its name does
\* not stay unscheduled: the reconciler leaves the registry alone until then.
StreamsEndOnceSucceeded ==
    \A st \in Stream, u \in UID :
        Serves(st, u) /\ streams[st].inTime /\ Deleted(u) ~> ~Serves(st, u) \/ Succeeded(u)
=============================================================================
