-------------------------- MODULE SessionsProofs --------------------------
(***************************************************************************)
(* Theorems about Sessions, for any sets of Pod names, UIDs and streams.   *)
(***************************************************************************)
EXTENDS Sessions, TLAPS

\* A Pod that is there has a UID that was given out, and no other Pod has it.
PodsDistinct ==
    /\ \A p \in PodName : pods[p].phase # "gone" <=> pods[p].uid # NoUID
    /\ \A p \in PodName : pods[p].uid # NoUID => pods[p].uid \in used
    /\ \A p, q \in PodName : pods[p].uid = pods[q].uid /\ pods[p].uid # NoUID => p = q

\* A registered UID was given out, and only the Pod of the name it is registered
\* under can still have it.
RegisteredOnce ==
    \A p \in DOMAIN byKey :
        /\ byKey[p] \in used
        /\ \A q \in PodName : pods[q].uid = byKey[p] => p = q

\* A stream whose handler has got past Authenticate has a UID.
StreamsNamed == \A st \in Stream : streams[st].phase # "none" => streams[st].uid \in UID

RegistryInv == SessionsTypeOK /\ PodsDistinct /\ StreamsNamed /\ RegisteredOnce /\ MapsAgree

LEMMA InitRegistry == Init => RegistryInv
  BY SessionsAssumption
  DEF Init, RegistryInv, SessionsTypeOK, PodsDistinct, StreamsNamed, RegisteredOnce, MapsAgree, NoPod, NoSession

LEMMA StepType == SessionsTypeOK /\ PodsDistinct /\ StreamsNamed /\ [Next]_vars => SessionsTypeOK'
  <1> SUFFICES ASSUME SessionsTypeOK, PodsDistinct, StreamsNamed, [Next]_vars
               PROVE  SessionsTypeOK'
    OBVIOUS
  <1> USE DEF SessionsTypeOK
  <1>1. ASSUME NEW p \in PodName, NEW u \in UID, PodCreated(p, u)
        PROVE  SessionsTypeOK'
    BY <1>1 DEF PodCreated, registryVars
  <1>2. ASSUME NEW p \in PodName, NEW from, NEW to \in {"running", "terminating", "gone"},
               PodMoves(p, from, to)
        PROVE  SessionsTypeOK'
    BY <1>2 DEF PodMoves, registryVars, NoPod
  <1>3. ASSUME NEW p \in PodName, Deregister(p)
        PROVE  SessionsTypeOK'
    BY <1>3 DEF Deregister, Taken, Drop, podVars, registryVars
  <1>4. ASSUME NEW p \in PodName, LeaveUnscheduled(p)
        PROVE  SessionsTypeOK'
    BY <1>4 DEF LeaveUnscheduled, Taken, podVars, registryVars
  <1>5. ASSUME NEW p \in PodName, Upsert(p)
        PROVE  SessionsTypeOK'
    <2>1. pods[p].uid \in UID
      BY <1>5 DEF Upsert, PodsDistinct
    <2>2. QED
      BY <1>5, <2>1 DEF Upsert, Taken, Put, podVars
  <1>6. CASE Revoke
    BY <1>6 DEF Revoke, Drop, podVars, registryVars
  <1>7. ASSUME NEW st \in Stream, NEW u \in UID, Authenticate(st, u)
        PROVE  SessionsTypeOK'
    BY <1>7 DEF Authenticate, podVars, registryVars
  <1>8. ASSUME NEW st \in Stream, Register(st)
        PROVE  SessionsTypeOK'
    <2> DEFINE known == streams[st].uid \in byUID
               u == streams[st].uid
               bound == {st} \cup IF u \in DOMAIN sessions THEN sessions[u] ELSE {}
    <2>1. u \in UID /\ bound \in SUBSET Stream
      BY <1>8 DEF Register, StreamsNamed
    <2>2. known \in BOOLEAN
      OBVIOUS
    <2>3. /\ sessions' = Put(sessions, u, bound)
          /\ streams' = [streams EXCEPT ![st].phase = "registered", ![st].inTime = known]
          /\ UNCHANGED <<pods, used, queue, byKey, byUID, revoking>>
      BY <1>8 DEF Register, podVars, registryVars
    <2> HIDE DEF known, bound, u
    <2>4. /\ DOMAIN sessions' \subseteq UID
          /\ sessions' \in [DOMAIN sessions' -> SUBSET Stream]
      BY <2>1, <2>3 DEF Put
    <2>5. streams' \in [Stream -> [uid : UID \cup {NoUID},
                                  phase : {"none", "authenticated", "registered"},
                                  cancelled : BOOLEAN, inTime : BOOLEAN]]
      BY <2>2, <2>3
    <2>6. QED
      BY <2>3, <2>4, <2>5
  <1>9. ASSUME NEW st \in Stream, Release(st)
        PROVE  SessionsTypeOK'
    BY <1>9 DEF Release, Put, Drop, NoSession, podVars, registryVars
  <1>10. CASE UNCHANGED vars
    BY <1>10 DEF vars, podVars, registryVars
  <1>11. QED
    BY <1>1, <1>2, <1>3, <1>4, <1>5, <1>6, <1>7, <1>8, <1>9, <1>10 DEF Next, PodEvents, Reconcile

LEMMA StepPods == SessionsTypeOK /\ PodsDistinct /\ [Next]_vars => PodsDistinct'
  <1> SUFFICES ASSUME SessionsTypeOK, PodsDistinct, [Next]_vars
               PROVE  PodsDistinct'
    OBVIOUS
  <1> USE DEF PodsDistinct
  <1>1. ASSUME NEW p \in PodName, NEW u \in UID, PodCreated(p, u)
        PROVE  PodsDistinct'
    BY <1>1, SessionsAssumption DEF PodCreated, SessionsTypeOK
  <1>2. ASSUME NEW p \in PodName, NEW from \in {"unscheduled", "running", "terminating"},
               NEW to \in {"running", "terminating", "gone"}, PodMoves(p, from, to)
        PROVE  PodsDistinct'
    BY <1>2 DEF PodMoves, NoPod, SessionsTypeOK
  <1>3. CASE UNCHANGED podVars
    BY <1>3 DEF podVars
  <1>4. QED
    BY <1>1, <1>2, <1>3
    DEF Next, PodEvents, Reconcile, Deregister, LeaveUnscheduled, Upsert, Taken, Revoke,
        Authenticate, Register, Release, vars

LEMMA StepNamed == SessionsTypeOK /\ StreamsNamed /\ [Next]_vars => StreamsNamed'
  <1> SUFFICES ASSUME SessionsTypeOK, StreamsNamed, [Next]_vars
               PROVE  StreamsNamed'
    OBVIOUS
  <1> USE DEF StreamsNamed, SessionsTypeOK
  <1>1. CASE Revoke
    BY <1>1 DEF Revoke
  <1>2. ASSUME NEW st \in Stream, NEW u \in UID, Authenticate(st, u)
        PROVE  StreamsNamed'
    BY <1>2 DEF Authenticate
  <1>3. ASSUME NEW st \in Stream, Register(st)
        PROVE  StreamsNamed'
    BY <1>3 DEF Register
  <1>4. ASSUME NEW st \in Stream, Release(st)
        PROVE  StreamsNamed'
    BY <1>4 DEF Release, NoSession
  <1>5. CASE UNCHANGED streams
    BY <1>5
  <1>6. QED
    BY <1>1, <1>2, <1>3, <1>4, <1>5
    DEF Next, PodEvents, PodCreated, PodMoves, Reconcile, Deregister, LeaveUnscheduled,
        Upsert, Taken, vars

LEMMA StepRegistered ==
    RegistryInv /\ [Next]_vars => RegisteredOnce' /\ MapsAgree'
  <1> SUFFICES ASSUME RegistryInv, [Next]_vars
               PROVE  RegisteredOnce' /\ MapsAgree'
    OBVIOUS
  <1> USE DEF RegistryInv, RegisteredOnce, MapsAgree
  <1>1. ASSUME NEW p \in PodName, NEW u \in UID, PodCreated(p, u)
        PROVE  RegisteredOnce' /\ MapsAgree'
    BY <1>1 DEF PodCreated, registryVars, SessionsTypeOK
  <1>2. ASSUME NEW p \in PodName, NEW from, NEW to, PodMoves(p, from, to)
        PROVE  RegisteredOnce' /\ MapsAgree'
    BY <1>2, SessionsAssumption DEF PodMoves, NoPod, registryVars, SessionsTypeOK
  <1>3. ASSUME NEW p \in PodName, Deregister(p)
        PROVE  RegisteredOnce' /\ MapsAgree'
    BY <1>3 DEF Deregister, Taken, Drop, podVars, registryVars, SessionsTypeOK
  <1>4. ASSUME NEW p \in PodName, Upsert(p)
        PROVE  RegisteredOnce' /\ MapsAgree'
    <2> DEFINE u == pods[p].uid
    <2>1. /\ u # NoUID /\ u \in used
          /\ \A q \in PodName : pods[q].uid = u => q = p
          /\ \A q \in DOMAIN byKey : byKey[q] = u => q = p
      BY <1>4 DEF Upsert, PodsDistinct, SessionsTypeOK
    <2>2. /\ byKey' = Put(byKey, p, u)
          /\ byUID' = (IF p \in DOMAIN byKey /\ byKey[p] # u THEN byUID \ {byKey[p]} ELSE byUID)
                        \cup {u}
          /\ UNCHANGED <<pods, used>>
      BY <1>4 DEF Upsert, Taken, podVars
    <2> HIDE DEF u
    <2>3. /\ DOMAIN byKey' = DOMAIN byKey \cup {p}
          /\ \A q \in DOMAIN byKey' : byKey'[q] = IF q = p THEN u ELSE byKey[q]
      BY <2>2 DEF Put
    <2>4. RegisteredOnce'
      BY <2>1, <2>2, <2>3
    <2>5. \A q, r \in DOMAIN byKey' : byKey'[q] = byKey'[r] => q = r
      BY <2>1, <2>3
    <2>6. byUID' = {byKey'[q] : q \in DOMAIN byKey'}
      BY <2>1, <2>2, <2>3
    <2>7. QED  BY <2>4, <2>5, <2>6
  <1>5. CASE UNCHANGED <<podVars, registryVars>>
    BY <1>5 DEF podVars, registryVars
  <1>6. QED
    BY <1>1, <1>2, <1>3, <1>4, <1>5
    DEF Next, PodEvents, Reconcile, LeaveUnscheduled, Taken, Revoke, Authenticate, Register,
        Release, vars

LEMMA StepRegistry == RegistryInv /\ [Next]_vars => RegistryInv'
  BY StepType, StepPods, StepNamed, StepRegistered DEF RegistryInv

\* The variables keep their types, whatever Pods and streams do.
THEOREM SessionsTypeCorrect == Spec => []SessionsTypeOK
  <1>1. RegistryInv => SessionsTypeOK
    BY DEF RegistryInv
  <1>2. QED
    BY <1>1, InitRegistry, StepRegistry, PTL DEF Spec

\* AgentRegistry's maps by name and by UID agree after any number of Pods created,
\* replaced under their names and deleted, in whatever order the reconciler sees it.
THEOREM RegistryConsistent == Spec => []MapsAgree
  <1>1. RegistryInv => MapsAgree
    BY DEF RegistryInv
  <1>2. QED
    BY <1>1, InitRegistry, StepRegistry, PTL DEF Spec

-----------------------------------------------------------------------------
(* The session manager. *)

\* Only a registered stream is ever cancelled.
CancelledServes == \A st \in Stream : streams[st].cancelled => streams[st].phase = "registered"

SessionInv == RegistryInv /\ CancelledServes /\ SessionsExact

\* Bound(u): the streams the session manager holds for u.
Bound(u) == IF u \in DOMAIN sessions THEN sessions[u] ELSE {}

LEMMA StepSessions == SessionInv /\ [Next]_vars => SessionsExact'
  <1> SUFFICES ASSUME SessionInv, [Next]_vars
               PROVE  SessionsExact'
    OBVIOUS
  <1> USE DEF SessionInv, RegistryInv
  <1>1. CASE Revoke
    <2>1. revoking \in UID
      BY <1>1 DEF Revoke, SessionsTypeOK
    <2>2. /\ DOMAIN sessions' = DOMAIN sessions \ {revoking}
          /\ \A u \in DOMAIN sessions' : sessions'[u] = sessions[u]
      BY <1>1 DEF Revoke, Drop
    <2>3. \A st \in Stream :
            streams'[st] = IF st \in Bound(revoking) THEN [streams[st] EXCEPT !.cancelled = TRUE]
                                                     ELSE streams[st]
      BY <1>1 DEF Revoke, Bound
    <2>4. ASSUME NEW st \in Stream
          PROVE  /\ streams'[st].phase = streams[st].phase
                 /\ streams'[st].uid = streams[st].uid
                 /\ streams'[st].cancelled <=> streams[st].cancelled \/ st \in Bound(revoking)
      BY <2>3 DEF SessionsTypeOK
    <2>5. ASSUME NEW st \in Stream, NEW u \in UID
          PROVE  (u \in DOMAIN sessions' /\ st \in sessions'[u])
                   <=> (streams'[st].phase = "registered" /\ ~streams'[st].cancelled
                          /\ streams'[st].uid = u)
      <3>1. CASE u = revoking
        BY <2>1, <2>2, <2>4, <3>1 DEF SessionsExact, Bound
      <3>2. CASE u # revoking
        BY <2>1, <2>2, <2>4, <3>2 DEF SessionsExact, Bound
      <3>3. QED  BY <3>1, <3>2
    <2>6. \A u \in DOMAIN sessions' : sessions'[u] # {}
      BY <2>2 DEF SessionsExact
    <2>7. QED  BY <2>5, <2>6 DEF SessionsExact
  <1>2. ASSUME NEW st \in Stream, NEW u \in UID, Authenticate(st, u)
        PROVE  SessionsExact'
    BY <1>2 DEF Authenticate, SessionsExact, SessionsTypeOK
  <1>3. ASSUME NEW st \in Stream, Register(st)
        PROVE  SessionsExact'
    <2> DEFINE u == streams[st].uid
    <2>1. u \in UID /\ streams[st].phase = "authenticated"
      BY <1>3 DEF Register, StreamsNamed
    <2>2. sessions' = Put(sessions, u, {st} \cup Bound(u))
      BY <1>3 DEF Register, Bound
    <2>3. \A s \in Stream :
            /\ streams'[s].uid = streams[s].uid
            /\ streams'[s].cancelled = streams[s].cancelled
            /\ streams'[s].phase = IF s = st THEN "registered" ELSE streams[s].phase
      BY <1>3 DEF Register, SessionsTypeOK
    <2>4. ~streams[st].cancelled
      BY <2>1 DEF CancelledServes
    <2>5. QED  BY <2>1, <2>2, <2>3, <2>4 DEF SessionsExact, Bound, Put
  <1>4. ASSUME NEW st \in Stream, Release(st)
        PROVE  SessionsExact'
    BY <1>4 DEF SessionsExact, Release, Put, Drop, NoSession, StreamsNamed, SessionsTypeOK
  <1>5. CASE UNCHANGED <<sessions, streams>>
    BY <1>5 DEF SessionsExact
  <1>6. QED
    BY <1>1, <1>2, <1>3, <1>4, <1>5
    DEF Next, PodEvents, PodCreated, PodMoves, Reconcile, Deregister, LeaveUnscheduled, Upsert,
        Taken, vars

LEMMA StepCancelled == SessionInv /\ [Next]_vars => CancelledServes'
  <1> SUFFICES ASSUME SessionInv, [Next]_vars
               PROVE  CancelledServes'
    OBVIOUS
  <1> USE DEF SessionInv, RegistryInv, CancelledServes, SessionsTypeOK
  <1>1. CASE Revoke
    <2>1. \A st \in Bound(revoking) : streams[st].phase = "registered"
      BY <1>1 DEF Revoke, Bound, SessionsExact
    <2>2. QED  BY <1>1, <2>1 DEF Revoke, Bound
  <1>2. ASSUME NEW st \in Stream, NEW u \in UID, Authenticate(st, u)
        PROVE  CancelledServes'
    BY <1>2 DEF Authenticate
  <1>3. ASSUME NEW st \in Stream, Register(st)
        PROVE  CancelledServes'
    BY <1>3 DEF Register
  <1>4. ASSUME NEW st \in Stream, Release(st)
        PROVE  CancelledServes'
    BY <1>4 DEF Release, NoSession
  <1>5. CASE UNCHANGED streams
    BY <1>5
  <1>6. QED
    BY <1>1, <1>2, <1>3, <1>4, <1>5
    DEF Next, PodEvents, PodCreated, PodMoves, Reconcile, Deregister, LeaveUnscheduled, Upsert,
        Taken, vars

LEMMA InitSession == Init => SessionInv
  BY InitRegistry DEF Init, SessionInv, CancelledServes, SessionsExact, NoSession

LEMMA StepSession == SessionInv /\ [Next]_vars => SessionInv'
  BY StepRegistry, StepCancelled, StepSessions DEF SessionInv

\* SessionManager holds exactly the streams that can still be revoked: Register,
\* release and Revoke in any order, by any number of streams of an agent, neither
\* leak an entry nor lose one.
THEOREM SessionManagerExact == Spec => []SessionsExact
  <1>1. SessionInv => SessionsExact
    BY DEF SessionInv
  <1>2. QED
    BY <1>1, InitSession, StepSession, PTL DEF Spec

-----------------------------------------------------------------------------
(* Revocation. *)

RevocationInv == SessionInv /\ RevocationComplete

LEMMA InitRevocation == Init => RevocationInv
  BY InitSession DEF Init, RevocationInv, RevocationComplete, NoSession

LEMMA StepRevocation == RevocationInv /\ [Next]_vars => RevocationInv'
  <1> SUFFICES ASSUME RevocationInv, [Next]_vars
               PROVE  RevocationComplete'
    BY StepSession DEF RevocationInv
  <1> USE DEF RevocationInv, SessionInv, RegistryInv, RevocationComplete, SessionsTypeOK
  <1>1. ASSUME NEW p \in PodName, Deregister(p)
        PROVE  RevocationComplete'
    BY <1>1, SessionsAssumption DEF Deregister, Taken, registryVars, StreamsNamed
  <1>2. ASSUME NEW p \in PodName, Upsert(p)
        PROVE  RevocationComplete'
    BY <1>2, SessionsAssumption DEF Upsert, Taken, StreamsNamed
  <1>3. CASE Revoke
    <2>1. revoking \in UID
      BY <1>3 DEF Revoke
    <2>2. \A st \in Stream :
            streams[st].phase = "registered" /\ ~streams[st].cancelled /\ streams[st].uid = revoking
              => st \in Bound(revoking)
      BY <2>1 DEF SessionsExact, Bound
    <2>3. /\ byUID' = byUID
          /\ \A st \in Stream :
               streams'[st] = IF st \in Bound(revoking)
                              THEN [streams[st] EXCEPT !.cancelled = TRUE] ELSE streams[st]
      BY <1>3 DEF Revoke, Bound, registryVars
    <2>4. QED  BY <2>2, <2>3
  <1>4. ASSUME NEW st \in Stream, NEW u \in UID, Authenticate(st, u)
        PROVE  RevocationComplete'
    BY <1>4 DEF Authenticate, registryVars
  <1>5. ASSUME NEW st \in Stream, Register(st)
        PROVE  RevocationComplete'
    <2>1. \A s \in Stream :
            /\ streams'[s].uid = streams[s].uid
            /\ streams'[s].cancelled = streams[s].cancelled
            /\ s # st => streams'[s] = streams[s]
      BY <1>5 DEF Register
    <2>2. streams'[st].inTime = (streams[st].uid \in byUID)
      BY <1>5 DEF Register
    <2>3. byUID' = byUID /\ revoking' = revoking
      BY <1>5 DEF Register, registryVars
    <2>4. QED  BY <2>1, <2>2, <2>3
  <1>6. ASSUME NEW st \in Stream, Release(st)
        PROVE  RevocationComplete'
    BY <1>6 DEF Release, NoSession, registryVars
  <1>7. CASE UNCHANGED <<registryVars, revoking, streams>>
    BY <1>7 DEF registryVars
  <1>8. QED
    BY <1>1, <1>2, <1>3, <1>4, <1>5, <1>6, <1>7
    DEF Next, PodEvents, PodCreated, PodMoves, Reconcile, LeaveUnscheduled, Taken, vars

\* No stream registered in time outlives its agent's registration: when the agent
\* has gone from AgentRegistry, Revoke has cancelled the stream or is about to.
THEOREM RevocationIsComplete == Spec => []RevocationComplete
  <1>1. RevocationInv => RevocationComplete
    BY DEF RevocationInv
  <1>2. QED
    BY <1>1, InitRevocation, StepRevocation, PTL DEF Spec
===========================================================================
