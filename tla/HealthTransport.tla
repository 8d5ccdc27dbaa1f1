-------------------------- MODULE HealthTransport --------------------------
(***************************************************************************)
(* How observations travel: the agents' sinks (agent/grpc_sink.go, and the *)
(* part of agent/agent.go that decides what a sweep sends), the gRPC       *)
(* streams between them and the controller, and the handler of each stream *)
(* (HealthServer.Sync), which drives the store of HealthStore.             *)
(*                                                                         *)
(* Envelopes are numbered by the sweep that sent them.  The code numbers   *)
(* them one by one, but it compares numbers only between reports about one *)
(* key, and a sweep sends at most one of those, so the order is the same.  *)
(* Time stands still here: leases do not lapse, which is HealthStore's     *)
(* subject; a refresh that has come due is a choice of the sweep.          *)
(***************************************************************************)
EXTENDS HealthStore, Sequences, SequencesExt

CONSTANTS
    Verdict,    \* what an observation may say: healthy or not
    Behind,     \* the attachment each path key is derived from (Endpoint scope)
    Shifting,   \* the attachments that enter and leave the registry
    Capped,     \* the processes whose sessions last until MaxSession is up
    Cut,        \* the processes whose streams get lost, capped early or revoked
    Sweeps,     \* bound: how many sweeps of a process get a number of their own
    Endless,    \* bound: the processes that send snapshots beyond that
    NodeOf,     \* the node each agent process runs on
    Stream,     \* stream handlers
    NoStream,   \* GRPCSink.stream when there is none
    NoAgent,    \* whose a stream is that nobody holds on to
    InboxCap    \* bound: envelopes in flight at which flow control blocks a send

ASSUME TransportAssumption ==
    /\ Verdict \subseteq BOOLEAN
    /\ Capped \subseteq Instance /\ Cut \subseteq Instance /\ Endless \subseteq Instance
    /\ Sweeps \in [Instance -> 1..MaxSeq]
    /\ Behind \in [PathKey -> Attachment]
    /\ \A k \in PathKey : HomeOf[Behind[k]] = HomeOf[k]
    /\ Shifting \subseteq Attachment
    /\ NodeOf \in [Instance -> Node]
    /\ NoStream \notin Stream
    /\ NoAgent \notin Instance
    /\ InboxCap \in Nat

VARIABLES
    seen,     \* what there is to observe: subject -> healthy
    known,    \* the subjects Registry knows
    agents,   \* each agent process
    streams,  \* each stream, both ends
    swept     \* history: process -> what its sweeps saw, in the order of their numbers

transportVars == <<seen, known, agents, streams, swept>>
vars == <<storeVars, transportVars>>

Subject == Attachment \cup PathKey

\* An attachment and the path keys derived from it.
Bundle(a) == {a} \cup {k \in PathKey : Behind[k] = a}

SubjectsOn(n) == {k \in Subject : HomeOf[k] = n}

\* What the agents of node n observe now.
View(n) == [k \in DOMAIN seen \cap SubjectsOn(n) |-> seen[k]]

\* A process without a stream, which may as well not have been started yet, and a
\* stream neither end holds on to.
Unconnected == [alive |-> TRUE, prev |-> Empty, stream |-> NoStream,
               needSnapshot |-> FALSE, sending |-> FALSE, seq |-> 0]

Closed == [open |-> FALSE, serving |-> FALSE, by |-> NoAgent, inbox |-> <<>>, resync |-> FALSE,
           adopted |-> FALSE, inSnapshot |-> FALSE, bufLocal |-> Empty, bufPath |-> Empty,
           committed |-> FALSE]

-----------------------------------------------------------------------------
(* The observed node, and the registry as reconciles leave it. *)

\* Bound: once an endless process has used up its numbers the world stands still, so
\* that the sweeps that repeat the last number all see the same.
Room == \A i \in Endless : agents[i].alive => agents[i].seq < Sweeps[i]

\* A path is probed only while its attachment is there.
Observe(k, healthy) ==
    /\ Room
    /\ k \in PathKey => Behind[k] \in DOMAIN seen
    /\ seen' = Put(seen, k, healthy)
    /\ seen' # seen
    /\ UNCHANGED <<storeVars, known, agents, streams, swept>>

Vanish(k) ==
    /\ Room
    /\ k \in DOMAIN seen
    /\ seen' = Drop(seen, IF k \in Attachment THEN Bundle(k) ELSE {k})
    /\ UNCHANGED <<storeVars, known, agents, streams, swept>>

\* A reconcile registers an attachment, or drops it, together with its path key.
RegistryChange(a) ==
    /\ Room
    /\ known' = IF a \in known THEN known \ Bundle(a) ELSE known \cup Bundle(a)
    /\ UNCHANGED <<storeVars, seen, agents, streams, swept>>

-----------------------------------------------------------------------------
(* The agent: its process, and GRPCSink.session. *)

\* The client end of i's stream is gone; the handler finds out in its own time.
HungUp(i) ==
    [st \in Stream |->
        IF st # agents[i].stream THEN streams[st]
        ELSE IF streams[st].serving
             THEN [streams[st] EXCEPT !.open = FALSE, !.resync = FALSE]
        ELSE Closed]

AgentDies(i) ==
    /\ agents[i].alive
    /\ agents' = [agents EXCEPT ![i] = [Unconnected EXCEPT !.alive = FALSE]]
    /\ streams' = HungUp(i)
    /\ UNCHANGED <<storeVars, seen, known, swept>>

\* The streams are alike, so which free one is taken makes no difference.
OpenStream(i) ==
    LET free == {st \in Stream : streams[st] = Closed}
        st == CHOOSE st \in free : TRUE
    IN  /\ agents[i].alive /\ agents[i].stream = NoStream
        /\ free # {}
        /\ agents' = [agents EXCEPT ![i].stream = st, ![i].needSnapshot = TRUE]
        /\ streams' = [streams EXCEPT ![st] =
                         [Closed EXCEPT !.open = TRUE, !.serving = TRUE, !.by = i]]
        /\ UNCHANGED <<storeVars, seen, known, swept>>

\* i has a stream and its handler has not returned.
Connected(i) == agents[i].stream # NoStream /\ streams[agents[i].stream].serving

\* Start drops a stream.
SessionOver(i) ==
    /\ agents' = [agents EXCEPT ![i].stream = NoStream]
    /\ streams' = HungUp(i)
    /\ UNCHANGED <<storeVars, seen, known, swept>>

\* MaxSession is up, which lasts long enough for a snapshot to be committed,
SessionCapped(i) ==
    /\ i \in Capped
    /\ Connected(i) /\ streams[agents[i].stream].committed
    /\ SessionOver(i)

\* the connection is lost, or the session was too short for that,
SessionEnds(i) ==
    /\ i \in Cut
    /\ Connected(i)
    /\ SessionOver(i)

\* or the handler has returned.
SessionRefused(i) ==
    /\ agents[i].stream # NoStream /\ ~Connected(i)
    /\ SessionOver(i)

AckReceived(i) ==
    /\ agents[i].stream # NoStream /\ streams[agents[i].stream].resync
    /\ agents' = [agents EXCEPT ![i].needSnapshot = TRUE]
    /\ streams' = [streams EXCEPT ![agents[i].stream].resync = FALSE]
    /\ UNCHANGED <<storeVars, seen, known, swept>>

-----------------------------------------------------------------------------
(* A sweep and GRPCSink.Publish. *)

\* Reports about the attachments, then about the path keys, of K.
Reports(view, K, q) ==
    LET about(kind, S) ==
            LET keys == SetToSeq(S)
            IN  [j \in 1..Len(keys) |->
                   [kind |-> kind, key |-> keys[j], ready |-> view[keys[j]], seq |-> q]]
    IN  about("local", K \cap Attachment) \o about("path", K \cap PathKey)

\* sendSnapshot.
SnapshotOf(view, q) ==
    <<[kind |-> "begin", seq |-> q]>> \o Reports(view, DOMAIN view, q)
        \o <<[kind |-> "end", seq |-> q]>>

\* sendDeltas: what changed since the last sweep, and the attachments that went. An
\* attachment and its path share one mark in Snapshot.Changed, so either brings the
\* other along.
DeltasOf(view, prev, q) ==
    LET moved == {k \in DOMAIN view : k \notin DOMAIN prev \/ prev[k] # view[k]}
        changed == DOMAIN view \cap
                     UNION {Bundle(a) : a \in {b \in Attachment : Bundle(b) \cap moved # {}}}
        retired == SetToSeq((DOMAIN prev \ DOMAIN view) \cap Attachment)
    IN  Reports(view, changed, q)
            \o [j \in 1..Len(retired) |-> [kind |-> "retired", key |-> retired[j], seq |-> q]]

\* Bound: past its Sweeps a process sends nothing, or, if it is Endless, nothing but
\* snapshots that repeat the last number.
NextSeq(i) == IF agents[i].seq < Sweeps[i] THEN agents[i].seq + 1 ELSE agents[i].seq

\* One sweep of process i puts the envelopes of batch on its stream.
Send(i, batch) ==
    LET g == agents[i] IN
    /\ g.alive /\ ~g.sending
    /\ Connected(i)
    /\ Len(streams[g.stream].inbox) + Len(batch) <= InboxCap
    /\ streams' = [streams EXCEPT ![g.stream].inbox = @ \o batch]
    /\ swept' = IF g.seq < Sweeps[i] THEN [swept EXCEPT ![i] = Append(@, View(NodeOf[i]))]
                ELSE swept
    /\ UNCHANGED <<storeVars, seen, known>>

\* Publish with a snapshot wanted, or Refresh gone by since the last one.
PublishSnapshot(i) ==
    LET g == agents[i]  view == View(NodeOf[i]) IN
    /\ g.seq < Sweeps[i] \/ i \in Endless
    /\ Send(i, SnapshotOf(view, NextSeq(i)))
    /\ agents' = [agents EXCEPT ![i].prev = view, ![i].seq = NextSeq(i), ![i].sending = TRUE]

\* Publish's last step, after the sends: a request for a snapshot that came in
\* between is forgotten.
PublishDone(i) ==
    /\ agents[i].sending
    /\ agents' = [agents EXCEPT ![i].sending = FALSE, ![i].needSnapshot = FALSE]
    /\ UNCHANGED <<storeVars, seen, known, streams, swept>>

PublishDeltas(i) ==
    LET g == agents[i]  view == View(NodeOf[i]) IN
    /\ ~g.needSnapshot
    /\ g.seq < Sweeps[i]
    /\ g.prev # view
    /\ Send(i, DeltasOf(view, g.prev, NextSeq(i)))
    /\ agents' = [agents EXCEPT ![i].prev = view, ![i].seq = NextSeq(i)]

\* No stream, or one whose handler has returned: Publish fails, and what changed
\* is not remembered.
PublishFails(i) ==
    LET g == agents[i] IN
    /\ g.alive /\ ~g.sending
    /\ ~Connected(i)
    /\ g.prev # View(NodeOf[i])
    /\ agents' = [agents EXCEPT ![i].prev = View(NodeOf[i])]
    /\ UNCHANGED <<storeVars, seen, known, streams, swept>>

-----------------------------------------------------------------------------
(* HealthServer.Sync, one handler per stream. *)

OriginAt(st) == [node |-> NodeOf[streams[st].by], instance |-> streams[st].by,
                 seq |-> Head(streams[st].inbox).seq]

\* The handler returns; the client, if it is still there, has yet to notice.
Returned(s) == [Closed EXCEPT !.open = s.open]

\* The client is gone or the session is revoked: whatever was not handled is lost.
HandlerCancelled(st) ==
    /\ streams[st].serving
    /\ streams[st].open => streams[st].by \in Cut
    /\ streams' = [streams EXCEPT ![st] = Returned(@)]
    /\ UNCHANGED <<storeVars, seen, known, agents, swept>>

\* The first envelope makes its process the authority for the node.
Adopt(st) ==
    /\ streams[st].serving /\ ~streams[st].adopted /\ streams[st].inbox # <<>>
    /\ AdoptInstance(NodeOf[streams[st].by], streams[st].by)
    /\ streams' = [streams EXCEPT ![st].adopted = TRUE, ![st].resync = streams[st].open]
    /\ UNCHANGED <<seen, known, agents, swept>>

\* The envelope the handler is about to act on.
Handling(st, kind) ==
    /\ streams[st].adopted
    /\ streams[st].inbox # <<>>
    /\ Head(streams[st].inbox).kind = kind
    /\ UNCHANGED <<seen, known, agents, swept>>

Consumed(s) == [s EXCEPT !.inbox = Tail(@)]

\* Mutant of SnapshotBegin: the buffers are not emptied.
SnapshotBeginDirty(st) ==
    /\ Handling(st, "begin")
    /\ streams' = [streams EXCEPT ![st] = [Consumed(@) EXCEPT !.inSnapshot = TRUE]]
    /\ UNCHANGED storeVars

SnapshotBegin(st) ==
    /\ Handling(st, "begin")
    /\ streams' = [streams EXCEPT ![st] =
                     [Consumed(@) EXCEPT !.inSnapshot = TRUE, !.bufLocal = Empty, !.bufPath = Empty]]
    /\ UNCHANGED storeVars

\* The refusal of an end without its begin, or with another epoch, is left out: an
\* agent sends both, in order, with one epoch.
SnapshotEnd(st) ==
    /\ Handling(st, "end")
    /\ ApplySnapshot(OriginAt(st), streams[st].bufLocal, streams[st].bufPath)
    /\ streams' = [streams EXCEPT ![st] =
                     [Consumed(@) EXCEPT !.inSnapshot = FALSE, !.committed = TRUE]]

\* localFrom or pathFrom does not know the subject.
Unknown(st, kind) ==
    /\ Handling(st, kind)
    /\ Head(streams[st].inbox).key \notin known
    /\ streams' = [streams EXCEPT ![st] = Consumed(@)]
    /\ UNCHANGED storeVars

LocalBuffered(st) ==
    LET s == streams[st]  e == Head(s.inbox) IN
    /\ Handling(st, "local") /\ s.inSnapshot /\ e.key \in known
    /\ streams' = [streams EXCEPT ![st] = [Consumed(s) EXCEPT !.bufLocal = Put(@, e.key, e.ready)]]
    /\ UNCHANGED storeVars

PathBuffered(st) ==
    LET s == streams[st]  e == Head(s.inbox) IN
    /\ Handling(st, "path") /\ s.inSnapshot /\ e.key \in known
    /\ streams' = [streams EXCEPT ![st] = [Consumed(s) EXCEPT !.bufPath = Put(@, e.key, e.ready)]]
    /\ UNCHANGED storeVars

LocalDelta(st) ==
    LET e == Head(streams[st].inbox) IN
    /\ Handling(st, "local") /\ ~streams[st].inSnapshot /\ e.key \in known
    /\ AcceptLocal(OriginAt(st), e.key, e.ready)
    /\ streams' = [streams EXCEPT ![st] = Consumed(@)]

\* Mutant of PathDelta: path evidence is filed as local evidence.
PathDeltaMisfiled(st) ==
    LET e == Head(streams[st].inbox) IN
    /\ Handling(st, "path") /\ ~streams[st].inSnapshot /\ e.key \in known
    /\ AcceptLocal(OriginAt(st), e.key, e.ready)
    /\ streams' = [streams EXCEPT ![st] = Consumed(@)]

PathDelta(st) ==
    LET e == Head(streams[st].inbox) IN
    /\ Handling(st, "path") /\ ~streams[st].inSnapshot /\ e.key \in known
    /\ AcceptPath(OriginAt(st), e.key, e.ready)
    /\ streams' = [streams EXCEPT ![st] = Consumed(@)]

\* ErrOutOfOrder.
DeltaOutOfOrder(st) ==
    LET e == Head(streams[st].inbox)
        o == OriginAt(st)
    IN  /\ Handling(st, "local") \/ Handling(st, "path")
        /\ ~streams[st].inSnapshot /\ e.key \in known
        /\ Current(o)
        /\ OutOfOrder(IF e.kind = "local" THEN local ELSE path, o, e.key)
        /\ streams' = [streams EXCEPT ![st] = Consumed(@)]
        /\ UNCHANGED storeVars

\* Mutant of StaleInstance: the envelope is refused and the stream stays open.
StaleInstanceIgnored(st) ==
    /\ \/ Handling(st, "end")
       \/ /\ Handling(st, "local") \/ Handling(st, "path")
          /\ ~streams[st].inSnapshot /\ Head(streams[st].inbox).key \in known
    /\ ~Current(OriginAt(st))
    /\ streams' = [streams EXCEPT ![st] = Consumed(@)]
    /\ UNCHANGED storeVars

\* ErrStaleInstance: the handler returns, so that the agent reconnects.
StaleInstance(st) ==
    /\ \/ Handling(st, "end")
       \/ /\ Handling(st, "local") \/ Handling(st, "path")
          /\ ~streams[st].inSnapshot /\ Head(streams[st].inbox).key \in known
    /\ ~Current(OriginAt(st))
    /\ streams' = [streams EXCEPT ![st] = Returned(@)]
    /\ UNCHANGED storeVars

Retired(st) ==
    /\ Handling(st, "retired")
    /\ ForgetLocal(Head(streams[st].inbox).key)
    /\ streams' = [streams EXCEPT ![st] = Consumed(@)]

Handle(st) ==
    \/ Adopt(st)
    \/ SnapshotBegin(st) \/ SnapshotEnd(st)
    \/ Unknown(st, "local") \/ Unknown(st, "path")
    \/ LocalBuffered(st) \/ PathBuffered(st)
    \/ LocalDelta(st) \/ PathDelta(st)
    \/ DeltaOutOfOrder(st) \/ StaleInstance(st)
    \/ Retired(st)

-----------------------------------------------------------------------------
(* Specification. *)

Init ==
    /\ StoreInit
    /\ seen = Empty
    /\ known = Subject
    /\ agents = [i \in Instance |-> Unconnected]
    /\ streams = [st \in Stream |-> Closed]
    /\ swept = [i \in Instance |-> <<>>]

World ==
    \/ \E k \in Subject : Vanish(k) \/ \E healthy \in Verdict : Observe(k, healthy)
    \/ \E a \in Shifting : RegistryChange(a)
    \/ \E i \in Instance : AgentDies(i)

Agent(i) ==
    \/ OpenStream(i)
    \/ SessionRefused(i) \/ AckReceived(i)
    \/ PublishSnapshot(i) \/ PublishDone(i) \/ PublishDeltas(i) \/ PublishFails(i)

Next ==
    \/ World
    \/ \E i \in Instance : Agent(i) \/ SessionCapped(i) \/ SessionEnds(i)
    \/ \E st \in Stream : Handle(st) \/ HandlerCancelled(st)

Spec == Init /\ [][Next]_vars

\* The agent's and the controller's goroutines keep running; Refresh goes by again
\* and again, so sweeps keep sending snapshots, as far as the bound lets them.
Fairness ==
    /\ \A i \in Instance :
        /\ WF_vars(OpenStream(i))
        /\ WF_vars(SessionRefused(i))
        /\ WF_vars(AckReceived(i))
        /\ WF_vars(PublishDone(i))
        /\ i \in Endless => WF_vars(PublishSnapshot(i))
    /\ \A st \in Stream :
        /\ WF_vars(Handle(st))
        /\ WF_vars(~streams[st].open /\ HandlerCancelled(st))

\* Connections are not lost and sessions not revoked for ever; MaxSession ends
\* sessions for ever.
Quiet ==
    <>[][/\ \A i \in Instance : ~SessionEnds(i)
         /\ \A st \in Stream : streams[st].open => ~HandlerCancelled(st)]_vars

FairSpec == Spec /\ Fairness /\ Quiet

-----------------------------------------------------------------------------
(* Properties. *)

IsView(v) == DOMAIN v \subseteq Subject /\ v \in [DOMAIN v -> BOOLEAN]

\* Every variable stays within its type, and what is in flight within InboxCap.
TransportTypeOK ==
    /\ StoreTypeOK
    /\ IsView(seen)
    /\ known \subseteq Subject
    /\ \A i \in Instance :
        /\ IsView(agents[i].prev)
        /\ agents[i].stream \in Stream \cup {NoStream}
        /\ agents[i].seq \in 0..MaxSeq
    /\ \A st \in Stream :
        /\ streams[st].by \in Instance \cup {NoAgent}
        /\ Len(streams[st].inbox) <= InboxCap
        /\ IsView(streams[st].bufLocal) /\ IsView(streams[st].bufPath)

\* m holds about each key what the sweep its entry is stamped with observed.
AsSwept(m) ==
    \A k \in DOMAIN m :
        LET e == m[k] IN
        /\ k \in DOMAIN swept[e.instance][e.seq]
        /\ swept[e.instance][e.seq][k] = e.ready

\* No snapshot is committed in part or together with leftovers of another one:
\* across reconnects, overlapping streams and interrupted snapshots, an entry says
\* what the process it names observed in the very sweep it is stamped with.
ReportedAsSwept == AsSwept(local) /\ AsSwept(path)

\* What is in flight from a process that was superseded is discarded: evidence of
\* the process in charge goes only when a stream of that process is handled.
SupersededIsDiscarded ==
    [][\A a \in DOMAIN local \ DOMAIN local' :
         local[a].instance = nodeInstance[local[a].node] =>
            \E st \in Stream :
                streams[st].by = local[a].instance /\ streams'[st] # streams[st]]_vars

\* Process i alone runs on the node of k, and both ends know k.
Reporting(i, k) ==
    /\ k \in known /\ k \in DOMAIN seen
    /\ NodeOf[i] = HomeOf[k]
    /\ \A j \in Instance : NodeOf[j] = HomeOf[k] => (agents[j].alive <=> j = i)

Stored(k, healthy) ==
    LET m == IF k \in Attachment THEN local ELSE path
    IN  k \in DOMAIN m /\ m[k].ready = healthy

\* An agent is heard in the end: whatever streams were lost or dropped, whatever a
\* process before it still had in flight, even if such a straggler took the node over
\* again, and although reports were dropped while the registry did not know their
\* subject, a steady observation of the one running agent comes to be in the store
\* and stays there, also while MaxSession ends one session after the other.
ReportsArrive ==
    \A i \in Endless, k \in Subject, healthy \in Verdict :
        <>[](Reporting(i, k) /\ seen[k] = healthy) => <>[]Stored(k, healthy)
=============================================================================
