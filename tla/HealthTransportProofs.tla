----------------------- MODULE HealthTransportProofs -----------------------
(***************************************************************************)
(* Theorems about HealthTransport, for any nodes, processes, subjects,     *)
(* streams and bounds.                                                     *)
(***************************************************************************)
EXTENDS HealthTransport, HealthStoreProofs, FiniteSetTheorems

\* Observations about some of the subjects in S.
Partial(S) == UNION {[K -> BOOLEAN] : K \in SUBSET S}

\* What a process on node n may put on its stream.
Report(n) ==
    [kind : {"local"}, key : AttachmentsOn(n), ready : BOOLEAN, seq : Sequence]
        \cup [kind : {"path"}, key : PathKeysOn(n), ready : BOOLEAN, seq : Sequence]

Mark == [kind : {"begin", "end"}, seq : Sequence]

Retirement == [kind : {"retired"}, key : Attachment, seq : Sequence]

Envelope(n) == Report(n) \cup Mark \cup Retirement

Agents == [alive : BOOLEAN, prev : Partial(Subject), stream : Stream \cup {NoStream},
           needSnapshot : BOOLEAN, sending : BOOLEAN, seq : 0..MaxSeq]

\* A stream whose handler serves process i, and one nobody serves.
Served(i) ==
    [open : BOOLEAN, serving : {TRUE}, by : {i}, inbox : Seq(Envelope(NodeOf[i])), resync : BOOLEAN,
     adopted : BOOLEAN, inSnapshot : BOOLEAN, committed : BOOLEAN,
     bufLocal : Partial(AttachmentsOn(NodeOf[i])), bufPath : Partial(PathKeysOn(NodeOf[i]))]

Unserved ==
    [open : BOOLEAN, serving : {FALSE}, by : {NoAgent}, inbox : {<<>>}, resync : {FALSE},
     adopted : {FALSE}, inSnapshot : {FALSE}, committed : {FALSE}, bufLocal : {Empty},
     bufPath : {Empty}]

StreamSet == Unserved \cup UNION {Served(i) : i \in Instance}

\* Types, those of what is in flight included. A process only ever sees finitely
\* much, so that SetToSeq lists it.
Typed ==
    /\ StoreTypeOK
    /\ seen \in Partial(Subject) /\ IsFiniteSet(DOMAIN seen)
    /\ known \subseteq Subject
    /\ agents \in [Instance -> Agents]
    /\ \A i \in Instance : IsFiniteSet(DOMAIN agents[i].prev)
    /\ streams \in [Stream -> StreamSet]
    /\ \A st \in Stream : Len(streams[st].inbox) <= InboxCap

\* A stream that a process holds on to is its own, as long as it is served.
Held ==
    /\ \A i \in Instance : agents[i].stream # NoStream =>
        /\ streams[agents[i].stream].open
        /\ streams[agents[i].stream].serving => streams[agents[i].stream].by = i
    /\ \A i, j \in Instance :
        agents[i].stream = agents[j].stream /\ agents[i].stream # NoStream => i = j

-----------------------------------------------------------------------------
(* What is in flight, in the buffers and in the store, against what the     *)
(* sweeps saw. w stands for swept, s for a stream.                          *)

\* Sweep q of process i observed ready of k.
Saw(w, i, q, k, ready) == q \in 1..Len(w[i]) /\ k \in DOMAIN w[i][q] /\ w[i][q][k] = ready

IsReport(e) == e.kind \in {"local", "path"}

\* Every report in flight says what the sweep it is stamped with saw.
Truthful(w, s) ==
    \A j \in 1..Len(s.inbox) :
        IsReport(s.inbox[j]) => Saw(w, s.by, s.inbox[j].seq, s.inbox[j].key, s.inbox[j].ready)

\* All that is buffered was seen by sweep q.
BufferedFrom(w, s, q) ==
    /\ \A k \in DOMAIN s.bufLocal : Saw(w, s.by, q, k, s.bufLocal[k])
    /\ \A k \in DOMAIN s.bufPath : Saw(w, s.by, q, k, s.bufPath[k])

\* Envelopes first..last of the inbox are reports of sweep q.
ReportsOf(inbox, first, last, q) == \A l \in first..last : IsReport(inbox[l]) /\ inbox[l].seq = q

\* The end of a snapshot in flight has, before it, the rest of that snapshot and
\* nothing else: back to its beginning, or back to the head of the inbox, and then
\* the buffers hold what came before.
Matched(w, s, j) ==
    \/ \E b \in 1..(j - 1) : s.inbox[b].kind = "begin" /\ ReportsOf(s.inbox, b + 1, j - 1, s.inbox[j].seq)
    \/ ReportsOf(s.inbox, 1, j - 1, s.inbox[j].seq) /\ BufferedFrom(w, s, s.inbox[j].seq)

EndsMatched(w, s) == \A j \in 1..Len(s.inbox) : s.inbox[j].kind = "end" => Matched(w, s, j)

Sound(w, s) == Truthful(w, s) /\ EndsMatched(w, s)

InFlightSound == \A st \in Stream : Sound(swept, streams[st])

\* Every entry of m is stamped with a sweep that was made and saw what it says.
StoredSound(w, m) == \A k \in DOMAIN m : Saw(w, m[k].instance, m[k].seq, k, m[k].ready)

\* Sweeps are numbered in the order they are made.
Numbered ==
    /\ swept \in [Instance -> Seq(Partial(Subject))]
    /\ \A i \in Instance :
        agents[i].alive => agents[i].seq = Len(swept[i]) /\ agents[i].seq <= Sweeps[i]

\* A sweep that repeats the last number sees what the sweep before it saw.
Repeated ==
    \A i \in Endless :
        agents[i].alive /\ agents[i].seq = Sweeps[i] => swept[i][Sweeps[i]] = View(NodeOf[i])

HistoryInv ==
    Numbered /\ Repeated /\ InFlightSound /\ StoredSound(swept, local) /\ StoredSound(swept, path)

-----------------------------------------------------------------------------
(* What a sweep sends. *)

LEMMA Listed ==
  ASSUME NEW S, IsFiniteSet(S)
  PROVE  SetToSeq(S) \in Seq(S)
  <1> DEFINE n == Cardinality(S)
  <1>1. n \in Nat /\ ExistsBijection(1..n, S)
    BY FS_CardinalityType
  <1> HIDE DEF n
  <1>2. \E f \in [1..n -> S] : IsInjective(f)
    BY <1>1 DEF ExistsBijection, Bijection, Injection
  <1>3. (CHOOSE f \in [1..n -> S] : IsInjective(f)) \in [1..n -> S]
    BY <1>2
  <1>4. QED
    BY <1>1, <1>3 DEF SetToSeq, n

\* The reports of a sweep that saw view, about the keys of K.
About(kind, S, view, q) == {[kind |-> kind, key |-> k, ready |-> view[k], seq |-> q] : k \in S}

SweepReports(view, K, q) ==
    About("local", K \cap Attachment, view, q) \cup About("path", K \cap PathKey, view, q)

LEMMA ListedAbout ==
  ASSUME NEW S, IsFiniteSet(S), NEW kind, NEW view, NEW q
  PROVE  [j \in 1..Len(SetToSeq(S)) |->
            [kind |-> kind, key |-> SetToSeq(S)[j], ready |-> view[SetToSeq(S)[j]], seq |-> q]]
           \in Seq(About(kind, S, view, q))
  <1> DEFINE keys == SetToSeq(S)
  <1>1. keys \in Seq(S) /\ Len(keys) \in Nat /\ \A j \in 1..Len(keys) : keys[j] \in S
    BY Listed
  <1> HIDE DEF keys
  <1>2. \A j \in 1..Len(keys) :
          [kind |-> kind, key |-> keys[j], ready |-> view[keys[j]], seq |-> q] \in About(kind, S, view, q)
    BY <1>1 DEF About
  <1>3. [j \in 1..Len(keys) |->
          [kind |-> kind, key |-> keys[j], ready |-> view[keys[j]], seq |-> q]]
          \in [1..Len(keys) -> About(kind, S, view, q)]
    BY <1>2
  <1>4. QED
    BY <1>1, <1>3 DEF keys

LEMMA SeqUnion ==
  ASSUME NEW S, NEW T, NEW s \in Seq(S), NEW t \in Seq(T)
  PROVE  s \o t \in Seq(S \cup T)
  <1>1. s \in Seq(S \cup T) /\ t \in Seq(S \cup T)
    <2>1. s \in [1..Len(s) -> S] /\ t \in [1..Len(t) -> T] /\ Len(s) \in Nat /\ Len(t) \in Nat
      OBVIOUS
    <2>2. s \in [1..Len(s) -> S \cup T] /\ t \in [1..Len(t) -> S \cup T]
      BY <2>1
    <2>3. QED
      BY <2>1, <2>2
  <1>2. QED
    BY <1>1

LEMMA ReportsListed ==
  ASSUME NEW view, NEW K, IsFiniteSet(K), NEW q
  PROVE  Reports(view, K, q) \in Seq(SweepReports(view, K, q))
  <1>1. IsFiniteSet(K \cap Attachment) /\ IsFiniteSet(K \cap PathKey)
    BY FS_Subset
  <1> DEFINE Listing(kind, S) ==
               [j \in 1..Len(SetToSeq(S)) |->
                  [kind |-> kind, key |-> SetToSeq(S)[j], ready |-> view[SetToSeq(S)[j]], seq |-> q]]
  <1>2. /\ Listing("local", K \cap Attachment) \in Seq(About("local", K \cap Attachment, view, q))
        /\ Listing("path", K \cap PathKey) \in Seq(About("path", K \cap PathKey, view, q))
    BY <1>1, ListedAbout
  <1>3. Reports(view, K, q) = Listing("local", K \cap Attachment) \o Listing("path", K \cap PathKey)
    BY DEF Reports
  <1> HIDE DEF Listing
  <1>4. QED
    BY <1>2, <1>3, SeqUnion DEF SweepReports

\* sendSnapshot: a beginning, reports and an end.
LEMMA SnapshotListed ==
  ASSUME NEW view, IsFiniteSet(DOMAIN view), NEW q
  PROVE  LET b == SnapshotOf(view, q)
             marks == {[kind |-> "begin", seq |-> q], [kind |-> "end", seq |-> q]}
         IN  /\ b \in Seq(marks \cup SweepReports(view, DOMAIN view, q))
             /\ Len(b) \in Nat /\ Len(b) >= 2
             /\ b[1] = [kind |-> "begin", seq |-> q]
             /\ b[Len(b)] = [kind |-> "end", seq |-> q]
             /\ \A l \in 2..(Len(b) - 1) : b[l] \in SweepReports(view, DOMAIN view, q)
  <1> DEFINE R == Reports(view, DOMAIN view, q)
             first == [kind |-> "begin", seq |-> q]
             final == [kind |-> "end", seq |-> q]
             S == SweepReports(view, DOMAIN view, q)
             b == SnapshotOf(view, q)
             T == {first, final} \cup S
  <1>1. R \in Seq(S)
    BY ReportsListed
  <1>2. b = <<first>> \o R \o <<final>>
    BY DEF SnapshotOf
  <1> HIDE DEF R, first, final, S, b
  <1>3. R \in Seq(T) /\ <<first>> \in Seq(T) /\ <<final>> \in Seq(T)
    <2>1. R \in [1..Len(R) -> S] /\ Len(R) \in Nat
      BY <1>1
    <2>2. R \in [1..Len(R) -> T]
      BY <2>1
    <2>3. QED
      BY <2>1, <2>2
  <1>4. <<first>> \o R \in Seq(T) /\ Len(<<first>> \o R) = Len(R) + 1 /\ Len(R) \in Nat
    BY <1>3
  <1>5. b \in Seq(T) /\ Len(b) = Len(R) + 2
    BY <1>2, <1>3, <1>4
  <1>6. b[1] = first /\ b[Len(b)] = final
    BY <1>2, <1>3, <1>4, <1>5
  <1>7. ASSUME NEW l \in 2..(Len(b) - 1) PROVE b[l] \in S
    <2>1. l - 1 \in 1..Len(R) /\ b[l] = R[l - 1]
      BY <1>2, <1>3, <1>4, <1>5
    <2>2. QED
      BY <2>1, <1>1
  <1>8. QED
    BY <1>4, <1>5, <1>6, <1>7 DEF b, S, first, final

\* sendDeltas: reports and retirements, neither beginning nor end of a snapshot.
Retirements(S, q) == {[kind |-> "retired", key |-> k, seq |-> q] : k \in S}

LEMMA DeltasListed ==
  ASSUME NEW view, IsFiniteSet(DOMAIN view), NEW prev, IsFiniteSet(DOMAIN prev), NEW q
  PROVE  DeltasOf(view, prev, q) \in
           Seq(SweepReports(view, DOMAIN view, q) \cup Retirements(Attachment, q))
  <1> DEFINE moved == {k \in DOMAIN view : k \notin DOMAIN prev \/ prev[k] # view[k]}
             changed == DOMAIN view \cap
                          UNION {Bundle(a) : a \in {b \in Attachment : Bundle(b) \cap moved # {}}}
             gone == (DOMAIN prev \ DOMAIN view) \cap Attachment
             retired == SetToSeq(gone)
             Left == [j \in 1..Len(retired) |-> [kind |-> "retired", key |-> retired[j], seq |-> q]]
  <1>1. DeltasOf(view, prev, q) = Reports(view, changed, q) \o Left
    BY DEF DeltasOf
  <1>2. changed \in SUBSET DOMAIN view /\ gone \in SUBSET DOMAIN prev /\ gone \subseteq Attachment
    OBVIOUS
  <1> HIDE DEF changed, gone
  <1>3. IsFiniteSet(changed) /\ IsFiniteSet(gone)
    BY <1>2, FS_Subset
  <1>4. Reports(view, changed, q) \in Seq(SweepReports(view, DOMAIN view, q))
    <2>1. SweepReports(view, changed, q) \subseteq SweepReports(view, DOMAIN view, q)
      BY <1>2 DEF SweepReports, About
    <2>2. Reports(view, changed, q) \in Seq(SweepReports(view, changed, q))
      BY <1>3, ReportsListed
    <2>3. QED
      BY <2>1, <2>2
  <1>5. Left \in Seq(Retirements(Attachment, q))
    <2>1. retired \in Seq(gone) /\ Len(retired) \in Nat /\ \A j \in 1..Len(retired) : retired[j] \in gone
      BY <1>3, Listed
    <2> HIDE DEF retired
    <2>2. \A j \in 1..Len(retired) :
            [kind |-> "retired", key |-> retired[j], seq |-> q] \in Retirements(Attachment, q)
      BY <1>2, <2>1 DEF Retirements
    <2>3. Left \in [1..Len(retired) -> Retirements(Attachment, q)]
      BY <2>2
    <2>4. QED
      BY <2>1, <2>3
  <1> HIDE DEF Left
  <1>6. QED
    BY <1>1, <1>4, <1>5, SeqUnion

-----------------------------------------------------------------------------
(* Types. *)

LEMMA EmptyPartial == ASSUME NEW S PROVE Empty \in Partial(S) /\ DOMAIN Empty = {}
  <1>1. Empty \in [{} -> BOOLEAN]
    BY DEF Empty
  <1>2. QED
    BY <1>1 DEF Partial, Empty

LEMMA PutPartial ==
  ASSUME NEW S, NEW v \in Partial(S), NEW k \in S, NEW ready \in BOOLEAN
  PROVE  Put(v, k, ready) \in Partial(S) /\ DOMAIN Put(v, k, ready) = DOMAIN v \cup {k}
  <1>1. DOMAIN v \subseteq S /\ v \in [DOMAIN v -> BOOLEAN]
    BY DEF Partial
  <1>2. Put(v, k, ready) \in [DOMAIN v \cup {k} -> BOOLEAN]
    BY <1>1 DEF Put
  <1>3. QED
    BY <1>1, <1>2 DEF Partial

LEMMA DropPartial ==
  ASSUME NEW S, NEW v \in Partial(S), NEW K
  PROVE  Drop(v, K) \in Partial(S) /\ DOMAIN Drop(v, K) = DOMAIN v \ K
  <1>1. DOMAIN v \subseteq S /\ v \in [DOMAIN v -> BOOLEAN]
    BY DEF Partial
  <1>2. Drop(v, K) \in [DOMAIN v \ K -> BOOLEAN]
    BY <1>1 DEF Drop
  <1>3. QED
    BY <1>1, <1>2 DEF Partial

\* A sweep of the agents of n sees finitely many subjects of n.
LEMMA ViewTyped ==
  ASSUME Typed, NEW n
  PROVE  /\ View(n) \in Partial(SubjectsOn(n)) /\ View(n) \in Partial(Subject)
         /\ IsFiniteSet(DOMAIN View(n))
  <1>1. DOMAIN seen \subseteq Subject /\ seen \in [DOMAIN seen -> BOOLEAN] /\ IsFiniteSet(DOMAIN seen)
    BY DEF Typed, Partial
  <1>2. /\ View(n) \in [DOMAIN seen \cap SubjectsOn(n) -> BOOLEAN]
        /\ DOMAIN View(n) = DOMAIN seen \cap SubjectsOn(n)
    BY <1>1 DEF View
  <1>3. IsFiniteSet(DOMAIN View(n))
    BY <1>1, <1>2, FS_Subset
  <1>4. QED
    BY <1>1, <1>2, <1>3 DEF Partial

LEMMA SequenceGoesOn ==
  ASSUME Typed, NEW i \in Instance, agents[i].seq < Sweeps[i] \/ i \in Endless
  PROVE  NextSeq(i) \in Sequence /\ NextSeq(i) \in 0..MaxSeq
  <1>1. agents[i].seq \in 0..MaxSeq /\ Sweeps[i] \in 1..MaxSeq /\ MaxSeq \in Nat
    BY StoreAssumption, TransportAssumption DEF Typed, Agents
  <1>2. QED
    BY <1>1 DEF NextSeq, Sequence

LEMMA ReportsTyped ==
  ASSUME NEW n, NEW view \in Partial(SubjectsOn(n)), NEW q \in Sequence
  PROVE  SweepReports(view, DOMAIN view, q) \subseteq Report(n)
  <1>1. DOMAIN view \subseteq SubjectsOn(n) /\ view \in [DOMAIN view -> BOOLEAN]
    BY DEF Partial
  <1>2. /\ DOMAIN view \cap Attachment \subseteq AttachmentsOn(n)
        /\ DOMAIN view \cap PathKey \subseteq PathKeysOn(n)
    BY <1>1 DEF SubjectsOn, AttachmentsOn, PathKeysOn
  <1>3. QED
    BY <1>1, <1>2 DEF SweepReports, About, Report

\* What either kind of sweep sends is made of envelopes.
LEMMA BatchTyped ==
  ASSUME Typed, NEW i \in Instance, NEW q \in Sequence
  PROVE  LET n == NodeOf[i] IN
         /\ SnapshotOf(View(n), q) \in Seq(Envelope(n))
         /\ DeltasOf(View(n), agents[i].prev, q) \in Seq(Envelope(n))
  <1> DEFINE n == NodeOf[i]
             view == View(n)
             R == SweepReports(view, DOMAIN view, q)
  <1>1. view \in Partial(SubjectsOn(n)) /\ IsFiniteSet(DOMAIN view)
    BY ViewTyped
  <1>2. R \subseteq Report(n)
    BY <1>1, ReportsTyped
  <1>3. IsFiniteSet(DOMAIN agents[i].prev)
    BY DEF Typed
  <1> HIDE DEF view, n
  <1>4. SnapshotOf(view, q) \in Seq({[kind |-> "begin", seq |-> q], [kind |-> "end", seq |-> q]} \cup R)
    BY <1>1, SnapshotListed
  <1>5. DeltasOf(view, agents[i].prev, q) \in Seq(R \cup Retirements(Attachment, q))
    BY <1>1, <1>3, DeltasListed
  <1> HIDE DEF R
  <1>6. {[kind |-> "begin", seq |-> q], [kind |-> "end", seq |-> q]} \cup R \subseteq Envelope(n)
    BY <1>2 DEF Envelope, Mark
  <1>7. R \cup Retirements(Attachment, q) \subseteq Envelope(n)
    BY <1>2 DEF Envelope, Retirement, Retirements
  <1>8. ASSUME NEW S, NEW T, S \subseteq T, NEW s \in Seq(S) PROVE s \in Seq(T)
    BY <1>8
  <1>9. QED
    BY <1>4, <1>5, <1>6, <1>7, <1>8 DEF view, n

\* A stream that is served, or whose process is known, is served for one process.
LEMMA ServedBy ==
  ASSUME Typed, NEW st \in Stream, streams[st].serving \/ streams[st].adopted
  PROVE  /\ streams[st].by \in Instance
         /\ streams[st] \in Served(streams[st].by)
  <1>1. CASE streams[st] \in Unserved
    BY <1>1 DEF Unserved
  <1>2. CASE \E i \in Instance : streams[st] \in Served(i)
    <2>1. PICK i \in Instance : streams[st] \in Served(i)
      BY <1>2
    <2>2. streams[st].by = i
      BY <2>1 DEF Served
    <2>3. QED
      BY <2>1, <2>2
  <1>3. QED
    BY <1>1, <1>2 DEF Typed, StreamSet

LEMMA InitTyped == Init => Typed
  <1> SUFFICES ASSUME Init PROVE Typed
    OBVIOUS
  <1>1. StoreTypeOK
    BY InitType DEF Init
  <1>2. Unconnected \in Agents /\ IsFiniteSet(DOMAIN Empty) /\ Empty \in Partial(Subject)
    BY EmptyPartial, FS_EmptySet, StoreAssumption DEF Unconnected, Agents
  <1>3. Closed \in Unserved /\ Closed.inbox = <<>>
    BY DEF Unserved, Closed
  <1>4. \A i \in Instance : agents[i] = Unconnected /\ Unconnected.prev = Empty
    BY DEF Init, Unconnected
  <1>5. \A st \in Stream : Len(streams[st].inbox) <= InboxCap
    BY <1>3, TransportAssumption DEF Init
  <1>6. agents \in [Instance -> Agents] /\ \A i \in Instance : IsFiniteSet(DOMAIN agents[i].prev)
    BY <1>2, <1>4 DEF Init
  <1>7. QED
    BY <1>1, <1>2, <1>3, <1>5, <1>6 DEF Init, Typed, StreamSet

-----------------------------------------------------------------------------
(* What the handler of a stream makes of its record. *)

LEMMA HeadTail ==
  ASSUME NEW S, NEW s \in Seq(S), s # <<>>
  PROVE  /\ Len(s) \in Nat /\ Len(s) >= 1 /\ Head(s) \in S /\ Head(s) = s[1]
         /\ Tail(s) \in Seq(S) /\ Len(Tail(s)) = Len(s) - 1
         /\ \A l \in 1..(Len(s) - 1) : Tail(s)[l] = s[l + 1]
  OBVIOUS

\* An update of some fields of a served stream, as a record.
Refilled(s, inbox, inSnapshot, bufLocal, bufPath, committed) ==
    [open |-> s.open, serving |-> s.serving, by |-> s.by, inbox |-> inbox, resync |-> s.resync,
     adopted |-> s.adopted, inSnapshot |-> inSnapshot, bufLocal |-> bufLocal, bufPath |-> bufPath,
     committed |-> committed]

LEMMA RefilledForms ==
  ASSUME NEW i \in Instance, NEW s \in Served(i), NEW v
  PROVE  /\ Consumed(s) = Refilled(s, Tail(s.inbox), s.inSnapshot, s.bufLocal, s.bufPath, s.committed)
         /\ [Consumed(s) EXCEPT !.inSnapshot = TRUE, !.bufLocal = Empty, !.bufPath = Empty]
              = Refilled(s, Tail(s.inbox), TRUE, Empty, Empty, s.committed)
         /\ [Consumed(s) EXCEPT !.inSnapshot = FALSE, !.committed = TRUE]
              = Refilled(s, Tail(s.inbox), FALSE, s.bufLocal, s.bufPath, TRUE)
         /\ [Consumed(s) EXCEPT !.bufLocal = v]
              = Refilled(s, Tail(s.inbox), s.inSnapshot, v, s.bufPath, s.committed)
         /\ [Consumed(s) EXCEPT !.bufPath = v]
              = Refilled(s, Tail(s.inbox), s.inSnapshot, s.bufLocal, v, s.committed)
         /\ [s EXCEPT !.inbox = v]
              = Refilled(s, v, s.inSnapshot, s.bufLocal, s.bufPath, s.committed)
         /\ Consumed(s).bufLocal = s.bufLocal /\ Consumed(s).bufPath = s.bufPath
  <1> DEFINE rest == Tail(s.inbox)
  <1> HIDE DEF rest
  <1>1. Consumed(s) = [s EXCEPT !.inbox = rest]
    BY DEF Consumed, rest
  <1>2. [s EXCEPT !.inbox = rest] = Refilled(s, rest, s.inSnapshot, s.bufLocal, s.bufPath, s.committed)
    BY DEF Served, Refilled
  <1>3. [s EXCEPT !.inbox = v] = Refilled(s, v, s.inSnapshot, s.bufLocal, s.bufPath, s.committed)
    BY DEF Served, Refilled
  <1> DEFINE c == Refilled(s, rest, s.inSnapshot, s.bufLocal, s.bufPath, s.committed)
  <1>4a. ASSUME NEW b
         PROVE  /\ [c EXCEPT !.inSnapshot = b, !.bufLocal = Empty, !.bufPath = Empty]
                     = Refilled(s, rest, b, Empty, Empty, s.committed)
                /\ [c EXCEPT !.inSnapshot = b] = Refilled(s, rest, b, s.bufLocal, s.bufPath, s.committed)
    <2>1. [c EXCEPT !.inSnapshot = b] = Refilled(s, rest, b, s.bufLocal, s.bufPath, s.committed)
      BY DEF Refilled
    <2>2. ASSUME NEW u PROVE [Refilled(s, rest, b, s.bufLocal, s.bufPath, s.committed) EXCEPT !.bufLocal = u] = Refilled(s, rest, b, u, s.bufPath, s.committed)
      BY DEF Refilled
    <2>3. ASSUME NEW u, NEW w PROVE [Refilled(s, rest, b, u, s.bufPath, s.committed) EXCEPT !.bufPath = w] = Refilled(s, rest, b, u, w, s.committed)
      BY DEF Refilled
    <2> HIDE DEF c
    <2>4. [[c EXCEPT !.inSnapshot = b] EXCEPT !.bufLocal = Empty] = Refilled(s, rest, b, Empty, s.bufPath, s.committed)
      BY <2>1, <2>2, Zenon
    <2>5. [[[c EXCEPT !.inSnapshot = b] EXCEPT !.bufLocal = Empty] EXCEPT !.bufPath = Empty]
            = Refilled(s, rest, b, Empty, Empty, s.committed)
      BY <2>3, <2>4, Zenon
    <2>6. QED
      BY <2>1, <2>5, Zenon
  <1>4b. /\ [c EXCEPT !.inSnapshot = TRUE, !.bufLocal = Empty, !.bufPath = Empty]
              = Refilled(s, rest, TRUE, Empty, Empty, s.committed)
         /\ [c EXCEPT !.inSnapshot = FALSE, !.committed = TRUE]
              = Refilled(s, rest, FALSE, s.bufLocal, s.bufPath, TRUE)
    <2> DEFINE d == Refilled(s, rest, FALSE, s.bufLocal, s.bufPath, s.committed)
    <2>0. ASSUME NEW b, NEW u
          PROVE  [Refilled(s, rest, b, s.bufLocal, s.bufPath, s.committed) EXCEPT !.committed = u]
                   = Refilled(s, rest, b, s.bufLocal, s.bufPath, u)
      BY DEF Refilled
    <2>1. [d EXCEPT !.committed = TRUE] = Refilled(s, rest, FALSE, s.bufLocal, s.bufPath, TRUE)
      BY <2>0, Zenon
    <2> HIDE DEF c
    <2>2. [[c EXCEPT !.inSnapshot = FALSE] EXCEPT !.committed = TRUE]
            = Refilled(s, rest, FALSE, s.bufLocal, s.bufPath, TRUE)
      BY <1>4a, <2>1, Zenon
    <2>3. QED
      BY <1>4a, <2>2, Zenon
  <1>4c. [c EXCEPT !.bufLocal = v] = Refilled(s, rest, s.inSnapshot, v, s.bufPath, s.committed)
    BY DEF Refilled
  <1>4d. [c EXCEPT !.bufPath = v] = Refilled(s, rest, s.inSnapshot, s.bufLocal, v, s.committed)
    BY DEF Refilled
  <1>4e. c.bufLocal = s.bufLocal /\ c.bufPath = s.bufPath
    BY DEF Refilled
  <1>5. Consumed(s) = c
    BY <1>1, <1>2
  <1>6. QED
    BY <1>3, <1>4b, <1>4c, <1>4d, <1>4e, <1>5 DEF rest

LEMMA RefilledTyped ==
  ASSUME NEW i \in Instance, NEW s \in Served(i), NEW inbox \in Seq(Envelope(NodeOf[i])),
         NEW inSnapshot \in BOOLEAN, NEW bufLocal \in Partial(AttachmentsOn(NodeOf[i])),
         NEW bufPath \in Partial(PathKeysOn(NodeOf[i])), NEW committed \in BOOLEAN
  PROVE  Refilled(s, inbox, inSnapshot, bufLocal, bufPath, committed) \in Served(i)
  BY DEF Served, Refilled

LEMMA ReturnedTyped ==
  ASSUME NEW s, s.open \in BOOLEAN
  PROVE  Returned(s) \in Unserved /\ Returned(s).open = s.open
  BY DEF Returned, Closed, Unserved

LEMMA OpenTyped ==
  ASSUME NEW s \in StreamSet
  PROVE  s.open \in BOOLEAN /\ s.serving \in BOOLEAN /\ s.adopted \in BOOLEAN /\ s.resync \in BOOLEAN
  <1>1. CASE s \in Unserved
    BY <1>1 DEF Unserved
  <1>2. ASSUME NEW i \in Instance, s \in Served(i)
        PROVE  s.open \in BOOLEAN /\ s.serving \in BOOLEAN /\ s.adopted \in BOOLEAN /\ s.resync \in BOOLEAN
    BY <1>2 DEF Served
  <1>3. QED
    BY <1>1, <1>2 DEF StreamSet

-----------------------------------------------------------------------------
(* Every step is one of the store's or leaves it alone. *)

\* The envelope a handler acts on is about the node of the stream's process.
LEMMA HeadTyped ==
  ASSUME Typed, NEW st \in Stream, NEW kind, Handling(st, kind)
  PROVE  LET s == streams[st]
             i == s.by
             n == NodeOf[i]
             e == Head(s.inbox)
         IN  /\ i \in Instance /\ s \in Served(i) /\ n \in Node
             /\ s.inbox \in Seq(Envelope(n)) /\ s.inbox # <<>>
             /\ e \in Envelope(n) /\ e.kind = kind
             /\ OriginAt(st) \in Origin
             /\ OriginAt(st) = [node |-> n, instance |-> i, seq |-> e.seq]
             /\ kind = "local" => e.key \in AttachmentsOn(n) /\ e.ready \in BOOLEAN
             /\ kind = "path" => e.key \in PathKeysOn(n) /\ e.ready \in BOOLEAN
             /\ kind = "retired" => e.key \in Attachment
  <1> DEFINE s == streams[st]
             i == s.by
             n == NodeOf[i]
             e == Head(s.inbox)
  <1>1. s.adopted /\ s.inbox # <<>> /\ e.kind = kind
    BY DEF Handling
  <1>2. i \in Instance /\ s \in Served(i)
    BY <1>1, ServedBy
  <1>3. n \in Node
    BY <1>2, TransportAssumption
  <1> HIDE DEF s, i, n, e
  <1>4. s.inbox \in Seq(Envelope(n))
    BY <1>2 DEF Served, n
  <1>5. e \in Envelope(n)
    BY <1>1, <1>4, HeadTail DEF e
  <1>6. e.seq \in Sequence
    BY <1>5 DEF Envelope, Report, Mark, Retirement
  <1>7. /\ kind = "local" => e.key \in AttachmentsOn(n) /\ e.ready \in BOOLEAN
        /\ kind = "path" => e.key \in PathKeysOn(n) /\ e.ready \in BOOLEAN
        /\ kind = "retired" => e.key \in Attachment
    BY <1>1, <1>5 DEF Envelope, Report, Mark, Retirement
  <1>8. OriginAt(st) = [node |-> n, instance |-> i, seq |-> e.seq]
    BY DEF OriginAt, s, i, n, e
  <1>9. OriginAt(st) \in Origin
    BY <1>2, <1>3, <1>6, <1>8 DEF Origin
  <1>10. QED
    BY <1>1, <1>2, <1>3, <1>4, <1>5, <1>7, <1>8, <1>9 DEF s, i, n, e

LEMMA HandleStore ==
  ASSUME Typed, NEW st \in Stream, Handle(st)
  PROVE  StoreNext \/ UNCHANGED storeVars
  <1> DEFINE s == streams[st]
             e == Head(s.inbox)
             n == NodeOf[s.by]
             o == OriginAt(st)
  <1>1. CASE Adopt(st)
    <2>1. s.by \in Instance /\ n \in Node
      BY <1>1, ServedBy, TransportAssumption DEF Adopt
    <2>2. AdoptInstance(n, s.by)
      BY <1>1 DEF Adopt
    <2>3. QED
      BY <2>1, <2>2 DEF StoreNext
  <1>2. CASE SnapshotEnd(st)
    <2>1. o \in Origin /\ o.node = n /\ s \in Served(s.by) /\ s.by \in Instance
      BY <1>2, HeadTyped DEF SnapshotEnd
    <2>2. /\ DOMAIN s.bufLocal \subseteq AttachmentsOn(n) /\ s.bufLocal \in [DOMAIN s.bufLocal -> BOOLEAN]
          /\ DOMAIN s.bufPath \subseteq PathKeysOn(n) /\ s.bufPath \in [DOMAIN s.bufPath -> BOOLEAN]
      BY <2>1 DEF Served, Partial
    <2>3. ApplySnapshot(o, s.bufLocal, s.bufPath)
      BY <1>2 DEF SnapshotEnd
    <2> HIDE DEF o, s, n
    <2>4. QED
      BY <2>1, <2>2, <2>3 DEF StoreNext
  <1>3. CASE LocalDelta(st)
    <2>1. o \in Origin /\ o.node = n /\ e.key \in AttachmentsOn(n) /\ e.ready \in BOOLEAN
      BY <1>3, HeadTyped DEF LocalDelta
    <2>2. AcceptLocal(o, e.key, e.ready)
      BY <1>3 DEF LocalDelta
    <2> HIDE DEF o, e, n
    <2>3. QED
      BY <2>1, <2>2 DEF StoreNext
  <1>4. CASE PathDelta(st)
    <2>1. o \in Origin /\ o.node = n /\ e.key \in PathKeysOn(n) /\ e.ready \in BOOLEAN
      BY <1>4, HeadTyped DEF PathDelta
    <2>2. AcceptPath(o, e.key, e.ready)
      BY <1>4 DEF PathDelta
    <2> HIDE DEF o, e, n
    <2>3. QED
      BY <2>1, <2>2 DEF StoreNext
  <1>5. CASE Retired(st)
    <2>1. e.key \in Attachment
      BY <1>5, HeadTyped DEF Retired
    <2>2. ForgetLocal(e.key)
      BY <1>5 DEF Retired
    <2> HIDE DEF e
    <2>3. QED
      BY <2>1, <2>2 DEF StoreNext
  <1>6. QED
    BY <1>1, <1>2, <1>3, <1>4, <1>5
    DEF Handle, SnapshotBegin, Unknown, LocalBuffered, PathBuffered, DeltaOutOfOrder, StaleInstance

LEMMA NextStore ==
  ASSUME Typed, [Next]_vars
  PROVE  [StoreNext]_storeVars
  <1>1. ASSUME NEW st \in Stream, Handle(st)
        PROVE  [StoreNext]_storeVars
    BY <1>1, HandleStore
  <1>2. CASE World
    BY <1>2 DEF World, Vanish, Observe, RegistryChange, AgentDies
  <1>3. ASSUME NEW i \in Instance, Agent(i) \/ SessionCapped(i) \/ SessionEnds(i)
        PROVE  UNCHANGED storeVars
    BY <1>3
    DEF Agent, SessionOver, SessionCapped, SessionEnds, OpenStream, SessionRefused, AckReceived, PublishSnapshot, PublishDone,
        PublishDeltas, PublishFails, Send
  <1>4. ASSUME NEW st \in Stream, HandlerCancelled(st)
        PROVE  UNCHANGED storeVars
    BY <1>4 DEF HandlerCancelled
  <1>5. QED
    BY <1>1, <1>2, <1>3, <1>4 DEF Next, vars

\* The maps of the store stay well typed.
LEMMA StepStoreType == Typed /\ [Next]_vars => StoreTypeOK'
  BY NextStore, StepType DEF Typed

-----------------------------------------------------------------------------
(* What a handler does to the streams. *)

\* Nothing but the record of st changes, and the client's end stays as it was.
HandlerMoves(st, t) ==
    /\ t \in StreamSet
    /\ streams' = [streams EXCEPT ![st] = t]
    /\ Len(t.inbox) <= Len(streams[st].inbox)
    /\ t.open = streams[st].open
    /\ t.serving => streams[st].serving /\ t.by = streams[st].by
    /\ UNCHANGED <<seen, known, agents, swept>>

\* The handler goes on with the next envelope, its buffers filled anew.
Onward(st, inSnapshot, bufLocal, bufPath, committed) ==
    LET s == streams[st] IN
    /\ streams' = [streams EXCEPT ![st] =
                     Refilled(s, Tail(s.inbox), inSnapshot, bufLocal, bufPath, committed)]
    /\ inSnapshot \in BOOLEAN /\ committed \in BOOLEAN
    /\ bufLocal \in Partial(AttachmentsOn(NodeOf[s.by]))
    /\ bufPath \in Partial(PathKeysOn(NodeOf[s.by]))
    /\ UNCHANGED <<seen, known, agents, swept>>

LEMMA OnwardForms ==
  ASSUME Typed, NEW st \in Stream
  PROVE  LET s == streams[st]
             e == Head(s.inbox)
         IN  /\ SnapshotBegin(st) => Onward(st, TRUE, Empty, Empty, s.committed)
             /\ SnapshotEnd(st) => Onward(st, FALSE, s.bufLocal, s.bufPath, TRUE)
             /\ LocalBuffered(st) => Onward(st, s.inSnapshot, Put(s.bufLocal, e.key, e.ready), s.bufPath, s.committed)
             /\ PathBuffered(st) => Onward(st, s.inSnapshot, s.bufLocal, Put(s.bufPath, e.key, e.ready), s.committed)
             /\ \/ \E kind \in {"local", "path"} : Unknown(st, kind)
                \/ LocalDelta(st)
                \/ PathDelta(st)
                \/ DeltaOutOfOrder(st)
                \/ Retired(st)
                => Onward(st, s.inSnapshot, s.bufLocal, s.bufPath, s.committed)
  <1> DEFINE s == streams[st]
             e == Head(s.inbox)
             n == NodeOf[s.by]
  <1>0. ASSUME NEW kind, Handling(st, kind)
        PROVE  /\ s.by \in Instance /\ s \in Served(s.by)
               /\ s.inSnapshot \in BOOLEAN /\ s.committed \in BOOLEAN
               /\ s.bufLocal \in Partial(AttachmentsOn(n))
               /\ s.bufPath \in Partial(PathKeysOn(n))
               /\ UNCHANGED <<seen, known, agents, swept>>
    <2>1. s.by \in Instance /\ s \in Served(s.by)
      BY <1>0, HeadTyped
    <2>2. QED
      BY <1>0, <2>1 DEF Served, Handling
  <1>1. ASSUME SnapshotBegin(st) PROVE Onward(st, TRUE, Empty, Empty, s.committed)
    <2>1. Handling(st, "begin")
      BY <1>1 DEF SnapshotBegin
    <2>2. streams' = [streams EXCEPT ![st] =
                        [Consumed(s) EXCEPT !.inSnapshot = TRUE, !.bufLocal = Empty, !.bufPath = Empty]]
      BY <1>1 DEF SnapshotBegin
    <2>3. streams' = [streams EXCEPT ![st] = Refilled(s, Tail(s.inbox), TRUE, Empty, Empty, s.committed)]
      BY <2>1, <2>2, <1>0, RefilledForms
    <2>4. QED
      BY <2>1, <2>3, <1>0, EmptyPartial DEF Onward
  <1>2. ASSUME SnapshotEnd(st) PROVE Onward(st, FALSE, s.bufLocal, s.bufPath, TRUE)
    <2>1. Handling(st, "end")
      BY <1>2 DEF SnapshotEnd
    <2>2. streams' = [streams EXCEPT ![st] =
                        [Consumed(s) EXCEPT !.inSnapshot = FALSE, !.committed = TRUE]]
      BY <1>2 DEF SnapshotEnd
    <2>3. streams' = [streams EXCEPT ![st] = Refilled(s, Tail(s.inbox), FALSE, s.bufLocal, s.bufPath, TRUE)]
      BY <2>1, <2>2, <1>0, RefilledForms
    <2>4. QED
      BY <2>1, <2>3, <1>0 DEF Onward
  <1>3. ASSUME LocalBuffered(st)
        PROVE  Onward(st, s.inSnapshot, Put(s.bufLocal, e.key, e.ready), s.bufPath, s.committed)
    <2>1. Handling(st, "local")
      BY <1>3 DEF LocalBuffered
    <2>2. streams' = [streams EXCEPT ![st] =
                        [Consumed(s) EXCEPT !.bufLocal = Put(Consumed(s).bufLocal, e.key, e.ready)]]
      BY <1>3 DEF LocalBuffered
    <2>3. streams' = [streams EXCEPT ![st] =
                        Refilled(s, Tail(s.inbox), s.inSnapshot, Put(s.bufLocal, e.key, e.ready), s.bufPath, s.committed)]
      <3> DEFINE v == Put(s.bufLocal, e.key, e.ready)
      <3>1. s.by \in Instance /\ s \in Served(s.by)
        BY <2>1, <1>0
      <3> HIDE DEF s, v
      <3>2. Consumed(s).bufLocal = s.bufLocal /\ [Consumed(s) EXCEPT !.bufLocal = v] = Refilled(s, Tail(s.inbox), s.inSnapshot, v, s.bufPath, s.committed)
        BY <3>1, RefilledForms
      <3>3. streams' = [streams EXCEPT ![st] = [Consumed(s) EXCEPT !.bufLocal = v]]
        BY <2>2, <3>2 DEF v
      <3>4. QED
        BY <3>2, <3>3, Zenon DEF v
    <2>4. Put(s.bufLocal, e.key, e.ready) \in Partial(AttachmentsOn(n))
      BY <2>1, <1>0, HeadTyped, PutPartial
    <2>5. QED
      BY <2>1, <2>3, <2>4, <1>0 DEF Onward
  <1>4. ASSUME PathBuffered(st)
        PROVE  Onward(st, s.inSnapshot, s.bufLocal, Put(s.bufPath, e.key, e.ready), s.committed)
    <2>1. Handling(st, "path")
      BY <1>4 DEF PathBuffered
    <2>2. streams' = [streams EXCEPT ![st] =
                        [Consumed(s) EXCEPT !.bufPath = Put(Consumed(s).bufPath, e.key, e.ready)]]
      BY <1>4 DEF PathBuffered
    <2>3. streams' = [streams EXCEPT ![st] =
                        Refilled(s, Tail(s.inbox), s.inSnapshot, s.bufLocal, Put(s.bufPath, e.key, e.ready), s.committed)]
      <3> DEFINE v == Put(s.bufPath, e.key, e.ready)
      <3>1. s.by \in Instance /\ s \in Served(s.by)
        BY <2>1, <1>0
      <3> HIDE DEF s, v
      <3>2. Consumed(s).bufPath = s.bufPath /\ [Consumed(s) EXCEPT !.bufPath = v] = Refilled(s, Tail(s.inbox), s.inSnapshot, s.bufLocal, v, s.committed)
        BY <3>1, RefilledForms
      <3>3. streams' = [streams EXCEPT ![st] = [Consumed(s) EXCEPT !.bufPath = v]]
        BY <2>2, <3>2 DEF v
      <3>4. QED
        BY <3>2, <3>3, Zenon DEF v
    <2>4. Put(s.bufPath, e.key, e.ready) \in Partial(PathKeysOn(n))
      BY <2>1, <1>0, HeadTyped, PutPartial
    <2>5. QED
      BY <2>1, <2>3, <2>4, <1>0 DEF Onward
  <1>5. ASSUME NEW kind, Handling(st, kind), streams' = [streams EXCEPT ![st] = Consumed(s)]
        PROVE  Onward(st, s.inSnapshot, s.bufLocal, s.bufPath, s.committed)
    <2>1. streams' = [streams EXCEPT ![st] = Refilled(s, Tail(s.inbox), s.inSnapshot, s.bufLocal, s.bufPath, s.committed)]
      BY <1>5, <1>0, RefilledForms
    <2>2. QED
      BY <2>1, <1>5, <1>0 DEF Onward
  <1>6. ASSUME \/ \E kind \in {"local", "path"} : Unknown(st, kind)
               \/ LocalDelta(st)
               \/ PathDelta(st)
               \/ DeltaOutOfOrder(st)
               \/ Retired(st)
        PROVE  Onward(st, s.inSnapshot, s.bufLocal, s.bufPath, s.committed)
    BY <1>5, <1>6 DEF Unknown, LocalDelta, PathDelta, DeltaOutOfOrder, Retired
  <1>7. QED
    BY <1>1, <1>2, <1>3, <1>4, <1>6

LEMMA OnwardMoves ==
  ASSUME Typed, NEW st \in Stream, streams[st].adopted, streams[st].inbox # <<>>,
         NEW inSnapshot, NEW bufLocal, NEW bufPath, NEW committed,
         Onward(st, inSnapshot, bufLocal, bufPath, committed)
  PROVE  HandlerMoves(st, Refilled(streams[st], Tail(streams[st].inbox), inSnapshot, bufLocal, bufPath, committed))
  <1> DEFINE s == streams[st]
             t == Refilled(s, Tail(s.inbox), inSnapshot, bufLocal, bufPath, committed)
  <1>1. s.by \in Instance /\ s \in Served(s.by)
    BY ServedBy
  <1>2. s.inbox \in Seq(Envelope(NodeOf[s.by]))
    BY <1>1 DEF Served
  <1>3. /\ Tail(s.inbox) \in Seq(Envelope(NodeOf[s.by]))
        /\ Len(Tail(s.inbox)) = Len(s.inbox) - 1 /\ Len(s.inbox) \in Nat
    BY <1>2, HeadTail
  <1>4. t \in Served(s.by)
    BY <1>1, <1>3, RefilledTyped DEF Onward
  <1>5. t.inbox = Tail(s.inbox) /\ t.open = s.open /\ t.serving = s.serving /\ t.by = s.by
    BY DEF Refilled
  <1>6. t \in StreamSet
    BY <1>1, <1>4 DEF StreamSet
  <1> HIDE DEF t
  <1>7. streams' = [streams EXCEPT ![st] = t] /\ UNCHANGED <<seen, known, agents, swept>>
    BY DEF Onward, t
  <1>8. Len(t.inbox) <= Len(s.inbox)
    BY <1>3, <1>5
  <1>9. HandlerMoves(st, t)
    BY <1>5, <1>6, <1>7, <1>8 DEF HandlerMoves
  <1>10. QED
    BY <1>9 DEF t

LEMMA InboxTyped ==
  ASSUME NEW s \in StreamSet
  PROVE  Len(s.inbox) \in Nat
  <1>1. CASE s \in Unserved
    BY <1>1 DEF Unserved
  <1>2. ASSUME NEW i \in Instance, s \in Served(i)
        PROVE  Len(s.inbox) \in Nat
    BY <1>2 DEF Served
  <1>3. QED
    BY <1>1, <1>2 DEF StreamSet

LEMMA ReturnedMoves ==
  ASSUME Typed, NEW st \in Stream, streams' = [streams EXCEPT ![st] = Returned(streams[st])],
         UNCHANGED <<seen, known, agents, swept>>
  PROVE  HandlerMoves(st, Returned(streams[st]))
  <1> DEFINE s == streams[st]
             t == Returned(s)
  <1>1. s \in StreamSet
    BY DEF Typed
  <1>2. s.open \in BOOLEAN /\ Len(s.inbox) \in Nat
    BY <1>1, OpenTyped, InboxTyped
  <1>3. t \in Unserved /\ t.open = s.open
    BY <1>2, ReturnedTyped
  <1>4. t \in StreamSet /\ ~t.serving /\ t.inbox = <<>>
    BY <1>3 DEF StreamSet, Unserved
  <1> HIDE DEF t
  <1>5. Len(t.inbox) <= Len(s.inbox)
    BY <1>2, <1>4
  <1>6. HandlerMoves(st, t)
    BY <1>3, <1>4, <1>5 DEF HandlerMoves, t
  <1>7. QED
    BY <1>6 DEF t

LEMMA AdoptMoves ==
  ASSUME Typed, NEW st \in Stream, Adopt(st)
  PROVE  LET t == [streams[st] EXCEPT !.adopted = TRUE, !.resync = streams[st].open]
         IN  /\ HandlerMoves(st, t)
             /\ t.by = streams[st].by /\ t.inbox = streams[st].inbox
             /\ t.bufLocal = streams[st].bufLocal /\ t.bufPath = streams[st].bufPath
  <1> DEFINE s == streams[st]
             t == [s EXCEPT !.adopted = TRUE, !.resync = s.open]
  <1>1. s.by \in Instance /\ s \in Served(s.by)
    BY ServedBy DEF Adopt
  <1>2. streams' = [streams EXCEPT ![st] = t] /\ UNCHANGED <<seen, known, agents, swept>>
    BY DEF Adopt, Typed
  <1> HIDE DEF s
  <1>3. t \in Served(s.by)
    BY <1>1 DEF Served
  <1>4. /\ t.inbox = s.inbox /\ t.open = s.open /\ t.serving = s.serving /\ t.by = s.by
        /\ t.bufLocal = s.bufLocal /\ t.bufPath = s.bufPath
    BY <1>1 DEF Served
  <1>5. t \in StreamSet /\ s \in StreamSet
    BY <1>1, <1>3 DEF StreamSet
  <1>6. Len(s.inbox) \in Nat
    BY <1>5, InboxTyped
  <1> HIDE DEF t
  <1>7. HandlerMoves(st, t)
    BY <1>2, <1>4, <1>5, <1>6 DEF HandlerMoves, s
  <1>8. QED
    BY <1>4, <1>7 DEF s, t

LEMMA HandleMoves ==
  ASSUME Typed, NEW st \in Stream, Handle(st) \/ HandlerCancelled(st)
  PROVE  \E t : HandlerMoves(st, t)
  <1> DEFINE s == streams[st]
             e == Head(s.inbox)
  <1>1. CASE Adopt(st)
    BY <1>1, AdoptMoves
  <1>2. CASE StaleInstance(st) \/ HandlerCancelled(st)
    BY <1>2, ReturnedMoves DEF StaleInstance, HandlerCancelled, Handling
  <1>3. ASSUME NEW kind, Handling(st, kind), NEW b, NEW l, NEW p, NEW c,
               Onward(st, b, l, p, c)
        PROVE  \E t : HandlerMoves(st, t)
    BY <1>3, OnwardMoves DEF Handling
  <1>4. CASE SnapshotBegin(st)
    BY <1>4, <1>3, OnwardForms DEF SnapshotBegin
  <1>5. CASE SnapshotEnd(st)
    BY <1>5, <1>3, OnwardForms DEF SnapshotEnd
  <1>6. CASE LocalBuffered(st)
    BY <1>6, <1>3, OnwardForms DEF LocalBuffered
  <1>7. CASE PathBuffered(st)
    BY <1>7, <1>3, OnwardForms DEF PathBuffered
  <1>8. CASE \/ \E kind \in {"local", "path"} : Unknown(st, kind)
             \/ LocalDelta(st)
             \/ PathDelta(st)
             \/ DeltaOutOfOrder(st)
             \/ Retired(st)
    <2>1. Onward(st, s.inSnapshot, s.bufLocal, s.bufPath, s.committed)
      BY <1>8, OnwardForms
    <2>2. \E kind : Handling(st, kind)
      BY <1>8 DEF Unknown, LocalDelta, PathDelta, DeltaOutOfOrder, Retired
    <2>3. QED
      BY <2>1, <2>2, <1>3
  <1>9. QED
    BY <1>1, <1>2, <1>4, <1>5, <1>6, <1>7, <1>8 DEF Handle

LEMMA HungUpTyped ==
  ASSUME Typed, NEW i \in Instance
  PROVE  /\ HungUp(i) \in [Stream -> StreamSet]
         /\ \A st \in Stream : Len(HungUp(i)[st].inbox) <= InboxCap
  <1> SUFFICES ASSUME NEW st \in Stream
               PROVE  HungUp(i)[st] \in StreamSet /\ Len(HungUp(i)[st].inbox) <= InboxCap
    BY DEF HungUp
  <1> DEFINE s == streams[st]
             t == [s EXCEPT !.open = FALSE, !.resync = FALSE]
  <1>0. s \in StreamSet /\ Len(s.inbox) <= InboxCap
    BY DEF Typed
  <1>1. CASE st # agents[i].stream
    BY <1>0, <1>1 DEF HungUp
  <1>2. CASE st = agents[i].stream /\ s.serving
    <2>1. s.by \in Instance /\ s \in Served(s.by)
      BY <1>2, ServedBy
    <2>2. HungUp(i)[st] = t
      BY <1>2 DEF HungUp
    <2> HIDE DEF s
    <2>3. t \in Served(s.by) /\ t.inbox = s.inbox
      BY <2>1 DEF Served
    <2> HIDE DEF t
    <2>4. QED
      BY <2>1, <2>2, <2>3, <1>0 DEF StreamSet
  <1>3. CASE st = agents[i].stream /\ ~s.serving
    <2>1. HungUp(i)[st] = Closed
      BY <1>3 DEF HungUp
    <2>2. Closed \in Unserved /\ Closed.inbox = <<>>
      BY DEF Closed, Unserved
    <2>3. QED
      BY <2>1, <2>2, TransportAssumption DEF StreamSet
  <1>4. QED
    BY <1>1, <1>2, <1>3

\* A sweep lengthens the inbox of a stream of its own process.
LEMMA SendMoves ==
  ASSUME Typed, Held, NEW i \in Instance, NEW batch \in Seq(Envelope(NodeOf[i])), Send(i, batch)
  PROVE  LET st == agents[i].stream
             s == streams[st]
             t == Refilled(s, s.inbox \o batch, s.inSnapshot, s.bufLocal, s.bufPath, s.committed)
         IN  /\ st \in Stream /\ s \in Served(i) /\ s.by = i /\ s.inbox \in Seq(Envelope(NodeOf[i]))
             /\ streams' = [streams EXCEPT ![st] = t]
             /\ t \in Served(i) /\ t \in StreamSet
             /\ Len(t.inbox) <= InboxCap
             /\ t.open = s.open /\ t.serving = s.serving /\ t.by = i
  <1> DEFINE st == agents[i].stream
             s == streams[st]
             t == Refilled(s, s.inbox \o batch, s.inSnapshot, s.bufLocal, s.bufPath, s.committed)
  <1>1. st \in Stream /\ st # NoStream /\ s.serving
    BY DEF Send, Connected, Typed, Agents
  <1>2. s \in Served(i) /\ s.by = i
    BY <1>1, ServedBy DEF Held
  <1>3. streams' = [streams EXCEPT ![st] = [s EXCEPT !.inbox = s.inbox \o batch]]
    BY DEF Send
  <1>4. Len(s.inbox) + Len(batch) <= InboxCap
    BY DEF Send
  <1> HIDE DEF st, s
  <1>5. s.inbox \in Seq(Envelope(NodeOf[i])) /\ s.inSnapshot \in BOOLEAN /\ s.committed \in BOOLEAN
        /\ s.bufLocal \in Partial(AttachmentsOn(NodeOf[i])) /\ s.bufPath \in Partial(PathKeysOn(NodeOf[i]))
    BY <1>2 DEF Served
  <1>6. s.inbox \o batch \in Seq(Envelope(NodeOf[i])) /\ Len(s.inbox \o batch) <= InboxCap
    BY <1>4, <1>5
  <1>7. t \in Served(i)
    BY <1>2, <1>5, <1>6, RefilledTyped
  <1>8. [s EXCEPT !.inbox = s.inbox \o batch] = t
    BY <1>2, RefilledForms
  <1>9. t.inbox = s.inbox \o batch /\ t.open = s.open /\ t.serving = s.serving /\ t.by = i
    BY <1>2 DEF Refilled
  <1> HIDE DEF t
  <1>10. t \in StreamSet /\ streams' = [streams EXCEPT ![st] = t] /\ Len(t.inbox) <= InboxCap
    BY <1>3, <1>6, <1>7, <1>8, <1>9 DEF StreamSet
  <1>11. QED
    BY <1>1, <1>2, <1>5, <1>7, <1>9, <1>10 DEF st, s, t

\* What Send leaves alone and what it appends, for either kind of sweep.
SweepSends(i, batch, sending) ==
    LET view == View(NodeOf[i])  q == NextSeq(i) IN
    /\ agents[i].seq < Sweeps[i] \/ i \in Endless
    /\ Send(i, batch)
    /\ agents' = [agents EXCEPT ![i].prev = view, ![i].seq = q, ![i].sending = sending]

LEMMA PublishSweeps ==
  ASSUME Typed, NEW i \in Instance
  PROVE  LET view == View(NodeOf[i])  q == NextSeq(i) IN
         /\ PublishSnapshot(i) => SweepSends(i, SnapshotOf(view, q), TRUE)
         /\ PublishDeltas(i) => SweepSends(i, DeltasOf(view, agents[i].prev, q), agents[i].sending)
  <1>1. agents[i] \in Agents
    BY DEF Typed
  <1>2. PublishSnapshot(i) => SweepSends(i, SnapshotOf(View(NodeOf[i]), NextSeq(i)), TRUE)
    BY DEF PublishSnapshot, SweepSends
  <1>3. ASSUME PublishDeltas(i)
        PROVE  SweepSends(i, DeltasOf(View(NodeOf[i]), agents[i].prev, NextSeq(i)), agents[i].sending)
    BY <1>1, <1>3 DEF PublishDeltas, SweepSends, Typed, Agents
  <1>4. QED
    BY <1>2, <1>3

LEMMA SweepsTyped ==
  ASSUME Typed, Held, NEW i \in Instance, NEW batch \in Seq(Envelope(NodeOf[i])), NEW sending \in BOOLEAN,
         SweepSends(i, batch, sending), StoreTypeOK'
  PROVE  Typed' /\ Held'
  <1> DEFINE q == NextSeq(i)
             prev == View(NodeOf[i])
             st == agents[i].stream
             t == Refilled(streams[st], streams[st].inbox \o batch, streams[st].inSnapshot,
                           streams[st].bufLocal, streams[st].bufPath, streams[st].committed)
  <1>2. q \in 0..MaxSeq
    <2>1. agents[i].seq \in 0..MaxSeq
      BY DEF Typed, Agents
    <2>2. QED
      BY <2>1, SequenceGoesOn DEF SweepSends
  <1>3. prev \in Partial(Subject) /\ IsFiniteSet(DOMAIN prev)
    BY ViewTyped
  <1>4. /\ st \in Stream /\ streams' = [streams EXCEPT ![st] = t]
        /\ t \in StreamSet /\ Len(t.inbox) <= InboxCap
        /\ t.open = streams[st].open /\ t.by = i
    BY SendMoves DEF SweepSends
  <1>5. agents' = [agents EXCEPT ![i].prev = prev, ![i].seq = q, ![i].sending = sending]
        /\ UNCHANGED <<seen, known>>
    BY DEF SweepSends, Send
  <1> HIDE DEF q, prev, st, t
  <1>6. agents' \in [Instance -> Agents]
    <2>1. ASSUME NEW g \in Agents
          PROVE  [g EXCEPT !.prev = prev, !.seq = q, !.sending = sending] \in Agents
      BY <1>2, <1>3 DEF Agents
    <2>2. agents' = [agents EXCEPT ![i] = [agents[i] EXCEPT !.prev = prev, !.seq = q, !.sending = sending]]
      BY <1>5 DEF Typed
    <2>3. QED
      BY <2>1, <2>2 DEF Typed
  <1>7. \A j \in Instance : IsFiniteSet(DOMAIN agents'[j].prev) /\ agents'[j].stream = agents[j].stream
    BY <1>3, <1>5 DEF Typed, Agents
  <1>8. Typed'
    BY <1>4, <1>5, <1>6, <1>7 DEF Typed
  <1>9. Held'
    BY <1>4, <1>7 DEF Held, Typed, st
  <1>10. QED
    BY <1>8, <1>9

LEMMA HandleTyped ==
  ASSUME Typed, Held, NEW st \in Stream, NEW t, HandlerMoves(st, t), StoreTypeOK'
  PROVE  Typed' /\ Held'
  <1> USE DEF HandlerMoves
  <1>1. Len(t.inbox) <= InboxCap
    <2>1. Len(streams[st].inbox) \in Nat /\ Len(t.inbox) \in Nat /\ Len(streams[st].inbox) <= InboxCap
      BY InboxTyped DEF Typed
    <2>2. QED
      BY <2>1, TransportAssumption
  <1>2. Typed'
    BY <1>1 DEF Typed
  <1>3. Held'
    BY DEF Held, Typed
  <1>4. QED
    BY <1>2, <1>3

\* A process that lets go of its stream, alive or not.
LEMMA LetGoTyped ==
  ASSUME Typed, Held, NEW i \in Instance, NEW g \in Agents, g.stream = NoStream, IsFiniteSet(DOMAIN g.prev),
         agents' = [agents EXCEPT ![i] = g], streams' = HungUp(i), UNCHANGED <<seen, known>>, StoreTypeOK'
  PROVE  Typed' /\ Held'
  <1>1. Typed'
    <2>1. agents' \in [Instance -> Agents] /\ \A j \in Instance : IsFiniteSet(DOMAIN agents'[j].prev)
      BY DEF Typed
    <2>2. streams' \in [Stream -> StreamSet] /\ \A st \in Stream : Len(streams'[st].inbox) <= InboxCap
      BY HungUpTyped
    <2>3. QED
      BY <2>1, <2>2 DEF Typed
  <1>2. Held'
    <2>1. ASSUME NEW j \in Instance, agents'[j].stream # NoStream
          PROVE  j # i /\ agents'[j] = agents[j] /\ agents[j].stream # agents[i].stream /\ agents[j].stream \in Stream
      BY <2>1 DEF Held, Typed, Agents
    <2>2. ASSUME NEW st \in Stream, st # agents[i].stream
          PROVE  streams'[st] = streams[st]
      BY <2>2 DEF HungUp
    <2>3. QED
      BY <2>1, <2>2 DEF Held
  <1>3. QED
    BY <1>1, <1>2

LEMMA Opened ==
  ASSUME NEW i
  PROVE  LET t == [Closed EXCEPT !.open = TRUE, !.serving = TRUE, !.by = i]
         IN  t \in Served(i) /\ t.open /\ t.serving /\ t.by = i /\ t.inbox = <<>>
  <1>1. Closed \in Unserved
    BY DEF Closed, Unserved
  <1>2. ASSUME NEW s \in Unserved
        PROVE  LET t == [s EXCEPT !.open = TRUE, !.serving = TRUE, !.by = i]
               IN  t \in Served(i) /\ t.open /\ t.serving /\ t.by = i /\ t.inbox = <<>>
    <2> DEFINE t == [s EXCEPT !.open = TRUE, !.serving = TRUE, !.by = i]
    <2>1. <<>> \in Seq(Envelope(NodeOf[i]))
      OBVIOUS
    <2>2. t.open /\ t.serving /\ t.by = i /\ t.inbox = <<>>
      BY DEF Unserved
    <2>3. t \in Served(i)
      <3>1. /\ Empty \in Partial(AttachmentsOn(NodeOf[i]))
            /\ Empty \in Partial(PathKeysOn(NodeOf[i]))
        BY EmptyPartial
      <3>2. QED
        BY <2>1, <3>1 DEF Unserved, Served
    <2>4. QED
      BY <2>2, <2>3
  <1>3. QED
    BY <1>1, <1>2

LEMMA Died ==
  LET g == [Unconnected EXCEPT !.alive = FALSE]
  IN  g \in Agents /\ ~g.alive /\ g.stream = NoStream /\ g.prev = Empty
  <1>1. Unconnected \in Agents /\ Unconnected.stream = NoStream /\ Unconnected.prev = Empty
    BY EmptyPartial, StoreAssumption DEF Unconnected, Agents
  <1>2. ASSUME NEW u \in Agents
        PROVE  LET g == [u EXCEPT !.alive = FALSE]
               IN  g \in Agents /\ ~g.alive /\ g.stream = u.stream /\ g.prev = u.prev
    BY DEF Agents
  <1>3. QED
    BY <1>1, <1>2

LEMMA StepTyped == Typed /\ Held /\ [Next]_vars => Typed' /\ Held'
  <1> SUFFICES ASSUME Typed, Held, [Next]_vars
               PROVE  Typed' /\ Held'
    OBVIOUS
  <1>0. StoreTypeOK'
    BY StepStoreType
  <1>1. ASSUME NEW k \in Subject, NEW healthy \in Verdict, Observe(k, healthy)
        PROVE  Typed' /\ Held'
    <2>1. healthy \in BOOLEAN /\ seen \in Partial(Subject) /\ IsFiniteSet(DOMAIN seen)
      BY TransportAssumption DEF Typed
    <2>2. seen' \in Partial(Subject) /\ DOMAIN seen' = DOMAIN seen \cup {k}
      BY <1>1, <2>1, PutPartial DEF Observe
    <2>3. IsFiniteSet(DOMAIN seen')
      BY <2>1, <2>2, FS_AddElement
    <2>4. QED
      BY <1>0, <1>1, <2>2, <2>3 DEF Observe, Typed, Held
  <1>2. ASSUME NEW k \in Subject, Vanish(k)
        PROVE  Typed' /\ Held'
    <2> DEFINE K == IF k \in Attachment THEN Bundle(k) ELSE {k}
    <2>1. seen \in Partial(Subject) /\ IsFiniteSet(DOMAIN seen)
      BY DEF Typed
    <2>2. seen' = Drop(seen, K) /\ UNCHANGED <<known, agents, streams>>
      BY <1>2 DEF Vanish
    <2> HIDE DEF K
    <2>3. seen' \in Partial(Subject) /\ DOMAIN seen' = DOMAIN seen \ K
      BY <2>1, <2>2, DropPartial
    <2>4. IsFiniteSet(DOMAIN seen')
      BY <2>1, <2>3, FS_Subset
    <2>5. QED
      BY <1>0, <2>2, <2>3, <2>4 DEF Typed, Held
  <1>3. ASSUME NEW a \in Shifting, RegistryChange(a)
        PROVE  Typed' /\ Held'
    <2>1. Bundle(a) \subseteq Subject
      BY TransportAssumption DEF Bundle, Subject
    <2>2. QED
      BY <1>0, <1>3, <2>1 DEF RegistryChange, Typed, Held
  <1>4. ASSUME NEW i \in Instance, AgentDies(i)
        PROVE  Typed' /\ Held'
    <2> DEFINE g == [Unconnected EXCEPT !.alive = FALSE]
    <2>1. g \in Agents /\ g.stream = NoStream /\ g.prev = Empty
      BY Died
    <2>2. IsFiniteSet(DOMAIN g.prev)
      BY <2>1, EmptyPartial, FS_EmptySet
    <2> HIDE DEF g
    <2>3. QED
      BY <1>0, <1>4, <2>1, <2>2, LetGoTyped DEF AgentDies, g
  <1>5. ASSUME NEW i \in Instance, SessionCapped(i) \/ SessionEnds(i) \/ SessionRefused(i)
        PROVE  Typed' /\ Held'
    <2> DEFINE g == [agents[i] EXCEPT !.stream = NoStream]
    <2>1. agents' = [agents EXCEPT ![i] = g] /\ streams' = HungUp(i) /\ UNCHANGED <<seen, known>>
      BY <1>5 DEF SessionOver, SessionCapped, SessionEnds, SessionRefused
    <2>2. g \in Agents /\ g.stream = NoStream /\ IsFiniteSet(DOMAIN g.prev)
      BY DEF Typed, Agents
    <2> HIDE DEF g
    <2>3. QED
      BY <1>0, <2>1, <2>2, LetGoTyped
  <1>6. ASSUME NEW i \in Instance, OpenStream(i)
        PROVE  Typed' /\ Held'
    <2> DEFINE free == {st \in Stream : streams[st] = Closed}
               new == CHOOSE st \in free : TRUE
               t == [Closed EXCEPT !.open = TRUE, !.serving = TRUE, !.by = i]
    <2>1. new \in free
      BY <1>6 DEF OpenStream
    <2>2. /\ agents' = [agents EXCEPT ![i].stream = new, ![i].needSnapshot = TRUE]
          /\ streams' = [streams EXCEPT ![new] = t]
          /\ UNCHANGED <<seen, known>>
          /\ agents[i].stream = NoStream
      BY <1>6 DEF OpenStream
    <2> HIDE DEF new
    <2>3. new \in Stream /\ new # NoStream /\ ~streams[new].open
      BY <2>1, TransportAssumption DEF Closed
    <2>4. t \in Served(i) /\ t.open /\ t.by = i /\ t.inbox = <<>>
      BY Opened
    <2> HIDE DEF t, free
    <2>5. t \in StreamSet /\ Len(t.inbox) <= InboxCap
      BY <2>4, TransportAssumption DEF StreamSet
    <2>6. agents' \in [Instance -> Agents]
      BY <2>2, <2>3 DEF Typed, Agents
    <2>7. /\ \A j \in Instance : IsFiniteSet(DOMAIN agents'[j].prev)
          /\ \A j \in Instance : agents'[j].stream = IF j = i THEN new ELSE agents[j].stream
      BY <2>2 DEF Typed, Agents
    <2>8. Typed'
      BY <1>0, <2>2, <2>5, <2>6, <2>7 DEF Typed
    <2>9. \A j \in Instance : agents[j].stream # new
      BY <2>3 DEF Held
    <2>10. Held'
      BY <2>2, <2>3, <2>4, <2>7, <2>9 DEF Held, Typed
    <2>11. QED
      BY <2>8, <2>10
  <1>7. ASSUME NEW i \in Instance, AckReceived(i)
        PROVE  Typed' /\ Held'
    <2> DEFINE st == agents[i].stream
               s == streams[st]
               t == [s EXCEPT !.resync = FALSE]
    <2>1. st \in Stream /\ s \in StreamSet /\ s.resync
      BY <1>7 DEF AckReceived, Typed, Agents
    <2>2. /\ agents' = [agents EXCEPT ![i].needSnapshot = TRUE]
          /\ streams' = [streams EXCEPT ![st] = t]
          /\ UNCHANGED <<seen, known>>
      BY <1>7 DEF AckReceived
    <2> HIDE DEF st
    <2>3. PICK j \in Instance : s \in Served(j)
      BY <2>1 DEF StreamSet, Unserved
    <2> HIDE DEF s
    <2>4. t \in Served(j) /\ t.open = s.open /\ t.serving = s.serving /\ t.by = s.by /\ t.inbox = s.inbox
      BY <2>3 DEF Served
    <2> HIDE DEF t
    <2>5. t \in StreamSet
      BY <2>4 DEF StreamSet
    <2>6. agents' \in [Instance -> Agents]
      BY <2>2 DEF Typed, Agents
    <2>7. \A l \in Instance : IsFiniteSet(DOMAIN agents'[l].prev) /\ agents'[l].stream = agents[l].stream
      BY <2>2 DEF Typed, Agents
    <2>8. Typed'
      BY <1>0, <2>1, <2>2, <2>4, <2>5, <2>6, <2>7 DEF Typed, s
    <2>9. Held'
      BY <2>1, <2>2, <2>4, <2>7 DEF Held, Typed, s
    <2>10. QED
      BY <2>8, <2>9
  <1>8. ASSUME NEW i \in Instance, PublishSnapshot(i) \/ PublishDeltas(i)
        PROVE  Typed' /\ Held'
    <2> DEFINE q == NextSeq(i)
    <2>1. agents[i].seq \in 0..MaxSeq /\ agents[i].sending \in BOOLEAN
      BY DEF Typed, Agents
    <2>2. q \in Sequence
      BY <1>8, <2>1, SequenceGoesOn DEF PublishSnapshot, PublishDeltas
    <2>3. /\ SnapshotOf(View(NodeOf[i]), q) \in Seq(Envelope(NodeOf[i]))
          /\ DeltasOf(View(NodeOf[i]), agents[i].prev, q) \in Seq(Envelope(NodeOf[i]))
      BY <2>2, BatchTyped
    <2>4. CASE PublishSnapshot(i)
      BY <1>0, <2>3, <2>4, PublishSweeps, SweepsTyped
    <2>5. CASE PublishDeltas(i)
      BY <1>0, <2>1, <2>3, <2>5, PublishSweeps, SweepsTyped
    <2>6. QED
      BY <1>8, <2>4, <2>5
  <1>9. ASSUME NEW i \in Instance, PublishDone(i)
        PROVE  Typed' /\ Held'
    <2>1. /\ agents' \in [Instance -> Agents]
          /\ \A l \in Instance : IsFiniteSet(DOMAIN agents'[l].prev) /\ agents'[l].stream = agents[l].stream
      BY <1>9 DEF PublishDone, Typed, Agents
    <2>2. QED
      BY <1>0, <1>9, <2>1 DEF PublishDone, Typed, Held
  <1>10. ASSUME NEW i \in Instance, PublishFails(i)
         PROVE  Typed' /\ Held'
    <2> DEFINE prev == View(NodeOf[i])
    <2>1. prev \in Partial(Subject) /\ IsFiniteSet(DOMAIN prev)
      BY ViewTyped
    <2>2. agents' = [agents EXCEPT ![i].prev = prev] /\ UNCHANGED <<seen, known, streams>>
      BY <1>10 DEF PublishFails
    <2> HIDE DEF prev
    <2>3. /\ agents' \in [Instance -> Agents]
          /\ \A l \in Instance : IsFiniteSet(DOMAIN agents'[l].prev) /\ agents'[l].stream = agents[l].stream
      BY <2>1, <2>2 DEF Typed, Agents
    <2>4. QED
      BY <1>0, <2>2, <2>3 DEF Typed, Held
  <1>11. ASSUME NEW st \in Stream, Handle(st) \/ HandlerCancelled(st)
         PROVE  Typed' /\ Held'
    BY <1>0, <1>11, HandleMoves, HandleTyped
  <1>12. CASE UNCHANGED vars
    BY <1>0, <1>12 DEF vars, transportVars, Typed, Held
  <1>13. QED
    BY <1>1, <1>2, <1>3, <1>4, <1>5, <1>6, <1>7, <1>8, <1>9, <1>10, <1>11, <1>12 DEF Next, World, Agent

LEMMA InitHeld == Init => Held
  BY DEF Init, Held, Unconnected

LEMMA TransportTyped == Spec => [](Typed /\ Held)
  BY InitTyped, InitHeld, StepTyped, PTL DEF Spec

\* Every variable of the transport stays within its type, and what is in flight
\* within the bound of flow control.
THEOREM TransportTypes == Spec => []TransportTypeOK
  <1>1. Typed => TransportTypeOK
    <2> SUFFICES ASSUME Typed PROVE TransportTypeOK
      OBVIOUS
    <2>1. ASSUME NEW S, S \subseteq Subject, NEW v \in Partial(S) PROVE IsView(v)
      BY <2>1 DEF Partial, IsView
    <2>2. \A i \in Instance :
            /\ IsView(agents[i].prev)
            /\ agents[i].stream \in Stream \cup {NoStream}
            /\ agents[i].seq \in 0..MaxSeq
      BY <2>1 DEF Typed, Agents
    <2>3. ASSUME NEW st \in Stream
          PROVE  /\ streams[st].by \in Instance \cup {NoAgent}
                 /\ IsView(streams[st].bufLocal) /\ IsView(streams[st].bufPath)
      <3>0. streams[st] \in StreamSet
        BY DEF Typed
      <3>1. CASE streams[st] \in Unserved
        BY <3>1, <2>1, EmptyPartial DEF Unserved
      <3>2. ASSUME NEW i \in Instance, streams[st] \in Served(i)
            PROVE  /\ streams[st].by \in Instance \cup {NoAgent}
                   /\ IsView(streams[st].bufLocal) /\ IsView(streams[st].bufPath)
        <4>1. AttachmentsOn(NodeOf[i]) \subseteq Subject /\ PathKeysOn(NodeOf[i]) \subseteq Subject
          BY DEF AttachmentsOn, PathKeysOn, Subject
        <4>2. QED
          BY <3>2, <4>1, <2>1 DEF Served
      <3>3. QED
        BY <3>0, <3>1, <3>2 DEF StreamSet
    <2>4. QED
      BY <2>1, <2>2, <2>3 DEF Typed, TransportTypeOK
  <1>2. QED
    BY <1>1, TransportTyped, PTL

\* Whatever the streams deliver, in whatever order their handlers run, the store is
\* driven only as localFrom, pathFrom and the handler's checks allow.
THEOREM TransportDrivesStore == Spec => StoreSpec
  <1>1. Init => StoreInit
    BY DEF Init
  <1>2. Typed /\ [Next]_vars => [StoreNext]_storeVars
    BY NextStore
  <1>3. QED
    BY <1>1, <1>2, TransportTyped, PTL DEF Spec, StoreSpec

\* So the leases that readers of HealthStore see are kept by the whole transport.
THEOREM TransportKeepsLeases == Spec => ImplementsLocalLease /\ ImplementsPathLease
  BY TransportDrivesStore, StoreImplementsLocalLease, StoreImplementsPathLease, PTL

-----------------------------------------------------------------------------
(* Snapshots in flight. *)

\* w2 has the sweeps of w, and more.
Later(w, w2) ==
    \A i \in Instance :
        /\ Len(w[i]) \in Nat /\ Len(w2[i]) \in Nat /\ Len(w[i]) <= Len(w2[i])
        /\ \A q \in 1..Len(w[i]) : w2[i][q] = w[i][q]

LEMMA SawLater ==
  ASSUME NEW w, NEW w2, Later(w, w2), NEW i \in Instance, NEW q, NEW k, NEW ready, Saw(w, i, q, k, ready)
  PROVE  Saw(w2, i, q, k, ready)
  <1>1. q \in 1..Len(w[i]) /\ w2[i][q] = w[i][q] /\ q \in 1..Len(w2[i])
    BY DEF Saw, Later
  <1>2. QED
    BY <1>1 DEF Saw

LEMMA SoundLater ==
  ASSUME NEW w, NEW w2, Later(w, w2), NEW s, s.by \in Instance, Sound(w, s)
  PROVE  Sound(w2, s)
  <1>1. \A q, k, ready : Saw(w, s.by, q, k, ready) => Saw(w2, s.by, q, k, ready)
    BY SawLater
  <1>2. \A q : BufferedFrom(w, s, q) => BufferedFrom(w2, s, q)
    BY <1>1 DEF BufferedFrom
  <1>3. \A j : Matched(w, s, j) => Matched(w2, s, j)
    BY <1>2 DEF Matched
  <1>4. QED
    BY <1>1, <1>3 DEF Sound, Truthful, EndsMatched

LEMMA EmptySound ==
  ASSUME NEW w, NEW s, s.inbox = <<>>
  PROVE  Sound(w, s)
  BY DEF Sound, Truthful, EndsMatched

LEMMA SameSound ==
  ASSUME NEW w, NEW s, NEW t, Sound(w, s), t.by = s.by, t.inbox = s.inbox,
         t.bufLocal = s.bufLocal, t.bufPath = s.bufPath
  PROVE  Sound(w, t)
  BY DEF Sound, Truthful, EndsMatched, Matched, BufferedFrom

\* The handler takes the head off the inbox. The beginning of a snapshot empties
\* the buffers, and a report leaves them holding what its sweep saw.
LEMMA OnwardSound ==
  ASSUME NEW w, NEW E, NEW s, s.inbox \in Seq(E), s.inbox # <<>>, Sound(w, s),
         NEW t, t.by = s.by, t.inbox = Tail(s.inbox),
         Head(s.inbox).kind = "begin" => \A q : BufferedFrom(w, t, q),
         IsReport(Head(s.inbox)) /\ BufferedFrom(w, s, Head(s.inbox).seq) => BufferedFrom(w, t, Head(s.inbox).seq)
  PROVE  Sound(w, t)
  <1> DEFINE x == s.inbox
             y == t.inbox
  <1>1. /\ Len(x) \in Nat /\ Len(x) >= 1 /\ Head(x) = x[1]
        /\ Len(y) = Len(x) - 1 /\ \A l \in 1..Len(y) : y[l] = x[l + 1]
    BY HeadTail
  <1> HIDE DEF x, y
  <1>2. Truthful(w, t)
    <2> SUFFICES ASSUME NEW j \in 1..Len(y), IsReport(y[j])
                 PROVE  Saw(w, t.by, y[j].seq, y[j].key, y[j].ready)
      BY DEF Truthful, y
    <2>1. j + 1 \in 1..Len(x) /\ y[j] = x[j + 1]
      BY <1>1
    <2>2. QED
      BY <2>1 DEF Sound, Truthful, x
  <1>3. EndsMatched(w, t)
    <2> SUFFICES ASSUME NEW j \in 1..Len(y), y[j].kind = "end"
                 PROVE  Matched(w, t, j)
      BY DEF EndsMatched, y
    <2> DEFINE q == y[j].seq
    <2>1. j \in Nat /\ j + 1 \in 1..Len(x) /\ y[j] = x[j + 1]
      BY <1>1
    <2>2. Matched(w, s, j + 1)
      BY <2>1 DEF Sound, EndsMatched, x
    <2>3. ASSUME NEW b \in 1..j, x[b].kind = "begin", ReportsOf(x, b + 1, j, q)
          PROVE  Matched(w, t, j)
      <3>1. CASE b = 1
        <4>1. ReportsOf(y, 1, j - 1, q)
          <5> SUFFICES ASSUME NEW l \in 1..(j - 1) PROVE IsReport(y[l]) /\ y[l].seq = q
            BY DEF ReportsOf
          <5>1. l + 1 \in (b + 1)..j /\ y[l] = x[l + 1]
            BY <3>1, <1>1, <2>1
          <5>2. QED
            BY <5>1, <2>3 DEF ReportsOf
        <4>2. BufferedFrom(w, t, q)
          BY <3>1, <2>3, <1>1 DEF x
        <4>3. QED
          BY <4>1, <4>2 DEF Matched, y
      <3>2. CASE b # 1
        <4>1. b - 1 \in 1..(j - 1) /\ y[b - 1] = x[b] /\ (b - 1) + 1 = b
          BY <3>2, <1>1, <2>1
        <4>2. ReportsOf(y, b, j - 1, q)
          <5> SUFFICES ASSUME NEW l \in b..(j - 1) PROVE IsReport(y[l]) /\ y[l].seq = q
            BY DEF ReportsOf
          <5>1. l + 1 \in (b + 1)..j /\ y[l] = x[l + 1]
            BY <1>1, <2>1
          <5>2. QED
            BY <5>1, <2>3 DEF ReportsOf
        <4>3. QED
          BY <4>1, <4>2, <2>3 DEF Matched, y
      <3>3. QED
        BY <3>1, <3>2
    <2>4. ASSUME ReportsOf(x, 1, j, q), BufferedFrom(w, s, q)
          PROVE  Matched(w, t, j)
      <3>1. IsReport(x[1]) /\ x[1].seq = q
        BY <2>1, <2>4 DEF ReportsOf
      <3>2. BufferedFrom(w, t, q)
        BY <3>1, <2>4, <1>1 DEF x
      <3>3. ReportsOf(y, 1, j - 1, q)
        <4> SUFFICES ASSUME NEW l \in 1..(j - 1) PROVE IsReport(y[l]) /\ y[l].seq = q
          BY DEF ReportsOf
        <4>1. l + 1 \in 1..j /\ y[l] = x[l + 1]
          BY <1>1, <2>1
        <4>2. QED
          BY <4>1, <2>4 DEF ReportsOf
      <3>4. QED
        BY <3>2, <3>3 DEF Matched, y
    <2>5. (j + 1) - 1 = j
      BY <2>1
    <2>6. QED
      BY <2>1, <2>2, <2>3, <2>4, <2>5 DEF Matched, x
  <1>4. QED
    BY <1>2, <1>3 DEF Sound

\* What one sweep may put behind the rest: true reports, and whole snapshots.
BatchSound(w, i, batch) ==
    /\ \A j \in 1..Len(batch) :
        IsReport(batch[j]) => Saw(w, i, batch[j].seq, batch[j].key, batch[j].ready)
    /\ \A j \in 1..Len(batch) : batch[j].kind = "end" =>
        \E b \in 1..(j - 1) : batch[b].kind = "begin" /\ ReportsOf(batch, b + 1, j - 1, batch[j].seq)

LEMMA AppendSound ==
  ASSUME NEW w, NEW E, NEW s, s.inbox \in Seq(E), Sound(w, s), NEW batch \in Seq(E), BatchSound(w, s.by, batch),
         NEW t, t.by = s.by, t.inbox = s.inbox \o batch, t.bufLocal = s.bufLocal, t.bufPath = s.bufPath
  PROVE  Sound(w, t)
  <1> DEFINE x == s.inbox
             y == t.inbox
             n == Len(x)
  <1>1. /\ n \in Nat /\ Len(batch) \in Nat /\ Len(y) = n + Len(batch)
        /\ \A l \in 1..n : y[l] = x[l]
        /\ \A l \in 1..Len(batch) : y[n + l] = batch[l]
    OBVIOUS
  <1>2. \A j \in 1..Len(y) : j \notin 1..n => j - n \in 1..Len(batch) /\ y[j] = batch[j - n]
    <2> SUFFICES ASSUME NEW j \in 1..Len(y), j \notin 1..n
                 PROVE  j - n \in 1..Len(batch) /\ y[j] = batch[j - n]
      OBVIOUS
    <2>1. j - n \in 1..Len(batch) /\ n + (j - n) = j
      BY <1>1
    <2>2. QED
      BY <1>1, <2>1
  <1> HIDE DEF x, y, n
  <1>3. Truthful(w, t)
    <2> SUFFICES ASSUME NEW j \in 1..Len(y), IsReport(y[j])
                 PROVE  Saw(w, t.by, y[j].seq, y[j].key, y[j].ready)
      BY DEF Truthful, y
    <2>1. CASE j \in 1..n
      BY <1>1, <2>1 DEF Sound, Truthful, x, n
    <2>2. CASE j \notin 1..n
      BY <1>2, <2>2 DEF BatchSound
    <2>3. QED
      BY <2>1, <2>2
  <1>4. EndsMatched(w, t)
    <2> SUFFICES ASSUME NEW j \in 1..Len(y), y[j].kind = "end"
                 PROVE  Matched(w, t, j)
      BY DEF EndsMatched, y
    <2> DEFINE q == y[j].seq
    <2>1. CASE j \in 1..n
      <3>1. y[j] = x[j] /\ \A l \in 1..(j - 1) : l \in 1..n /\ y[l] = x[l]
        BY <1>1, <2>1
      <3>2. Matched(w, s, j)
        BY <2>1, <3>1 DEF Sound, EndsMatched, x, n
      <3>3. ASSUME NEW b \in 1..(j - 1), x[b].kind = "begin", ReportsOf(x, b + 1, j - 1, q)
            PROVE  Matched(w, t, j)
        <4>1. ReportsOf(y, b + 1, j - 1, q)
          BY <3>1, <3>3 DEF ReportsOf
        <4>2. QED
          BY <3>1, <3>3, <4>1 DEF Matched, y
      <3>4. ASSUME ReportsOf(x, 1, j - 1, q), BufferedFrom(w, s, q)
            PROVE  Matched(w, t, j)
        <4>1. ReportsOf(y, 1, j - 1, q) /\ BufferedFrom(w, t, q)
          BY <3>1, <3>4 DEF ReportsOf, BufferedFrom
        <4>2. QED
          BY <4>1 DEF Matched, y
      <3>5. QED
        BY <3>1, <3>2, <3>3, <3>4 DEF Matched, x
    <2>2. CASE j \notin 1..n
      <3> DEFINE i == j - n
      <3>1. i \in 1..Len(batch) /\ y[j] = batch[i] /\ j = n + i
        BY <1>1, <1>2, <2>2
      <3> HIDE DEF i
      <3>2. PICK b \in 1..(i - 1) : batch[b].kind = "begin" /\ ReportsOf(batch, b + 1, i - 1, q)
        BY <3>1 DEF BatchSound
      <3>3. n + b \in 1..(j - 1) /\ y[n + b] = batch[b]
        BY <1>1, <3>1
      <3>4. ReportsOf(y, n + b + 1, j - 1, q)
        <4> SUFFICES ASSUME NEW l \in (n + b + 1)..(j - 1) PROVE IsReport(y[l]) /\ y[l].seq = q
          BY DEF ReportsOf
        <4>1. l - n \in (b + 1)..(i - 1) /\ l \in 1..Len(y) /\ l \notin 1..n
          BY <1>1, <3>1
        <4>2. QED
          BY <4>1, <1>2, <3>2 DEF ReportsOf
      <3>5. QED
        BY <3>2, <3>3, <3>4 DEF Matched, y
    <2>3. QED
      BY <2>1, <2>2
  <1>5. QED
    BY <1>3, <1>4 DEF Sound

LEMMA SweepSound ==
  ASSUME NEW w, NEW i, NEW q, NEW view, Len(w[i]) \in Nat, q \in 1..Len(w[i]), w[i][q] = view,
         NEW e \in SweepReports(view, DOMAIN view, q)
  PROVE  IsReport(e) /\ e.kind # "end" /\ e.seq = q /\ Saw(w, i, e.seq, e.key, e.ready)
  BY DEF SweepReports, About, IsReport, Saw

LEMMA SnapshotSound ==
  ASSUME NEW w, NEW i, NEW q, NEW view, IsFiniteSet(DOMAIN view),
         Len(w[i]) \in Nat, q \in 1..Len(w[i]), w[i][q] = view
  PROVE  BatchSound(w, i, SnapshotOf(view, q))
  <1> DEFINE b == SnapshotOf(view, q)
             S == SweepReports(view, DOMAIN view, q)
  <1>1. /\ Len(b) \in Nat /\ Len(b) >= 2
        /\ b[1] = [kind |-> "begin", seq |-> q]
        /\ b[Len(b)] = [kind |-> "end", seq |-> q]
        /\ \A l \in 2..(Len(b) - 1) : b[l] \in S
    BY SnapshotListed
  <1>2. \A e \in S : IsReport(e) /\ e.kind # "end" /\ e.seq = q /\ Saw(w, i, e.seq, e.key, e.ready)
    BY SweepSound
  <1> HIDE DEF b, S
  <1>3. b[1].kind = "begin" /\ b[Len(b)].seq = q /\ ~IsReport(b[1]) /\ ~IsReport(b[Len(b)])
    BY <1>1 DEF IsReport
  <1>4. ASSUME NEW j \in 1..Len(b), IsReport(b[j])
        PROVE  Saw(w, i, b[j].seq, b[j].key, b[j].ready)
    <2>1. j \in 2..(Len(b) - 1)
      BY <1>1, <1>3, <1>4
    <2>2. QED
      BY <2>1, <1>1, <1>2
  <1>5. ASSUME NEW j \in 1..Len(b), b[j].kind = "end"
        PROVE  \E l \in 1..(j - 1) : b[l].kind = "begin" /\ ReportsOf(b, l + 1, j - 1, b[j].seq)
    <2>1. j = Len(b)
      <3>1. j \notin 2..(Len(b) - 1)
        BY <1>1, <1>2, <1>5
      <3>2. j # 1
        BY <1>3, <1>5
      <3>3. QED
        BY <1>1, <3>1, <3>2
    <2>2. ReportsOf(b, 1 + 1, j - 1, q)
      BY <1>1, <1>2, <2>1 DEF ReportsOf
    <2>3. QED
      BY <1>1, <1>3, <2>1, <2>2
  <1>6. QED
    BY <1>4, <1>5 DEF BatchSound, b

LEMMA DeltasSound ==
  ASSUME NEW w, NEW i, NEW q, NEW view, IsFiniteSet(DOMAIN view), NEW prev, IsFiniteSet(DOMAIN prev),
         Len(w[i]) \in Nat, q \in 1..Len(w[i]), w[i][q] = view
  PROVE  BatchSound(w, i, DeltasOf(view, prev, q))
  <1> DEFINE b == DeltasOf(view, prev, q)
             S == SweepReports(view, DOMAIN view, q)
  <1>1. b \in Seq(S \cup Retirements(Attachment, q))
    BY DeltasListed
  <1>2. \A e \in S : IsReport(e) /\ e.kind # "end" /\ e.seq = q /\ Saw(w, i, e.seq, e.key, e.ready)
    BY SweepSound
  <1>3. \A e \in Retirements(Attachment, q) : ~IsReport(e) /\ e.kind # "end"
    BY DEF Retirements, IsReport
  <1> HIDE DEF b, S
  <1>4. \A j \in 1..Len(b) : b[j] \in S \/ b[j] \in Retirements(Attachment, q)
    BY <1>1
  <1>5. BatchSound(w, i, b)
    BY <1>2, <1>3, <1>4 DEF BatchSound
  <1>6. QED
    BY <1>5 DEF b

-----------------------------------------------------------------------------
(* The history invariant. *)

LEMMA ByOrEmpty ==
  ASSUME NEW s \in StreamSet
  PROVE  s.by \in Instance \/ s.inbox = <<>>
  <1>1. CASE s \in Unserved
    BY <1>1 DEF Unserved
  <1>2. ASSUME NEW i \in Instance, s \in Served(i)
        PROVE  s.by \in Instance
    BY <1>2 DEF Served
  <1>3. QED
    BY <1>1, <1>2 DEF StreamSet

\* The report at the head of an inbox says what its sweep saw.
LEMMA HeadTruthful ==
  ASSUME NEW w, NEW E, NEW s, s.inbox \in Seq(E), s.inbox # <<>>, Sound(w, s), IsReport(Head(s.inbox))
  PROVE  LET e == Head(s.inbox) IN Saw(w, s.by, e.seq, e.key, e.ready)
  <1>1. Head(s.inbox) = s.inbox[1] /\ 1 \in 1..Len(s.inbox)
    BY HeadTail
  <1>2. QED
    BY <1>1 DEF Sound, Truthful

\* The end of a snapshot at the head of an inbox finds in the buffers nothing but
\* what its sweep saw.
LEMMA HeadEnd ==
  ASSUME NEW w, NEW E, NEW s, s.inbox \in Seq(E), s.inbox # <<>>, Sound(w, s), Head(s.inbox).kind = "end"
  PROVE  BufferedFrom(w, s, Head(s.inbox).seq)
  <1>1. Head(s.inbox) = s.inbox[1] /\ 1 \in 1..Len(s.inbox)
    BY HeadTail
  <1>2. Matched(w, s, 1)
    BY <1>1 DEF Sound, EndsMatched
  <1>3. QED
    BY <1>1, <1>2 DEF Matched

LEMMA HandleSound ==
  ASSUME Typed, NEW st \in Stream, Sound(swept, streams[st]), Handle(st) \/ HandlerCancelled(st)
  PROVE  Sound(swept, streams'[st])
  <1> DEFINE s == streams[st]
             e == Head(s.inbox)
  <1>0. streams \in [Stream -> StreamSet]
    BY DEF Typed
  <1>1. CASE Adopt(st)
    <2> DEFINE t == [s EXCEPT !.adopted = TRUE, !.resync = s.open]
    <2>1. /\ streams' = [streams EXCEPT ![st] = t]
          /\ t.by = s.by /\ t.inbox = s.inbox /\ t.bufLocal = s.bufLocal /\ t.bufPath = s.bufPath
      BY <1>1, AdoptMoves DEF HandlerMoves
    <2> HIDE DEF t
    <2>2. streams'[st] = t
      BY <2>1, <1>0
    <2>3. QED
      BY <2>1, <2>2, SameSound
  <1>2. CASE StaleInstance(st) \/ HandlerCancelled(st)
    <2>1. streams'[st] = Returned(s)
      BY <1>0, <1>2 DEF StaleInstance, HandlerCancelled
    <2>2. Returned(s).inbox = <<>>
      BY DEF Returned, Closed
    <2>3. QED
      BY <2>1, <2>2, EmptySound
  <1>3. ASSUME NEW kind, Handling(st, kind), NEW b, NEW l, NEW p, NEW c,
               Onward(st, b, l, p, c),
               LET t == [by |-> s.by, bufLocal |-> l, bufPath |-> p] IN
               /\ kind = "begin" => \A q : BufferedFrom(swept, t, q)
               /\ IsReport(e) /\ BufferedFrom(swept, s, e.seq) => BufferedFrom(swept, t, e.seq)
        PROVE  Sound(swept, streams'[st])
    <2> DEFINE t == Refilled(s, Tail(s.inbox), b, l, p, c)
    <2>1. streams'[st] = t
      BY <1>0, <1>3 DEF Onward
    <2>2. t.by = s.by /\ t.inbox = Tail(s.inbox) /\ t.bufLocal = l /\ t.bufPath = p
      BY DEF Refilled
    <2>3. s.inbox \in Seq(Envelope(NodeOf[s.by])) /\ s.inbox # <<>> /\ e.kind = kind
      BY <1>3, HeadTyped
    <2> HIDE DEF t
    <2>4. \A q : BufferedFrom(swept, t, q) <=>
                   BufferedFrom(swept, [by |-> s.by, bufLocal |-> l, bufPath |-> p], q)
      BY <2>2 DEF BufferedFrom
    <2>5. QED
      BY <1>3, <2>1, <2>2, <2>3, <2>4, OnwardSound
  <1>4. CASE SnapshotBegin(st)
    <2>1. Onward(st, TRUE, Empty, Empty, s.committed) /\ Handling(st, "begin")
      BY <1>4, OnwardForms DEF SnapshotBegin
    <2>2. \A q : BufferedFrom(swept, [by |-> s.by, bufLocal |-> Empty, bufPath |-> Empty], q)
      BY EmptyPartial DEF BufferedFrom
    <2>3. QED
      BY <1>3, <2>1, <2>2
  <1>5. CASE SnapshotEnd(st)
    <2>1. Onward(st, FALSE, s.bufLocal, s.bufPath, TRUE) /\ Handling(st, "end")
      BY <1>5, OnwardForms DEF SnapshotEnd
    <2>2. ~IsReport(e)
      BY <2>1 DEF Handling, IsReport
    <2>3. "end" # "begin"
      OBVIOUS
    <2>4. PICK b : Onward(st, b, s.bufLocal, s.bufPath, TRUE)
      BY <2>1
    <2>5. QED
      BY <1>3, <2>1, <2>2, <2>3, <2>4
  <1>6. ASSUME NEW kind \in {"local", "path"}, Handling(st, kind)
        PROVE  Saw(swept, s.by, e.seq, e.key, e.ready)
    <2>1. s.inbox \in Seq(Envelope(NodeOf[s.by])) /\ s.inbox # <<>> /\ e.kind = kind
      BY <1>6, HeadTyped
    <2>2. IsReport(e)
      BY <1>6, <2>1 DEF IsReport
    <2>3. QED
      BY <2>1, <2>2, HeadTruthful
  <1>7. CASE LocalBuffered(st)
    <2> DEFINE l == Put(s.bufLocal, e.key, e.ready)
    <2>1. Onward(st, s.inSnapshot, l, s.bufPath, s.committed) /\ Handling(st, "local")
      BY <1>7, OnwardForms DEF LocalBuffered
    <2>2. Saw(swept, s.by, e.seq, e.key, e.ready)
      BY <2>1, <1>6
    <2>3. BufferedFrom(swept, s, e.seq) =>
            BufferedFrom(swept, [by |-> s.by, bufLocal |-> l, bufPath |-> s.bufPath], e.seq)
      BY <2>2 DEF BufferedFrom, Put
    <2> HIDE DEF l
    <2>4. QED
      BY <1>3, <2>1, <2>3
  <1>8. CASE PathBuffered(st)
    <2> DEFINE p == Put(s.bufPath, e.key, e.ready)
    <2>1. Onward(st, s.inSnapshot, s.bufLocal, p, s.committed) /\ Handling(st, "path")
      BY <1>8, OnwardForms DEF PathBuffered
    <2>2. Saw(swept, s.by, e.seq, e.key, e.ready)
      BY <2>1, <1>6
    <2>3. BufferedFrom(swept, s, e.seq) =>
            BufferedFrom(swept, [by |-> s.by, bufLocal |-> s.bufLocal, bufPath |-> p], e.seq)
      BY <2>2 DEF BufferedFrom, Put
    <2> HIDE DEF p
    <2>4. QED
      BY <1>3, <2>1, <2>3
  <1>9. CASE \/ \E kind \in {"local", "path"} : Unknown(st, kind)
             \/ LocalDelta(st)
             \/ PathDelta(st)
             \/ DeltaOutOfOrder(st)
             \/ Retired(st)
    <2>1. Onward(st, s.inSnapshot, s.bufLocal, s.bufPath, s.committed)
      BY <1>9, OnwardForms
    <2>2. PICK kind \in {"local", "path", "retired"} : Handling(st, kind)
      BY <1>9 DEF Unknown, LocalDelta, PathDelta, DeltaOutOfOrder, Retired
    <2>3. \A q : BufferedFrom(swept, s, q) =>
            BufferedFrom(swept, [by |-> s.by, bufLocal |-> s.bufLocal, bufPath |-> s.bufPath], q)
      BY DEF BufferedFrom
    <2>4. QED
      BY <1>3, <2>1, <2>2, <2>3
  <1>10. QED
    BY <1>1, <1>2, <1>4, <1>5, <1>7, <1>8, <1>9 DEF Handle

\* What handlers write into the store was seen by the sweep it is stamped with.
LEMMA HandleStored ==
  ASSUME Typed, NEW st \in Stream, Sound(swept, streams[st]), Handle(st) \/ HandlerCancelled(st),
         StoredSound(swept, local), StoredSound(swept, path)
  PROVE  StoredSound(swept, local') /\ StoredSound(swept, path')
  <1> DEFINE s == streams[st]
             e == Head(s.inbox)
             o == OriginAt(st)
  <1>1. ASSUME NEW kind, Handling(st, kind)
        PROVE  /\ s.inbox \in Seq(Envelope(NodeOf[s.by])) /\ s.inbox # <<>> /\ e.kind = kind
               /\ o.instance = s.by /\ o.seq = e.seq
    BY <1>1, HeadTyped
  <1>2. ASSUME NEW kind \in {"local", "path"}, Handling(st, kind)
        PROVE  Saw(swept, o.instance, o.seq, e.key, e.ready)
    <2>1. IsReport(e)
      BY <1>1, <1>2 DEF IsReport
    <2>2. QED
      BY <1>1, <1>2, <2>1, HeadTruthful
  <1>3. ASSUME NEW m, StoredSound(swept, m), NEW k, NEW ready, Saw(swept, o.instance, o.seq, k, ready)
        PROVE  StoredSound(swept, Put(m, k, AcceptedEntry(o, ready)))
    BY <1>3 DEF StoredSound, Put, AcceptedEntry
  <1>4. ASSUME NEW m, StoredSound(swept, m), NEW v, \A k \in DOMAIN v : Saw(swept, o.instance, o.seq, k, v[k])
        PROVE  StoredSound(swept, Replaced(m, o, v))
    BY <1>4 DEF StoredSound, Replaced, AcceptedEntry
  <1>5. CASE SnapshotEnd(st)
    <2>1. Handling(st, "end") /\ ApplySnapshot(o, s.bufLocal, s.bufPath)
      BY <1>5 DEF SnapshotEnd
    <2>2. BufferedFrom(swept, s, e.seq)
      BY <1>1, <2>1, HeadEnd
    <2>3. /\ \A k \in DOMAIN s.bufLocal : Saw(swept, o.instance, o.seq, k, s.bufLocal[k])
          /\ \A k \in DOMAIN s.bufPath : Saw(swept, o.instance, o.seq, k, s.bufPath[k])
      BY <1>1, <2>1, <2>2 DEF BufferedFrom
    <2> HIDE DEF o, s
    <2>4. QED
      BY <1>4, <2>1, <2>3 DEF ApplySnapshot
  <1>6. CASE LocalDelta(st)
    <2>1. Handling(st, "local") /\ AcceptLocal(o, e.key, e.ready)
      BY <1>6 DEF LocalDelta
    <2>2. Saw(swept, o.instance, o.seq, e.key, e.ready)
      BY <1>2, <2>1
    <2> HIDE DEF o, e
    <2>3. QED
      BY <1>3, <2>1, <2>2 DEF AcceptLocal
  <1>7. CASE PathDelta(st)
    <2>1. Handling(st, "path") /\ AcceptPath(o, e.key, e.ready)
      BY <1>7 DEF PathDelta
    <2>2. Saw(swept, o.instance, o.seq, e.key, e.ready)
      BY <1>2, <2>1
    <2> HIDE DEF o, e
    <2>3. QED
      BY <1>3, <2>1, <2>2 DEF AcceptPath
  <1>8. CASE Retired(st)
    BY <1>8 DEF Retired, ForgetLocal, Drop, StoredSound
  <1>9. CASE UNCHANGED <<local, path>>
    BY <1>9
  <1>10. QED
    BY <1>5, <1>6, <1>7, <1>8, <1>9
    DEF Handle, HandlerCancelled, Adopt, AdoptInstance, SnapshotBegin, Unknown, LocalBuffered, PathBuffered,
        DeltaOutOfOrder, StaleInstance, storeVars

LEMMA StepHistory ==
  ASSUME Typed, Held, HistoryInv, [Next]_vars
  PROVE  HistoryInv'
  <1>0. StoreTypeOK /\ streams \in [Stream -> StreamSet] /\ agents \in [Instance -> Agents]
    BY DEF Typed
  <1>1. ASSUME NEW i \in Instance, NEW batch, NEW sending, SweepSends(i, batch, sending),
               batch \in Seq(Envelope(NodeOf[i])),
               \A w : Len(w[i]) \in Nat /\ NextSeq(i) \in 1..Len(w[i])
                        /\ w[i][NextSeq(i)] = View(NodeOf[i])
                      => BatchSound(w, i, batch)
        PROVE  HistoryInv'
    <2> DEFINE view == View(NodeOf[i])
               q == NextSeq(i)
               st == agents[i].stream
               t == Refilled(streams[st], streams[st].inbox \o batch, streams[st].inSnapshot,
                             streams[st].bufLocal, streams[st].bufPath, streams[st].committed)
    <2>1. /\ agents[i].alive
          /\ agents[i].seq < Sweeps[i] \/ i \in Endless
          /\ swept' = IF agents[i].seq < Sweeps[i]
                      THEN [swept EXCEPT ![i] = Append(swept[i], view)] ELSE swept
          /\ UNCHANGED <<local, path, seen>>
          /\ agents' = [agents EXCEPT ![i].prev = view, ![i].seq = q, ![i].sending = sending]
      BY <1>1 DEF SweepSends, Send, storeVars
    <2>2. /\ agents[i].seq = Len(swept[i]) /\ agents[i].seq <= Sweeps[i]
          /\ swept[i] \in Seq(Partial(Subject)) /\ Len(swept[i]) \in Nat
          /\ Sweeps[i] \in Nat /\ Sweeps[i] >= 1
      BY <2>1, StoreAssumption, TransportAssumption DEF HistoryInv, Numbered
    <2>4. view \in Partial(Subject)
      BY ViewTyped
    <2>3. /\ swept'[i] \in Seq(Partial(Subject))
          /\ q = Len(swept'[i]) /\ q >= 1 /\ q <= Sweeps[i] /\ swept'[i][q] = view
          /\ \A j \in Instance : j # i => swept'[j] = swept[j]
          /\ swept'[i] = swept[i] \/ swept'[i] = Append(swept[i], view)
      <3>1. swept \in [Instance -> Seq(Partial(Subject))]
        BY DEF HistoryInv, Numbered
      <3>2. CASE agents[i].seq < Sweeps[i]
        <4>1. q = Len(swept[i]) + 1
          BY <2>2, <3>2 DEF NextSeq
        <4>2. swept'[i] = Append(swept[i], view) /\ \A j \in Instance : j # i => swept'[j] = swept[j]
          BY <2>1, <3>1, <3>2
        <4>3. QED
          BY <2>2, <2>4, <3>2, <4>1, <4>2
      <3>3. CASE ~(agents[i].seq < Sweeps[i])
        <4>1. agents[i].seq = Sweeps[i] /\ q = Sweeps[i] /\ i \in Endless /\ swept' = swept
          BY <2>1, <2>2, <3>3 DEF NextSeq
        <4>2. swept[i][Sweeps[i]] = view
          BY <2>1, <4>1 DEF HistoryInv, Repeated
        <4>3. QED
          BY <2>2, <4>1, <4>2
      <3>4. QED
        BY <3>2, <3>3
    <2>5. /\ st \in Stream /\ streams[st].by = i /\ streams[st].inbox \in Seq(Envelope(NodeOf[i]))
          /\ streams' = [streams EXCEPT ![st] = t]
      BY <1>1, SendMoves DEF SweepSends
    <2>6. /\ t.by = streams[st].by /\ t.inbox = streams[st].inbox \o batch
          /\ t.bufLocal = streams[st].bufLocal /\ t.bufPath = streams[st].bufPath
      BY DEF Refilled
    <2> HIDE DEF view, q, st, t
    <2>7. swept' \in [Instance -> Seq(Partial(Subject))]
      BY <2>1, <2>4 DEF HistoryInv, Numbered
    <2>8. Numbered'
      <3>1. \A j \in Instance : agents'[j].alive = agents[j].alive
        BY <2>1, <1>0 DEF Agents
      <3>2. agents'[i].seq = q /\ \A j \in Instance : j # i => agents'[j].seq = agents[j].seq
        BY <2>1, <1>0 DEF Agents
      <3>3. ASSUME NEW j \in Instance, agents'[j].alive
            PROVE  agents'[j].seq = Len(swept'[j]) /\ agents'[j].seq <= Sweeps[j]
        BY <2>3, <3>1, <3>2, <3>3 DEF HistoryInv, Numbered
      <3>4. QED
        BY <2>7, <3>3 DEF Numbered
    <2>8a. Repeated'
      <3> SUFFICES ASSUME NEW j \in Endless, agents'[j].alive, agents'[j].seq = Sweeps[j]
                   PROVE  swept'[j][Sweeps[j]] = View(NodeOf[j])'
        BY DEF Repeated
      <3>1. j \in Instance
        BY TransportAssumption
      <3>2. View(NodeOf[j])' = View(NodeOf[j])
        BY <2>1 DEF View
      <3>3. /\ agents'[j].alive = agents[j].alive
            /\ agents'[j].seq = IF j = i THEN q ELSE agents[j].seq
        BY <2>1, <3>1, <1>0 DEF Agents
      <3>4. CASE j = i
        BY <2>3, <3>2, <3>3, <3>4 DEF view
      <3>5. CASE j # i
        BY <2>3, <3>1, <3>2, <3>3, <3>5 DEF HistoryInv, Repeated
      <3>6. QED
        BY <3>4, <3>5
    <2>9. Later(swept, swept')
      <3> SUFFICES ASSUME NEW j \in Instance
                   PROVE  /\ Len(swept[j]) \in Nat /\ Len(swept'[j]) \in Nat /\ Len(swept[j]) <= Len(swept'[j])
                          /\ \A r \in 1..Len(swept[j]) : swept'[j][r] = swept[j][r]
        BY DEF Later
      <3>1. swept[j] \in Seq(Partial(Subject)) /\ Len(swept[j]) \in Nat
        BY DEF HistoryInv, Numbered
      <3>2. swept'[j] = swept[j] \/ swept'[j] = Append(swept[j], view)
        BY <2>3
      <3>3. QED
        BY <3>1, <3>2, <2>4
    <2>10. InFlightSound'
      <3>1. ASSUME NEW u \in Stream PROVE Sound(swept', streams[u])
        <4>1. Sound(swept, streams[u]) /\ streams[u] \in StreamSet
          BY <1>0 DEF HistoryInv, InFlightSound
        <4>2. QED
          BY <4>1, <2>9, ByOrEmpty, EmptySound, SoundLater
      <3>2. BatchSound(swept', i, batch)
        <4>1. Len(swept'[i]) = q /\ q \in Nat /\ q >= 1 /\ swept'[i][q] = view
          BY <2>3
        <4>2. QED
          BY <1>1, <4>1 DEF q, view
      <3>3. Sound(swept', t)
        BY <1>1, <2>5, <2>6, <3>1, <3>2, AppendSound
      <3>4. QED
        BY <1>0, <2>5, <3>1, <3>3 DEF InFlightSound
    <2>11. ASSUME NEW S, NEW m, IsStoreMap(m, S), StoredSound(swept, m)
           PROVE  StoredSound(swept', m)
      <3>1. \A k \in DOMAIN m : m[k].instance \in Instance
        BY <2>11 DEF IsStoreMap, Entry
      <3>2. QED
        BY <2>9, <2>11, <3>1, SawLater DEF StoredSound
    <2>12. QED
      BY <1>0, <2>1, <2>8, <2>8a, <2>10, <2>11 DEF HistoryInv, StoreTypeOK
  <1>2. ASSUME NEW i \in Instance, PublishSnapshot(i) \/ PublishDeltas(i)
        PROVE  HistoryInv'
    <2> DEFINE q == NextSeq(i)
               view == View(NodeOf[i])
    <2>1. q \in Sequence
      BY <1>2, SequenceGoesOn DEF PublishSnapshot, PublishDeltas
    <2>2. /\ SnapshotOf(view, q) \in Seq(Envelope(NodeOf[i]))
          /\ DeltasOf(view, agents[i].prev, q) \in Seq(Envelope(NodeOf[i]))
      BY <2>1, BatchTyped
    <2>3. IsFiniteSet(DOMAIN view) /\ IsFiniteSet(DOMAIN agents[i].prev)
      BY ViewTyped DEF Typed
    <2>4. CASE PublishSnapshot(i)
      <3>1. SweepSends(i, SnapshotOf(view, q), TRUE)
        BY <2>4, PublishSweeps
      <3>2. \A w : Len(w[i]) \in Nat /\ q \in 1..Len(w[i]) /\ w[i][q] = view => BatchSound(w, i, SnapshotOf(view, q))
        BY <2>3, SnapshotSound
      <3>3. QED
        BY <1>1, <2>2, <3>1, <3>2
    <2>5. CASE PublishDeltas(i)
      <3>1. SweepSends(i, DeltasOf(view, agents[i].prev, q), agents[i].sending)
        BY <2>5, PublishSweeps
      <3>2. \A w : Len(w[i]) \in Nat /\ q \in 1..Len(w[i]) /\ w[i][q] = view
                     => BatchSound(w, i, DeltasOf(view, agents[i].prev, q))
        BY <2>3, DeltasSound
      <3>3. QED
        BY <1>1, <2>2, <3>1, <3>2
    <2>6. QED
      BY <1>2, <2>4, <2>5
  <1>3. ASSUME NEW st \in Stream, Handle(st) \/ HandlerCancelled(st)
        PROVE  HistoryInv'
    <2>1. PICK t : HandlerMoves(st, t)
      BY <1>3, HandleMoves
    <2>2. Numbered'
      BY <2>1 DEF HandlerMoves, HistoryInv, Numbered
    <2>3. Sound(swept, streams[st])
      BY DEF HistoryInv, InFlightSound
    <2>4. Sound(swept, streams'[st])
      BY <1>3, <2>3, HandleSound
    <2>5. InFlightSound'
      BY <1>0, <2>1, <2>4 DEF HandlerMoves, HistoryInv, InFlightSound
    <2>6. StoredSound(swept, local') /\ StoredSound(swept, path')
      BY <1>3, <2>3, HandleStored DEF HistoryInv
    <2>7. Repeated'
      BY <2>1 DEF HandlerMoves, HistoryInv, Repeated, View
    <2>8. QED
      BY <2>1, <2>2, <2>5, <2>6, <2>7 DEF HandlerMoves, HistoryInv
  <1>4. ASSUME UNCHANGED <<local, path, swept>>,
               seen' = seen \/ Room,
               \A i \in Instance : agents'[i].alive => agents[i].alive /\ agents'[i].seq = agents[i].seq,
               \A st \in Stream :
                 \/ streams'[st].inbox = <<>>
                 \/ /\ streams'[st].by = streams[st].by /\ streams'[st].inbox = streams[st].inbox
                    /\ streams'[st].bufLocal = streams[st].bufLocal /\ streams'[st].bufPath = streams[st].bufPath
        PROVE  HistoryInv'
    <2>1. Numbered'
      BY <1>4 DEF HistoryInv, Numbered
    <2>2. InFlightSound'
      <3>1. ASSUME NEW st \in Stream PROVE Sound(swept, streams'[st])
        BY <1>4, SameSound, EmptySound DEF HistoryInv, InFlightSound
      <3>2. QED
        BY <1>4, <3>1 DEF InFlightSound
    <2>3. Repeated'
      <3> SUFFICES ASSUME NEW i \in Endless, agents'[i].alive, agents'[i].seq = Sweeps[i]
                   PROVE  swept[i][Sweeps[i]] = View(NodeOf[i])'
        BY <1>4 DEF Repeated
      <3>1. i \in Instance /\ Sweeps[i] \in 1..MaxSeq /\ MaxSeq \in Nat
        BY StoreAssumption, TransportAssumption
      <3>2. agents[i].alive /\ agents[i].seq = Sweeps[i]
        BY <1>4, <3>1
      <3>3. seen' = seen
        BY <1>4, <3>1, <3>2 DEF Room
      <3>4. QED
        BY <3>2, <3>3 DEF HistoryInv, Repeated, View
    <2>4. QED
      BY <1>4, <2>1, <2>2, <2>3 DEF HistoryInv
  <1>5. ASSUME NEW i \in Instance, NEW st \in Stream
        PROVE  LET t == HungUp(i)[st] IN
               \/ t.inbox = <<>>
               \/ /\ t.by = streams[st].by /\ t.inbox = streams[st].inbox
                  /\ t.bufLocal = streams[st].bufLocal /\ t.bufPath = streams[st].bufPath
    <2> DEFINE s == streams[st]
               t == HungUp(i)[st]
    <2>1. CASE st # agents[i].stream
      BY <2>1 DEF HungUp
    <2>2. CASE st = agents[i].stream /\ s.serving
      <3>1. s.by \in Instance /\ s \in Served(s.by)
        BY <2>2, ServedBy
      <3>2. t = [s EXCEPT !.open = FALSE, !.resync = FALSE]
        BY <2>2 DEF HungUp
      <3> HIDE DEF s, t
      <3>3. QED
        BY <3>1, <3>2 DEF Served, s, t
    <2>3. CASE st = agents[i].stream /\ ~s.serving
      <3>1. t = Closed
        BY <2>3 DEF HungUp
      <3>2. QED
        BY <3>1 DEF Closed
    <2>4. QED
      BY <2>1, <2>2, <2>3
  <1>6. ASSUME NEW i \in Instance, AgentDies(i)
        PROVE  HistoryInv'
    <2>1. ~agents'[i].alive /\ \A j \in Instance : j # i => agents'[j] = agents[j]
      BY <1>0, <1>6, Died DEF AgentDies
    <2>2. QED
      BY <1>4, <1>5, <1>6, <2>1 DEF AgentDies, storeVars
  <1>7. ASSUME NEW i \in Instance, SessionCapped(i) \/ SessionEnds(i) \/ SessionRefused(i)
        PROVE  HistoryInv'
    <2>1. \A j \in Instance : agents'[j].alive = agents[j].alive /\ agents'[j].seq = agents[j].seq
      BY <1>0, <1>7 DEF SessionOver, SessionCapped, SessionEnds, SessionRefused, Agents
    <2>2. streams' = HungUp(i) /\ UNCHANGED <<local, path, swept, seen>>
      BY <1>7 DEF SessionOver, SessionCapped, SessionEnds, SessionRefused, storeVars
    <2>3. QED
      BY <1>4, <1>5, <2>1, <2>2
  <1>8. ASSUME NEW i \in Instance, OpenStream(i)
        PROVE  HistoryInv'
    <2> DEFINE new == CHOOSE st \in {st \in Stream : streams[st] = Closed} : TRUE
               t == [Closed EXCEPT !.open = TRUE, !.serving = TRUE, !.by = i]
    <2>1. streams' = [streams EXCEPT ![new] = t] /\ t.inbox = <<>> /\ UNCHANGED <<local, path, swept, seen>>
      BY <1>8, Opened DEF OpenStream, storeVars
    <2>2. agents' = [agents EXCEPT ![i].stream = new, ![i].needSnapshot = TRUE]
      BY <1>8 DEF OpenStream
    <2> HIDE DEF new, t
    <2>3. \A j \in Instance : agents'[j].alive = agents[j].alive /\ agents'[j].seq = agents[j].seq
      BY <1>0, <2>2 DEF Agents
    <2>4. \A st \in Stream : streams'[st] = t \/ streams'[st] = streams[st]
      BY <1>0, <2>1
    <2>5. QED
      BY <1>4, <2>1, <2>3, <2>4
  <1>9. ASSUME NEW i \in Instance, AckReceived(i)
        PROVE  HistoryInv'
    <2> DEFINE st == agents[i].stream
               s == streams[st]
               t == [s EXCEPT !.resync = FALSE]
    <2>1. st \in Stream /\ s \in StreamSet /\ s.resync
      BY <1>0, <1>9 DEF AckReceived, Agents
    <2>2. streams' = [streams EXCEPT ![st] = t] /\ UNCHANGED <<local, path, swept, seen>>
      BY <1>9 DEF AckReceived, storeVars
    <2>3. \A j \in Instance : agents'[j].alive = agents[j].alive /\ agents'[j].seq = agents[j].seq
      BY <1>0, <1>9 DEF AckReceived, Agents
    <2> HIDE DEF st
    <2>4. PICK j \in Instance : s \in Served(j)
      BY <2>1 DEF StreamSet, Unserved
    <2> HIDE DEF s
    <2>5. t.by = s.by /\ t.inbox = s.inbox /\ t.bufLocal = s.bufLocal /\ t.bufPath = s.bufPath
      BY <2>4 DEF Served
    <2> HIDE DEF t
    <2>6. \A u \in Stream : streams'[u] = streams[u] \/ (u = st /\ streams'[u] = t)
      BY <1>0, <2>2
    <2>7. QED
      BY <1>4, <2>2, <2>3, <2>5, <2>6 DEF s
  <1>10. ASSUME NEW i \in Instance, PublishDone(i) \/ PublishFails(i)
         PROVE  HistoryInv'
    <2>1. \A j \in Instance : agents'[j].alive = agents[j].alive /\ agents'[j].seq = agents[j].seq
      BY <1>0, <1>10 DEF PublishDone, PublishFails, Agents
    <2>2. UNCHANGED <<local, path, swept, seen, streams>>
      BY <1>10 DEF PublishDone, PublishFails, storeVars
    <2>3. QED
      BY <1>4, <2>1, <2>2
  <1>11. CASE UNCHANGED <<local, path, swept, streams, agents>> /\ (seen' = seen \/ Room)
    BY <1>4, <1>11
  <1>12. QED
    BY <1>2, <1>3, <1>6, <1>7, <1>8, <1>9, <1>10, <1>11
    DEF Next, World, Agent, Observe, Vanish, RegistryChange, vars, storeVars, transportVars

LEMMA InitHistory == Init => HistoryInv
  <1> SUFFICES ASSUME Init PROVE HistoryInv
    OBVIOUS
  <1>0. \A i \in Instance : agents[i].seq = 0 /\ swept[i] = <<>> /\ Sweeps[i] \in Nat /\ Sweeps[i] > 0
    BY StoreAssumption, TransportAssumption DEF Init, Unconnected
  <1>1. Numbered /\ Repeated
    <2>1. swept \in [Instance -> Seq(Partial(Subject))]
      BY DEF Init
    <2>2. Numbered
      BY <1>0, <2>1 DEF Numbered
    <2>3. Endless \subseteq Instance
      BY TransportAssumption
    <2>4. Repeated
      BY <1>0, <2>3 DEF Repeated
    <2>5. QED
      BY <2>2, <2>4
  <1>2. InFlightSound
    BY EmptySound DEF Init, InFlightSound, Closed
  <1>3. QED
    BY <1>1, <1>2 DEF Init, StoreInit, HistoryInv, StoredSound, Empty

\* Across reconnects, overlapping streams and interrupted snapshots, every entry of
\* the store says what the process it names observed in the very sweep it is stamped
\* with.
THEOREM NothingButWhatWasSwept == Spec => []ReportedAsSwept
  <1>1. HistoryInv => ReportedAsSwept
    BY DEF HistoryInv, StoredSound, Saw, ReportedAsSwept, AsSwept
  <1>2. Typed /\ Held /\ HistoryInv /\ [Next]_vars => HistoryInv'
    BY StepHistory
  <1>3. QED
    BY <1>1, <1>2, InitHistory, TransportTyped, PTL DEF Spec
=============================================================================
