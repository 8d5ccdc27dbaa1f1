------------------------- MODULE PublicationProofs -------------------------
(***************************************************************************)
(* Theorems about Publication, for any Services, attachments, selectors,   *)
(* address families, capacity of the channel and TTL.                      *)
(***************************************************************************)
EXTENDS Publication, FiniteSetTheorems, TLAPS

-----------------------------------------------------------------------------
(* The inductive invariant. *)

Readiness == UNION {[A -> BOOLEAN] : A \in SUBSET Attachment}
SliceSet == UNION {[F -> Readiness] : F \in SUBSET Family}

Job == [svc : Service, phase : {"read", "write"},
        atts : SUBSET Attachment, podReady : SUBSET Attachment,
        todo : SUBSET Attachment, half : SUBSET Attachment, ready : Readiness,
        have : SliceSet, old : SUBSET Family, left : SUBSET Family]

\* The reads come before the list, and only listed slices are written.
JobOK ==
    \/ job = Idle
    \/ /\ job \in Job
       /\ job.phase = "read" => job.left = {}
       /\ job.phase = "write" => job.todo = {} /\ job.half = {}

Typed ==
    /\ services \in [Service -> ServiceState]
    /\ pods \in [Attachment -> PodState]
    /\ IsStoreMap(local, Attachment)
    /\ IsStoreMap(path, PathKey)
    /\ DOMAIN registry \subseteq Service
    /\ registry \in [DOMAIN registry -> SUBSET Attachment]
    /\ events \in [Service -> Nat]
    /\ queue \in SUBSET Service
    /\ JobOK
    /\ slices \in [Service -> SliceSet]
    /\ cached \in [Service -> SliceSet]
    /\ watch \in SUBSET (Service \X Family)
    /\ dropped \in SUBSET Service
    /\ silenced \in SUBSET Service

\* An entry is flagged only once it is stale.
FlaggedStale(m) == \A k \in DOMAIN m : m[k].expired => m[k].age > TTL
Flags == FlaggedStale(local) /\ FlaggedStale(path)

\* x and y have the same slice of family f, or both none.
SameAt(x, y, f) == (f \in DOMAIN x <=> f \in DOMAIN y) /\ (f \in DOMAIN x => x[f] = y[f])

\* What is not on its way to the informer, the informer has.
CacheCurrent ==
    \A s \in Service, f \in Family : <<s, f>> \notin watch => SameAt(cached[s], slices[s], f)

\* The attachments s is to publish.
Offers(s) == IF services[s] = "managed" THEN Discovered(s) ELSE {}

OfFamily(A, f) == {a \in A : FamilyOf[a] = f}

Unqueued(s) == services[s] # "absent" /\ s \notin queue

\* Unless s is queued again, the registry has what s is to publish,
Registered ==
    \A s \in Service : Unqueued(s) /\ services[s] = "managed" =>
        s \in DOMAIN registry /\ registry[s] = Discovered(s)

\* and the reconcile in progress works on it
JobCurrent ==
    job # Idle /\ Unqueued(job.svc) =>
        /\ job.atts = Offers(job.svc)
        /\ job.podReady = {a \in Offers(job.svc) : pods[a] = "ready"}
        /\ job.todo \cup job.half \cup DOMAIN job.ready = Publishable(job.atts)

\* with a copy of the slices that is right wherever nothing has been written since.
HaveCurrent ==
    job.phase = "write" /\ Unqueued(job.svc) =>
        \A f \in Family : <<job.svc, f>> \notin watch => SameAt(job.have, slices[job.svc], f)

\* The worker has no further business with the slice of s and f, nor has the informer.
Settled(s, f) ==
    /\ <<s, f>> \notin watch
    /\ job.svc = s => job.phase = "write" /\ f \notin job.left

\* A slice is published iff it is wanted, and has an endpoint for each publishable
\* attachment.
Shaped(s, f) ==
    /\ f \in DOMAIN slices[s] <=> f \in Families(Offers(s))
    /\ f \in DOMAIN slices[s] => DOMAIN slices[s][f] = OfFamily(Publishable(Offers(s)), f)

SlicesShaped ==
    \A s \in Service, f \in Family : Unqueued(s) /\ Settled(s, f) => Shaped(s, f)

Lapses(s) ==
    \E a \in registry[s] : a \in Lapsed(local) \/ PathKeyOf[a] \in Lapsed(path)

\* Nothing is on its way for s but what the worker and the informer are at.
Quiet(s) ==
    /\ Unqueued(s)
    /\ services[s] = "managed"
    /\ events[s] = 0
    /\ s \notin dropped \cup silenced
    /\ ~Lapses(s)

\* What the reconcile in progress has read still holds.
ReadsTrue ==
    job # Idle /\ Quiet(job.svc) =>
        /\ \A a \in job.half : pods[a] = "ready" /\ LocalHalf(a, {a})
        /\ \A a \in DOMAIN job.ready : job.ready[a] = ReadyNow(a)

\* What is published holds.
SlicesTrue ==
    \A s \in Service, f \in Family : 
        Quiet(s) /\ Settled(s, f) /\ f \in DOMAIN slices[s] =>
            \A a \in DOMAIN slices[s][f] : slices[s][f][a] = ReadyNow(a)

ShapeInv == CacheCurrent /\ Registered /\ JobCurrent /\ HaveCurrent /\ SlicesShaped
PublicationInv == Typed /\ Flags /\ ShapeInv /\ ReadsTrue /\ SlicesTrue

-----------------------------------------------------------------------------
(* The store's maps: what each operation preserves, and for which keys it changes *)
(* neither what a reader is told nor that a lapse is still to be reported.        *)

GoodMap(m, S) == IsStoreMap(m, S) /\ FlaggedStale(m)

Kept(m, after, k) ==
    StateOf(after, k) = StateOf(m, k) /\ (k \in Lapsed(m) => k \in Lapsed(after))

LEMMA EmptyGood == ASSUME NEW S PROVE GoodMap(Empty, S)
  BY DEF Empty, GoodMap, IsStoreMap, FlaggedStale

LEMMA AcceptedType ==
    ASSUME NEW o \in Origin, NEW ready \in BOOLEAN
    PROVE  /\ AcceptedEntry(o, ready) \in Entry
           /\ AcceptedEntry(o, ready).node = o.node
           /\ ~AcceptedEntry(o, ready).expired
  BY StoreAssumption DEF AcceptedEntry, Origin, Entry, AgeCap

LEMMA OriginOfNode == ASSUME NEW n \in Node PROVE OriginOf(n) \in Origin /\ OriginOf(n).node = n
  BY PublicationAssumption DEF OriginOf

\* An accepted report is told only to the owners of its own key.
LEMMA PutGood ==
    ASSUME NEW S, NEW m, GoodMap(m, S), NEW k \in S, NEW e \in Entry,
           e.node = HomeOf[k], ~e.expired
    PROVE  /\ GoodMap(Put(m, k, e), S)
           /\ \A j : j # k => Kept(m, Put(m, k, e), j)
  <1> DEFINE M == Put(m, k, e)
  <1>1. DOMAIN M = DOMAIN m \cup {k} /\ M[k] = e /\ \A j \in DOMAIN M : j # k => M[j] = m[j]
    BY DEF Put
  <1>2. M = [j \in DOMAIN M |-> M[j]]
    BY DEF Put
  <1>3. IsStoreMap(m, S) /\ FlaggedStale(m)
    BY DEF GoodMap
  <1> HIDE DEF M
  <1>4. GoodMap(M, S)
    <2>1. \A j \in DOMAIN M : M[j] \in Entry /\ M[j].node = HomeOf[j]
      BY <1>1, <1>3 DEF IsStoreMap
    <2>2. \A j \in DOMAIN M : M[j].expired => M[j].age > TTL
      BY <1>1, <1>3 DEF FlaggedStale
    <2>3. DOMAIN M \subseteq S
      BY <1>1, <1>3 DEF IsStoreMap
    <2>4. QED  BY <1>2, <2>1, <2>2, <2>3 DEF GoodMap, IsStoreMap, FlaggedStale
  <1>5. \A j : j # k => Kept(m, M, j)
    BY <1>1 DEF Kept, StateOf, Fresh, Lapsed
  <1>6. QED  BY <1>4, <1>5 DEF M

LEMMA DropGood ==
    ASSUME NEW S, NEW m, GoodMap(m, S), NEW K
    PROVE  /\ GoodMap(Drop(m, K), S)
           /\ \A j : j \notin K => Kept(m, Drop(m, K), j)
  <1>1. GoodMap(Drop(m, K), S)
    BY DEF GoodMap, IsStoreMap, FlaggedStale, Drop
  <1>2. \A j : j \notin K => Kept(m, Drop(m, K), j)
    BY DEF Kept, StateOf, Fresh, Lapsed, Drop
  <1>3. QED  BY <1>1, <1>2

\* A snapshot removes a flagged entry without a word, but readers had been told
\* "Unknown" of it.
LEMMA ReplacedGood ==
    ASSUME NEW S, NEW m, GoodMap(m, S), NEW o \in Origin,
           NEW R \in SUBSET {k \in S : HomeOf[k] = o.node}, NEW reports \in [R -> BOOLEAN]
    PROVE  /\ GoodMap(Replaced(m, o, reports), S)
           /\ \A j : j \notin R /\ j \notin LostBy(m, o.node, R) =>
                  Kept(m, Replaced(m, o, reports), j)
  <1> DEFINE M == Replaced(m, o, reports)
             stays == {j \in DOMAIN m : m[j].node # o.node}
  <1>1. DOMAIN M = stays \cup R /\ \A j \in DOMAIN M : j \notin R => M[j] = m[j]
    BY DEF Replaced
  <1>2. ASSUME NEW j \in R
        PROVE  M[j] \in Entry /\ M[j].node = o.node /\ ~M[j].expired
    <2>1. PICK ready \in BOOLEAN : M[j] = AcceptedEntry(o, ready)
      BY DEF Replaced
    <2> HIDE DEF M
    <2>2. QED  BY <2>1, AcceptedType
  <1>3. M = [j \in DOMAIN M |-> M[j]]
    BY DEF Replaced
  <1>4. IsStoreMap(m, S) /\ FlaggedStale(m)
    BY DEF GoodMap
  <1> HIDE DEF M
  <1>5. GoodMap(M, S)
    <2>1. \A j \in DOMAIN M : M[j] \in Entry /\ M[j].node = HomeOf[j]
      BY <1>1, <1>2, <1>4 DEF IsStoreMap
    <2>2. \A j \in DOMAIN M : M[j].expired => M[j].age > TTL
      BY <1>1, <1>2, <1>4 DEF FlaggedStale
    <2>3. DOMAIN M \subseteq S
      BY <1>1, <1>4 DEF IsStoreMap
    <2>4. QED  BY <1>3, <2>1, <2>2, <2>3 DEF GoodMap, IsStoreMap, FlaggedStale
  <1>6. ASSUME NEW j, j \notin R, j \notin LostBy(m, o.node, R)
        PROVE  Kept(m, M, j)
    <2>1. CASE j \in stays
      BY <1>1, <1>6, <2>1 DEF Kept, StateOf, Fresh, Lapsed
    <2>2. CASE j \notin stays /\ j \in DOMAIN m
      <3>1. j \notin DOMAIN M
        BY <1>1, <1>6, <2>2
      <3>2. m[j].expired /\ m[j].age > TTL /\ m[j].age \in Int
        BY <1>6, <2>2, <1>4, StoreAssumption
        DEF LostBy, FlaggedStale, IsStoreMap, Entry, AgeCap
      <3>3. QED
        BY <3>1, <3>2, StoreAssumption DEF Kept, StateOf, Fresh, Lapsed
    <2>3. CASE j \notin DOMAIN m
      BY <1>1, <1>6, <2>3 DEF Kept, StateOf, Fresh, Lapsed
    <2>4. QED  BY <2>1, <2>2, <2>3
  <1>7. QED  BY <1>5, <1>6 DEF M

LEMMA SweptGood ==
    ASSUME NEW S, NEW m, GoodMap(m, S)
    PROVE  /\ GoodMap(Swept(m), S)
           /\ \A j : j \notin Lapsed(m) => Kept(m, Swept(m), j)
           /\ DOMAIN Swept(m) = DOMAIN m
           /\ \A j \in DOMAIN m : Swept(m)[j].age = m[j].age
  <1> DEFINE M == Swept(m)
  <1>1. DOMAIN M = DOMAIN m /\ M = [j \in DOMAIN M |-> M[j]]
    BY DEF Swept
  <1>2. ASSUME NEW j \in DOMAIN m
        PROVE  /\ M[j] \in Entry /\ M[j].node = m[j].node /\ M[j].age = m[j].age
               /\ M[j].ready = m[j].ready
               /\ M[j].expired => M[j].age > TTL
    <2>1. m[j] \in Entry
      BY DEF GoodMap, IsStoreMap
    <2>2. M[j] = IF j \in Lapsed(m) THEN [m[j] EXCEPT !.expired = TRUE] ELSE m[j]
      BY DEF Swept
    <2> HIDE DEF M
    <2>3. CASE j \in Lapsed(m)
      BY <2>1, <2>2, <2>3 DEF Entry, Lapsed
    <2>4. CASE j \notin Lapsed(m)
      BY <2>1, <2>2, <2>4 DEF GoodMap, FlaggedStale
    <2>5. QED  BY <2>3, <2>4
  <1>3. \A j : j \notin Lapsed(m) => Kept(m, M, j)
    <2> HIDE DEF M
    <2>1. QED  BY <1>1, <1>2 DEF Kept, StateOf, Fresh, Lapsed
  <1>4. GoodMap(M, S)
    <2> HIDE DEF M
    <2>1. QED  BY <1>1, <1>2 DEF GoodMap, IsStoreMap, FlaggedStale
  <1>5. QED  BY <1>1, <1>2, <1>3, <1>4

\* A dead entry is stale: readers had been told "Unknown" of it already, and it was to be
\* reported only if no sweep had.
LEMMA PrunedGood ==
    ASSUME NEW S, NEW m, GoodMap(m, S)
    PROVE  /\ GoodMap(Drop(m, Dead(m)), S)
           /\ \A j : j \notin Unreported(m) => Kept(m, Drop(m, Dead(m)), j)
  <1> DEFINE D == Drop(m, Dead(m))
  <1>1. GoodMap(D, S) /\ \A j : j \notin Dead(m) => Kept(m, D, j)
    BY DropGood
  <1>2. ASSUME NEW j \in Dead(m), j \notin Unreported(m)
        PROVE  Kept(m, D, j)
    <2>1. j \notin DOMAIN D
      BY DEF Drop
    <2>2. j \in DOMAIN m /\ m[j].expired /\ m[j].age > 2 * TTL /\ m[j].age \in Int
      BY <1>2, StoreAssumption DEF Unreported, Dead, GoodMap, IsStoreMap, Entry, AgeCap
    <2> HIDE DEF D
    <2>3. QED
      BY <2>1, <2>2, StoreAssumption DEF Kept, StateOf, Fresh, Lapsed
  <1>3. QED  BY <1>1, <1>2

LEMMA AgedGood ==
    ASSUME NEW S, NEW m, GoodMap(m, S)
    PROVE  /\ GoodMap(Aged(m), S)
           /\ \A j : Kept(m, Aged(m), j) \/ j \in Lapsed(Aged(m))
  <1> DEFINE M == Aged(m)
  <1>1. DOMAIN M = DOMAIN m /\ M = [j \in DOMAIN M |-> M[j]]
    BY DEF Aged
  <1>2. ASSUME NEW j \in DOMAIN m
        PROVE  /\ M[j] \in Entry /\ M[j].node = m[j].node /\ M[j].expired = m[j].expired
               /\ M[j].ready = m[j].ready
               /\ M[j].age >= m[j].age /\ m[j].age \in Int /\ M[j].age \in Int
    <2>1. m[j] \in Entry
      BY DEF GoodMap, IsStoreMap
    <2>2. M[j] = [m[j] EXCEPT !.age = IF @ < AgeCap THEN @ + 1 ELSE @]
      BY DEF Aged
    <2> HIDE DEF M
    <2>3. QED  BY <2>1, <2>2, StoreAssumption DEF Entry, AgeCap
  <1> HIDE DEF M
  <1>3. GoodMap(M, S)
    <2>1. \A j \in DOMAIN M : M[j].expired => M[j].age > TTL
      BY <1>1, <1>2, StoreAssumption DEF GoodMap, FlaggedStale
    <2>2. QED  BY <1>1, <1>2, <2>1 DEF GoodMap, IsStoreMap, FlaggedStale
  <1>4. ASSUME NEW j, j \notin Lapsed(M)
        PROVE  Kept(m, M, j)
    <2>1. CASE j \in DOMAIN m
      <3>1. m[j].expired => m[j].age > TTL
        BY <2>1 DEF GoodMap, FlaggedStale
      <3>2. m[j].age > TTL <=> M[j].age > TTL
        BY <1>1, <1>2, <1>4, <2>1, <3>1, StoreAssumption DEF Lapsed
      <3>3. QED
        BY <1>1, <1>2, <1>4, <2>1, <3>1, <3>2, StoreAssumption DEF Kept, StateOf, Fresh, Lapsed
    <2>2. CASE j \notin DOMAIN m
      BY <1>1, <2>2 DEF Kept, StateOf, Fresh, Lapsed
    <2>3. QED  BY <2>1, <2>2
  <1>5. QED  BY <1>3, <1>4 DEF M

-----------------------------------------------------------------------------
(* Notification. *)

\* Whoever Enqueue is called for has an event in the channel, is queued, or is
\* recorded as dropped.
LEMMA EnqueueTells ==
    ASSUME events \in [Service -> Nat], dropped \in SUBSET Service,
           NEW calls \in [Service -> Nat], Enqueue(calls)
    PROVE  /\ events' \in [Service -> Nat]
           /\ dropped' \in SUBSET Service
           /\ dropped \subseteq dropped'
           /\ \A s \in Service :
                /\ events'[s] = 0 => events[s] = 0
                /\ events'[s] = 0 /\ s \notin queue /\ s \notin dropped' => calls[s] = 0
  <1>1. PICK sent \in [Service -> 0..EventCap] :
          /\ events' = [s \in Service |-> events[s] + sent[s]]
          /\ dropped' = dropped \cup
               {s \in Service : calls[s] > 0 /\ events'[s] = 0 /\ s \notin queue}
    BY Zenon DEF Enqueue
  <1>2. EventCap \in Nat
    BY PublicationAssumption
  <1>3. QED  BY <1>1, <1>2

LEMMA OnceType ==
    ASSUME NEW S
    PROVE  /\ Once(S) \in [Service -> Nat]
           /\ \A s \in Service : Once(S)[s] = 0 <=> s \notin S
  BY DEF Once

\* Only the sweeper calls Enqueue more than once for a Service, and it does for every
\* Service that owns something lapsed.
LEMMA LapsesCounted ==
    ASSUME GoodMap(local, Attachment), GoodMap(path, PathKey), NEW s
    PROVE  LET A == {a \in Lapsed(local) : s \in OwnersOf(a)}
               K == {k \in Lapsed(path) : s \in PathOwnersOf(k)}
           IN  /\ Cardinality(A) + Cardinality(K) \in Nat
               /\ Cardinality(A) + Cardinality(K) = 0 => A = {} /\ K = {}
  <1> DEFINE A == {a \in Lapsed(local) : s \in OwnersOf(a)}
             K == {k \in Lapsed(path) : s \in PathOwnersOf(k)}
  <1>1. A \subseteq Attachment /\ K \subseteq PathKey
    BY DEF GoodMap, IsStoreMap, Lapsed
  <1>2. IsFiniteSet(A) /\ IsFiniteSet(K)
    BY <1>1, FS_Subset, PublicationAssumption
  <1> HIDE DEF A, K
  <1>3. Cardinality(A) \in Nat /\ Cardinality(K) \in Nat
    BY <1>2, FS_CardinalityType
  <1>4. (Cardinality(A) = 0 => A = {}) /\ (Cardinality(K) = 0 => K = {})
    BY <1>2, FS_EmptySet
  <1>5. QED  BY <1>3, <1>4 DEF A, K

-----------------------------------------------------------------------------
(* Reports, lapses and time: the steps that change the store. *)

StoreStep == Reports \/ Sweeper \/ ClockTick

\* What a store step leaves alone.
restVars == <<services, pods, registry, queue, job, slices, cached, watch>>

\* The step does nothing to the evidence about a, or someone will come back to s.
Undisturbed(s) ==
    \A a \in registry[s] :
        Kept(local, local', a) /\ Kept(path, path', PathKeyOf[a])

StillQuiet(s) ==
    /\ s \in DOMAIN registry
    /\ s \notin queue
    /\ events'[s] = 0
    /\ s \notin dropped' \cup silenced'
    /\ ~(\E a \in registry[s] : a \in Lapsed(local') \/ PathKeyOf[a] \in Lapsed(path'))

LEMMA Same == ASSUME NEW m, NEW k PROVE Kept(m, m, k)
  BY DEF Kept

\* A report about some attachments and path keys, or their removal.
LEMMA TellsOwners ==
    ASSUME NEW s \in Service, s \in DOMAIN registry, NEW A, NEW K,
           s \notin Owners(A, K),
           \A j : j \notin A => Kept(local, local', j),
           \A j : j \notin K => Kept(path, path', j)
    PROVE  Undisturbed(s)
  <1>1. ASSUME NEW a \in registry[s]
        PROVE  a \notin A /\ PathKeyOf[a] \notin K
    <2>1. s \in OwnersOf(a) /\ s \in PathOwnersOf(PathKeyOf[a])
      BY DEF OwnersOf, PathOwnersOf
    <2>2. QED  BY <2>1 DEF Owners
  <1>2. QED  BY <1>1 DEF Undisturbed

LEMMA OwnersAre ==
    /\ \A a : Owners({a}, {}) = OwnersOf(a)
    /\ \A k : Owners({}, {k}) = PathOwnersOf(k)
  <1>1. ASSUME NEW a PROVE Owners({a}, {}) = OwnersOf(a)
    BY DEF Owners
  <1>2. ASSUME NEW k PROVE Owners({}, {k}) = PathOwnersOf(k)
    BY DEF Owners
  <1>3. QED  BY <1>1, <1>2

LEMMA OwnersMonotone ==
    ASSUME NEW A, NEW K, NEW B, NEW L
    PROVE  Owners(A \cup B, K \cup L) = Owners(A, K) \cup Owners(B, L)
  BY DEF Owners

\* What a store step does: the maps stay well formed, and a Service is left quiet only
\* if the evidence about what it publishes is the same to a reader.
StoreStepOK ==
    /\ UNCHANGED restVars
    /\ GoodMap(local', Attachment) /\ GoodMap(path', PathKey)
    /\ events' \in [Service -> Nat]
    /\ dropped' \in SUBSET Service /\ dropped \subseteq dropped'
    /\ silenced' \in SUBSET Service /\ silenced \subseteq silenced'
    /\ \A s \in Service : events'[s] = 0 => events[s] = 0
    /\ \A s \in Service : StillQuiet(s) => Undisturbed(s)

\* Told by those who change evidence: a Service that is left quiet was neither called for
\* nor among those the change concerned.
LEMMA ToldTells ==
    ASSUME Typed, NEW calls \in [Service -> Nat], NEW concerned \in SUBSET Service,
           Told(calls, concerned)
    PROVE  /\ UNCHANGED restVars
           /\ events' \in [Service -> Nat]
           /\ dropped' \in SUBSET Service /\ dropped \subseteq dropped'
           /\ silenced' \in SUBSET Service /\ silenced \subseteq silenced'
           /\ \A s \in Service : events'[s] = 0 => events[s] = 0
           /\ \A s \in Service : StillQuiet(s) =>
                  s \in DOMAIN registry /\ calls[s] = 0 /\ s \notin concerned
  <1>1. /\ Enqueue(calls)
        /\ silenced' = silenced \cup {s \in concerned : calls[s] = 0}
        /\ UNCHANGED restVars
    BY DEF Told, restVars, worldVars, registryVars, sliceVars
  <1>2. events \in [Service -> Nat] /\ dropped \in SUBSET Service /\ silenced \in SUBSET Service
    BY DEF Typed
  <1>3. /\ events' \in [Service -> Nat]
        /\ dropped' \in SUBSET Service
        /\ dropped \subseteq dropped'
        /\ \A s \in Service :
              /\ events'[s] = 0 => events[s] = 0
              /\ events'[s] = 0 /\ s \notin queue /\ s \notin dropped' => calls[s] = 0
    BY <1>1, <1>2, EnqueueTells
  <1>4. ASSUME NEW s \in Service, StillQuiet(s)
        PROVE  s \in DOMAIN registry /\ calls[s] = 0 /\ s \notin concerned
    BY <1>1, <1>3, <1>4 DEF StillQuiet
  <1>5. QED  BY <1>1, <1>2, <1>3, <1>4

LEMMA OwnersTyped == Typed => \A A, K : Owners(A, K) \subseteq Service
  BY DEF Owners, OwnersOf, PathOwnersOf, Typed

LEMMA StoreSteps ==
    ASSUME Typed, Flags, StoreStep
    PROVE  StoreStepOK
  <1>0. GoodMap(local, Attachment) /\ GoodMap(path, PathKey)
    BY DEF Typed, Flags, GoodMap
  <1>1. ASSUME NEW a \in Attachment, NEW owners, NEW ready \in BOOLEAN,
               LocalReport(a, owners, ready)
        PROVE  StoreStepOK
    <2> DEFINE e == AcceptedEntry(OriginOf(HomeOf[a]), ready)
               concerned == Owners({a}, {})
    <2>1. HomeOf[a] \in Node
      BY StoreAssumption
    <2>2. e \in Entry /\ e.node = HomeOf[a] /\ ~e.expired
      BY <2>1, OriginOfNode, AcceptedType
    <2>3. local' = Put(local, a, e) /\ UNCHANGED path /\ Told(Once(owners), concerned)
      BY <1>1, OwnersAre DEF LocalReport, Report
    <2> HIDE DEF e
    <2>4. GoodMap(local', Attachment) /\ \A j : j \notin {a} => Kept(local, local', j)
      BY <1>0, <2>2, <2>3, PutGood
    <2>5. GoodMap(path', PathKey) /\ \A j : j \notin {} => Kept(path, path', j)
      BY <1>0, <2>3, Same
    <2>6. concerned \in SUBSET Service
      BY OwnersTyped
    <2>7. ASSUME NEW s \in Service, StillQuiet(s)
          PROVE  Undisturbed(s)
      <3>1. s \in DOMAIN registry /\ s \notin concerned
        <4> HIDE DEF concerned
        <4>1. QED  BY <2>3, <2>6, <2>7, OnceType, ToldTells
      <3>2. QED  BY <2>4, <2>5, <3>1, TellsOwners
    <2> HIDE DEF concerned
    <2>8. QED  BY <2>3, <2>4, <2>5, <2>6, <2>7, OnceType, ToldTells DEF StoreStepOK
  <1>2. ASSUME NEW k \in PathKey, NEW owners, NEW ready \in BOOLEAN,
               PathReport(k, owners, ready)
        PROVE  StoreStepOK
    <2> DEFINE e == AcceptedEntry(OriginOf(HomeOf[k]), ready)
               concerned == Owners({}, {k})
    <2>1. HomeOf[k] \in Node
      BY StoreAssumption
    <2>2. e \in Entry /\ e.node = HomeOf[k] /\ ~e.expired
      BY <2>1, OriginOfNode, AcceptedType
    <2>3. path' = Put(path, k, e) /\ UNCHANGED local /\ Told(Once(owners), concerned)
      BY <1>2, OwnersAre DEF PathReport, Report
    <2> HIDE DEF e
    <2>4. GoodMap(path', PathKey) /\ \A j : j \notin {k} => Kept(path, path', j)
      BY <1>0, <2>2, <2>3, PutGood
    <2>5. GoodMap(local', Attachment) /\ \A j : j \notin {} => Kept(local, local', j)
      BY <1>0, <2>3, Same
    <2>6. concerned \in SUBSET Service
      BY OwnersTyped
    <2>7. ASSUME NEW s \in Service, StillQuiet(s)
          PROVE  Undisturbed(s)
      <3>1. s \in DOMAIN registry /\ s \notin concerned
        <4> HIDE DEF concerned
        <4>1. QED  BY <2>3, <2>6, <2>7, OnceType, ToldTells
      <3>2. QED  BY <2>4, <2>5, <3>1, TellsOwners
    <2> HIDE DEF concerned
    <2>8. QED  BY <2>3, <2>4, <2>5, <2>6, <2>7, OnceType, ToldTells DEF StoreStepOK
  <1>3. ASSUME NEW n \in Node, NEW A \in SUBSET Known(n), NEW K \in SUBSET KnownPaths(n),
               NEW locals \in [A -> BOOLEAN], NEW paths \in [K -> PathVerdict],
               Snapshot(n, locals, paths)
        PROVE  StoreStepOK
    <2> DEFINE o == OriginOf(n)
               told == Owners(A, K)
               lostA == LostBy(local, n, A)
               lostK == LostBy(path, n, K)
               gone == Owners(lostA, lostK)
    <2>0. DOMAIN locals = A /\ DOMAIN paths = K /\ paths \in [K -> BOOLEAN]
      BY PublicationAssumption
    <2>1. /\ local' = Replaced(local, o, locals)
          /\ path' = Replaced(path, o, paths)
          /\ Told(Once(told), gone)
      BY <1>3, <2>0 DEF Snapshot
    <2>2. o \in Origin /\ o.node = n
      BY OriginOfNode
    <2>3. A \in SUBSET {j \in Attachment : HomeOf[j] = n} /\ K \in SUBSET {j \in PathKey : HomeOf[j] = n}
      BY DEF Known, KnownPaths, AttachmentsOn, PathKeysOn
    <2> HIDE DEF o
    <2>4. GoodMap(local', Attachment) /\ \A j : j \notin A /\ j \notin lostA => Kept(local, local', j)
      BY <1>0, <2>1, <2>2, <2>3, ReplacedGood
    <2>5. GoodMap(path', PathKey) /\ \A j : j \notin K /\ j \notin lostK => Kept(path, path', j)
      BY <1>0, <2>0, <2>1, <2>2, <2>3, ReplacedGood
    <2> HIDE DEF lostA, lostK
    <2>6. gone \in SUBSET Service
      BY OwnersTyped
    <2>7. ASSUME NEW s \in Service, StillQuiet(s)
          PROVE  Undisturbed(s)
      <3>1. s \in DOMAIN registry /\ s \notin told /\ s \notin gone
        <4> HIDE DEF told, gone
        <4>1. QED  BY <2>1, <2>6, <2>7, OnceType, ToldTells
      <3>2. s \notin Owners(A \cup lostA, K \cup lostK)
        BY <3>1, OwnersMonotone
      <3>3. /\ \A j : j \notin A \cup lostA => Kept(local, local', j)
            /\ \A j : j \notin K \cup lostK => Kept(path, path', j)
        BY <2>4, <2>5
      <3>4. QED  BY <3>1, <3>2, <3>3, TellsOwners
    <2> HIDE DEF told, gone
    <2>8. QED  BY <2>1, <2>4, <2>5, <2>6, <2>7, OnceType, ToldTells DEF StoreStepOK
  <1>4. ASSUME NEW a \in Attachment, Retired(a)
        PROVE  StoreStepOK
    <2>1. local' = Drop(local, {a}) /\ UNCHANGED path /\ Told(Once(Owners({a}, {})), {})
      BY <1>4, OwnersAre DEF Retired
    <2>2. GoodMap(local', Attachment) /\ \A j : j \notin {a} => Kept(local, local', j)
      BY <1>0, <2>1, DropGood
    <2>3. GoodMap(path', PathKey) /\ \A j : j \notin {} => Kept(path, path', j)
      BY <1>0, <2>1, Same
    <2>4. \A s \in Service : StillQuiet(s) => s \in DOMAIN registry /\ s \notin Owners({a}, {})
      BY <2>1, OnceType, ToldTells
    <2>5. \A s \in Service : StillQuiet(s) => Undisturbed(s)
      BY <2>2, <2>3, <2>4, TellsOwners
    <2>6. QED  BY <2>1, <2>2, <2>3, <2>5, OnceType, ToldTells DEF StoreStepOK
  <1>5. ASSUME NEW prune \in BOOLEAN, Sweep(prune)
        PROVE  StoreStepOK
    <2>1. local' = Swept(local) /\ path' = Swept(path) /\ Told(LapseCalls, {})
      BY <1>5 DEF Sweep
    <2>2. GoodMap(local', Attachment) /\ \A j : j \notin Lapsed(local) => Kept(local, local', j)
      BY <1>0, <2>1, SweptGood
    <2>3. GoodMap(path', PathKey) /\ \A j : j \notin Lapsed(path) => Kept(path, path', j)
      BY <1>0, <2>1, SweptGood
    <2>4. /\ LapseCalls \in [Service -> Nat]
          /\ \A s \in Service : LapseCalls[s] = 0 =>
                /\ {a \in Lapsed(local) : s \in OwnersOf(a)} = {}
                /\ {k \in Lapsed(path) : s \in PathOwnersOf(k)} = {}
      BY <1>0, LapsesCounted DEF LapseCalls
    <2>5. ASSUME NEW s \in Service, StillQuiet(s)
          PROVE  Undisturbed(s)
      <3>1. LapseCalls[s] = 0 /\ s \in DOMAIN registry
        BY <2>1, <2>4, <2>5, ToldTells
      <3>2. s \notin Owners(Lapsed(local), Lapsed(path))
        BY <2>4, <3>1 DEF Owners
      <3>3. QED  BY <2>2, <2>3, <3>1, <3>2, TellsOwners
    <2>6. QED  BY <2>1, <2>2, <2>3, <2>4, <2>5, ToldTells DEF StoreStepOK
  <1>6. CASE Prune
    <2> DEFINE gone == Owners(Unreported(local), Unreported(path))
    <2>1. local' = Drop(local, Dead(local)) /\ path' = Drop(path, Dead(path)) /\ Told(Once({}), gone)
      BY <1>6 DEF Prune
    <2>2. GoodMap(local', Attachment) /\ \A j : j \notin Unreported(local) => Kept(local, local', j)
      BY <1>0, <2>1, PrunedGood
    <2>3. GoodMap(path', PathKey) /\ \A j : j \notin Unreported(path) => Kept(path, path', j)
      BY <1>0, <2>1, PrunedGood
    <2>4. gone \in SUBSET Service
      BY OwnersTyped
    <2>5. ASSUME NEW s \in Service, StillQuiet(s)
          PROVE  Undisturbed(s)
      <3>1. s \in DOMAIN registry /\ s \notin gone
        <4> HIDE DEF gone
        <4>1. QED  BY <2>1, <2>4, <2>5, OnceType, ToldTells
      <3>2. QED  BY <2>2, <2>3, <3>1, TellsOwners
    <2> HIDE DEF gone
    <2>6. QED  BY <2>1, <2>2, <2>3, <2>4, <2>5, OnceType, ToldTells DEF StoreStepOK
  <1>7. CASE ClockTick
    <2>0. /\ events \in [Service -> Nat] /\ dropped \in SUBSET Service
          /\ silenced \in SUBSET Service
      BY DEF Typed
    <2>1. /\ local' = Aged(local) /\ path' = Aged(path)
          /\ UNCHANGED restVars /\ UNCHANGED <<events, dropped, silenced>>
      BY <1>7 DEF ClockTick, restVars, worldVars, registryVars, sliceVars, notifyVars
    <2>2. /\ GoodMap(local', Attachment)
          /\ \A j : Kept(local, local', j) \/ j \in Lapsed(local')
      BY <1>0, <2>1, AgedGood
    <2>3. /\ GoodMap(path', PathKey)
          /\ \A j : Kept(path, path', j) \/ j \in Lapsed(path')
      BY <1>0, <2>1, AgedGood
    <2>4. ASSUME NEW s \in Service, StillQuiet(s)
          PROVE  Undisturbed(s)
      BY <2>2, <2>3, <2>4 DEF StillQuiet, Undisturbed
    <2>5. QED  BY <2>0, <2>1, <2>2, <2>3, <2>4 DEF StoreStepOK
  <1>8. /\ \A n : AttachmentsOn(n) \subseteq Attachment /\ PathKeysOn(n) \subseteq PathKey
        /\ \A v \in PathVerdict : v \in BOOLEAN
    BY PublicationAssumption DEF AttachmentsOn, PathKeysOn
  <1>9. CASE Reports
    <2>1. PICK n \in Node :
            \/ \E a \in AttachmentsOn(n), owners \in SUBSET Service, ready \in BOOLEAN :
                LocalReport(a, owners, ready)
            \/ \E k \in PathKeysOn(n), owners \in SUBSET Service, ready \in PathVerdict :
                PathReport(k, owners, ready)
            \/ \E A \in SUBSET Known(n), K \in SUBSET KnownPaths(n) :
                \E locals \in [A -> BOOLEAN], paths \in [K -> PathVerdict] :
                    Snapshot(n, locals, paths)
            \/ \E a \in AttachmentsOn(n) : Retired(a)
      BY <1>9, Zenon DEF Reports
    <2>2. QED  BY <1>1, <1>2, <1>3, <1>4, <1>8, <2>1, Zenon
  <1>10. QED
    BY <1>5, <1>6, <1>7, <1>9, Zenon DEF StoreStep, Sweeper

-----------------------------------------------------------------------------
(* Types. *)

LEMMA EmptyTyped == Empty \in Readiness /\ Empty \in SliceSet /\ DOMAIN Empty = {}
  <1>1. ASSUME NEW T PROVE Empty \in [{} -> T]
    BY DEF Empty
  <1>2. QED  BY <1>1 DEF Readiness, SliceSet, Empty

LEMMA ReadinessIs ==
    ASSUME NEW r \in Readiness
    PROVE  DOMAIN r \in SUBSET Attachment /\ r \in [DOMAIN r -> BOOLEAN]
  BY DEF Readiness

LEMMA SliceSetIs ==
    ASSUME NEW x \in SliceSet
    PROVE  DOMAIN x \in SUBSET Family /\ x \in [DOMAIN x -> Readiness]
  BY DEF SliceSet

LEMMA PutReadiness ==
    ASSUME NEW r \in Readiness, NEW a \in Attachment, NEW b \in BOOLEAN
    PROVE  /\ Put(r, a, b) \in Readiness
           /\ DOMAIN Put(r, a, b) = DOMAIN r \cup {a}
           /\ Put(r, a, b)[a] = b
           /\ \A j \in DOMAIN r : j # a => Put(r, a, b)[j] = r[j]
  <1>1. DOMAIN r \in SUBSET Attachment /\ r \in [DOMAIN r -> BOOLEAN]
    BY ReadinessIs
  <1>2. Put(r, a, b) \in [DOMAIN r \cup {a} -> BOOLEAN]
    BY <1>1 DEF Put
  <1>3. DOMAIN r \cup {a} \in SUBSET Attachment
    BY <1>1
  <1>4. Put(r, a, b) \in Readiness
    BY <1>2, <1>3, Zenon DEF Readiness
  <1>5. QED  BY <1>4 DEF Put

LEMMA InFamilyReadiness ==
    ASSUME NEW r \in Readiness, NEW f
    PROVE  /\ InFamily(r, f) \in Readiness
           /\ DOMAIN InFamily(r, f) = OfFamily(DOMAIN r, f)
           /\ \A a \in OfFamily(DOMAIN r, f) : InFamily(r, f)[a] = r[a]
  <1>1. DOMAIN r \in SUBSET Attachment /\ r \in [DOMAIN r -> BOOLEAN]
    BY ReadinessIs
  <1> DEFINE D == {b \in DOMAIN r : FamilyOf[b] = f}
  <1>2. InFamily(r, f) \in [D -> BOOLEAN] /\ D \in SUBSET Attachment
    BY <1>1 DEF InFamily
  <1>3. InFamily(r, f) \in Readiness
    BY <1>2, Zenon DEF Readiness
  <1>4. QED  BY <1>3 DEF InFamily, OfFamily

LEMMA PutSlice ==
    ASSUME NEW x \in SliceSet, NEW f \in Family, NEW r \in Readiness
    PROVE  /\ Put(x, f, r) \in SliceSet
           /\ DOMAIN Put(x, f, r) = DOMAIN x \cup {f}
           /\ Put(x, f, r)[f] = r
           /\ \A g \in DOMAIN x : g # f => Put(x, f, r)[g] = x[g]
  <1>1. DOMAIN x \in SUBSET Family /\ x \in [DOMAIN x -> Readiness]
    BY SliceSetIs
  <1>2. Put(x, f, r) \in [DOMAIN x \cup {f} -> Readiness]
    BY <1>1 DEF Put
  <1>3. DOMAIN x \cup {f} \in SUBSET Family
    BY <1>1
  <1>4. Put(x, f, r) \in SliceSet
    BY <1>2, <1>3, Zenon DEF SliceSet
  <1>5. QED  BY <1>4 DEF Put

LEMMA DropSlice ==
    ASSUME NEW x \in SliceSet, NEW f
    PROVE  /\ Drop(x, {f}) \in SliceSet
           /\ DOMAIN Drop(x, {f}) = DOMAIN x \ {f}
           /\ \A g \in DOMAIN x : g # f => Drop(x, {f})[g] = x[g]
  <1>1. DOMAIN x \in SUBSET Family /\ x \in [DOMAIN x -> Readiness]
    BY SliceSetIs
  <1>2. Drop(x, {f}) \in [DOMAIN x \ {f} -> Readiness]
    BY <1>1 DEF Drop
  <1>3. DOMAIN x \ {f} \in SUBSET Family
    BY <1>1
  <1>4. Drop(x, {f}) \in SliceSet
    BY <1>2, <1>3, Zenon DEF SliceSet
  <1>5. QED  BY <1>4 DEF Drop

LEMMA OffersTyped ==
    ASSUME Typed, NEW s \in Service
    PROVE  /\ Discovered(s) \in SUBSET Attachment /\ Offers(s) \in SUBSET Attachment
           /\ Publishable(Offers(s)) \in SUBSET Offers(s)
           /\ Families(Offers(s)) \in SUBSET Family
  <1>1. Discovered(s) \in SUBSET Attachment
    BY PublicationAssumption DEF Discovered
  <1>2. Offers(s) \in SUBSET Attachment
    BY <1>1 DEF Offers
  <1>3. Publishable(Offers(s)) \in SUBSET Offers(s)
    BY DEF Publishable, Truncated, DropConflicting
  <1>4. Families(Offers(s)) \in SUBSET Family
    BY <1>2, PublicationAssumption DEF Families
  <1>5. QED  BY <1>1, <1>2, <1>3, <1>4

LEMMA NothingPublishable == Publishable({}) = {} /\ Families({}) = {}
  BY DEF Publishable, Families

LEMMA IdleIs ==
    /\ Idle.svc = NoService /\ Idle.phase = "idle" /\ Idle.todo = {} /\ Idle.half = {}
    /\ Idle.left = {} /\ Idle.atts = {} /\ Idle.ready = Empty /\ NoService \notin Service
    /\ Idle.podReady = {}
    /\ Idle \notin Job
  BY PublicationAssumption DEF Idle, Job

\* A reconcile that is somewhere is a record of its type.
LEMMA JobIs ==
    ASSUME Typed
    PROVE  /\ job # Idle => job \in Job
           /\ job \in Job => job # Idle /\ job.svc \in Service /\ job.svc # NoService
           /\ job.svc \in Service => job \in Job
           /\ job.phase # "idle" => job \in Job
           /\ job.phase = "idle" => job = Idle
           /\ job.todo # {} \/ job.half # {} => job \in Job /\ job.phase = "read"
           /\ job.left # {} => job \in Job /\ job.phase = "write" /\ job.todo = {} /\ job.half = {}
  <1>1. CASE job = Idle
    BY <1>1, IdleIs
  <1>2. CASE job # Idle
    <2>1. job \in Job /\ (job.phase = "read" => job.left = {})
          /\ (job.phase = "write" => job.todo = {} /\ job.half = {})
      BY <1>2 DEF Typed, JobOK
    <2>2. job.phase \in {"read", "write"} /\ job.svc \in Service
      BY <2>1 DEF Job
    <2>3. QED  BY <1>2, <2>1, <2>2, IdleIs
  <1>3. QED  BY <1>1, <1>2

-----------------------------------------------------------------------------
(* What each step of the worker does to the reconcile in progress. *)

\* The beginning of a reconcile that publishes A.
Begun(s, A) ==
    /\ job' \in Job
    /\ job'.svc = s /\ job'.phase = "read" /\ job'.atts = A
    /\ job'.podReady = {a \in A : pods[a] = "ready"}
    /\ job'.todo = Publishable(A) /\ job'.half = {} /\ job'.ready = Empty
    /\ job'.left = {}

LEMMA BeginsForm ==
    ASSUME Typed, NEW s \in Service, ReconcileUnmanaged(s) \/ ReconcileManaged(s)
    PROVE  Begun(s, Offers(s))
  <1>1. /\ Discovered(s) \in SUBSET Attachment /\ Offers(s) \in SUBSET Attachment
        /\ Publishable(Offers(s)) \in SUBSET Offers(s)
    BY OffersTyped
  <1>2. CASE ReconcileUnmanaged(s)
    <2>1. job' = [Idle EXCEPT !.svc = s, !.phase = "read"] /\ Offers(s) = {}
      BY <1>2 DEF ReconcileUnmanaged, Offers
    <2>2. Begun(s, {})
      BY <2>1, EmptyTyped, NothingPublishable DEF Begun, Idle, Job
    <2>3. QED  BY <2>1, <2>2
  <1>3. CASE ReconcileManaged(s)
    <2> DEFINE A == Offers(s)
               P == {a \in A : pods[a] = "ready"}
               T == Publishable(A)
    <2>1. job' = [Idle EXCEPT !.svc = s, !.phase = "read", !.atts = A, !.podReady = P, !.todo = T]
      BY <1>3 DEF ReconcileManaged, Offers
    <2>2. A \in SUBSET Attachment /\ P \in SUBSET Attachment /\ T \in SUBSET Attachment
      BY <1>1
    <2>3. P = {a \in A : pods[a] = "ready"} /\ T = Publishable(A)
      OBVIOUS
    <2> HIDE DEF A, P, T
    <2>4. /\ job' \in Job
          /\ job'.svc = s /\ job'.phase = "read" /\ job'.atts = A /\ job'.podReady = P
          /\ job'.todo = T /\ job'.half = {} /\ job'.ready = Empty /\ job'.left = {}
      BY <2>1, <2>2, EmptyTyped DEF Idle, Job
    <2>5. QED  BY <2>3, <2>4 DEF Begun, A
  <1>4. QED  BY <1>2, <1>3

\* What the reads and the writes leave alone.
SameTask ==
    job'.svc = job.svc /\ job'.atts = job.atts /\ job'.podReady = job.podReady

LEMMA ReadLocalForm ==
    ASSUME Typed, NEW a \in Attachment, ReadLocal(a)
    PROVE  /\ job \in Job /\ job' \in Job /\ SameTask
           /\ job.phase = "read" /\ job'.phase = "read" /\ job.left = {} /\ job'.left = {}
           /\ job'.todo = job.todo \ {a}
           /\ \/ /\ LocalHalf(a, job.podReady)
                 /\ job'.half = job.half \cup {a} /\ job'.ready = job.ready
              \/ /\ ~LocalHalf(a, job.podReady)
                 /\ job'.half = job.half /\ job'.ready = Put(job.ready, a, FALSE)
  <1>1. job \in Job /\ job.phase = "read" /\ job.left = {}
    BY JobIs DEF ReadLocal, Typed, JobOK
  <1>2. CASE LocalHalf(a, job.podReady)
    <2>1. job' = [job EXCEPT !.todo = @ \ {a}, !.half = @ \cup {a}]
      BY <1>2 DEF ReadLocal
    <2>2. QED  BY <1>1, <1>2, <2>1 DEF Job, SameTask
  <1>3. CASE ~LocalHalf(a, job.podReady)
    <2> DEFINE r == Put(job.ready, a, FALSE)
    <2>1. job' = [job EXCEPT !.todo = @ \ {a}, !.ready = r]
      BY <1>3 DEF ReadLocal
    <2>2. r \in Readiness
      BY <1>1, PutReadiness DEF Job
    <2> HIDE DEF r
    <2>3. /\ job' \in Job /\ SameTask
          /\ job'.phase = "read" /\ job'.left = {}
          /\ job'.todo = job.todo \ {a}
          /\ job'.half = job.half /\ job'.ready = r
      BY <1>1, <2>1, <2>2 DEF Job, SameTask
    <2>4. QED  BY <1>1, <1>3, <2>3 DEF r
  <1>4. QED  BY <1>2, <1>3

LEMMA ReadPathForm ==
    ASSUME Typed, NEW a \in Attachment, ReadPath(a)
    PROVE  /\ job \in Job /\ job' \in Job /\ SameTask
           /\ job.phase = "read" /\ job'.phase = "read" /\ job.left = {} /\ job'.left = {}
           /\ job'.todo = job.todo /\ job'.half = job.half \ {a}
           /\ job'.ready = Put(job.ready, a, PathHalf(a))
  <1>1. job \in Job /\ job.phase = "read" /\ job.left = {}
    BY JobIs DEF ReadPath, Typed, JobOK
  <1> DEFINE r == Put(job.ready, a, PathHalf(a))
  <1>2. job' = [job EXCEPT !.half = @ \ {a}, !.ready = r]
    BY DEF ReadPath
  <1>3. PathHalf(a) \in BOOLEAN
    BY DEF PathHalf
  <1>4. r \in Readiness
    BY <1>1, <1>3, PutReadiness DEF Job
  <1> HIDE DEF r
  <1>5. /\ job' \in Job /\ SameTask
        /\ job'.phase = "read" /\ job'.left = {}
        /\ job'.todo = job.todo
        /\ job'.half = job.half \ {a} /\ job'.ready = r
    BY <1>1, <1>2, <1>4 DEF Job, SameTask
  <1>6. QED  BY <1>1, <1>5 DEF r

LEMMA ListForm ==
    ASSUME Typed, ListSlices
    PROVE  /\ job \in Job /\ job' \in Job /\ SameTask
           /\ job'.phase = "write" /\ job.phase = "read"
           /\ job.todo = {} /\ job.half = {}
           /\ job'.todo = {} /\ job'.half = {} /\ job'.ready = job.ready
           /\ job'.have = cached[job.svc]
           /\ job'.left = Families(job.atts) \cup DOMAIN cached[job.svc]
  <1>1. job \in Job /\ job.phase = "read" /\ job.todo = {} /\ job.half = {}
    BY JobIs DEF ListSlices
  <1> DEFINE h == cached[job.svc]
             o == {f \in Family : <<job.svc, f>> \in watch}
             l == Families(job.atts) \cup DOMAIN cached[job.svc]
  <1>2. job' = [job EXCEPT !.phase = "write", !.have = h, !.old = o, !.left = l]
    BY DEF ListSlices
  <1>3. h \in SliceSet
    BY <1>1 DEF Job, Typed
  <1>4. l \in SUBSET Family
    <2>1. DOMAIN h \in SUBSET Family
      BY <1>3, SliceSetIs
    <2>2. Families(job.atts) \in SUBSET Family
      BY <1>1, PublicationAssumption DEF Families, Job
    <2>3. QED  BY <2>1, <2>2
  <1>5. o \in SUBSET Family
    OBVIOUS
  <1> HIDE DEF h, o, l
  <1>6. /\ job' \in Job /\ SameTask /\ job'.phase = "write"
        /\ job'.todo = job.todo /\ job'.half = job.half /\ job'.ready = job.ready
        /\ job'.have = h /\ job'.left = l
    BY <1>1, <1>2, <1>3, <1>4, <1>5 DEF Job, SameTask
  <1>7. QED  BY <1>1, <1>6 DEF h, l

\* One slice is dealt with.
OneDone(f) ==
    /\ job \in Job /\ job' \in Job /\ SameTask
    /\ job.phase = "write" /\ job'.phase = "write"
    /\ job.todo = {} /\ job.half = {} /\ job'.todo = {} /\ job'.half = {}
    /\ job'.ready = job.ready /\ job'.have = job.have
    /\ job'.left = job.left \ {f}

LEMMA DoneForm ==
    ASSUME Typed, NEW f \in Family, f \in job.left, Done(f)
    PROVE  OneDone(f)
  <1>1. job \in Job /\ job.phase = "write" /\ job.todo = {} /\ job.half = {}
    BY JobIs
  <1>2. job' = [job EXCEPT !.left = @ \ {f}]
    BY DEF Done
  <1>3. QED  BY <1>1, <1>2 DEF Job, OneDone, SameTask

\* The four endings of a slice's turn: it is written or deleted, or left as it is.
SlicePut(f) ==
    /\ slices' = [slices EXCEPT ![job.svc] = Put(slices[job.svc], f, InFamily(job.ready, f))]
    /\ watch' = watch \cup {<<job.svc, f>>}
SliceDropped(f) ==
    /\ slices' = [slices EXCEPT ![job.svc] = Drop(slices[job.svc], {f})]
    /\ watch' = watch \cup {<<job.svc, f>>}
SliceSkipped(f) ==
    /\ UNCHANGED <<slices, watch>>
    /\ \/ f \notin DOMAIN job.have /\ f \in DOMAIN slices[job.svc]
       \/ UpToDate(f)
       \/ ~Wanted(f) /\ f \notin DOMAIN slices[job.svc]

WriteStep(f) == CreateSlice(f) \/ KeepSlice(f) \/ UpdateSlice(f) \/ DeleteSlice(f)

LEMMA WriteForm ==
    ASSUME Typed, NEW f \in Family, WriteStep(f)
    PROVE  /\ f \in job.left /\ Done(f) /\ OneDone(f)
           /\ SlicePut(f) \/ SliceDropped(f) \/ SliceSkipped(f)
  <1>1. f \in job.left /\ Done(f)
    BY DEF WriteStep, CreateSlice, KeepSlice, UpdateSlice, DeleteSlice, Turn, Written
  <1>2. SlicePut(f) \/ SliceDropped(f) \/ SliceSkipped(f)
    BY DEF WriteStep, CreateSlice, KeepSlice, UpdateSlice, DeleteSlice, Written,
           SlicePut, SliceDropped, SliceSkipped
  <1>3. QED  BY <1>1, <1>2, DoneForm

-----------------------------------------------------------------------------
(* Types of every step. *)

LEMMA InitTyped == Init => Typed /\ Flags
  <1> SUFFICES ASSUME Init PROVE Typed /\ Flags
    OBVIOUS
  <1>1. GoodMap(local, Attachment) /\ GoodMap(path, PathKey)
    BY EmptyGood DEF Init
  <1>2. Empty \in SliceSet /\ DOMAIN Empty = {}
    BY EmptyTyped
  <1>3. registry \in [DOMAIN registry -> SUBSET Attachment]
    BY DEF Init, Empty
  <1>4. QED  BY <1>1, <1>2, <1>3 DEF Init, Typed, Flags, GoodMap, JobOK

\* The registry after SetService and RemoveService.
LEMMA RegistryTyped ==
    ASSUME Typed, NEW s \in Service, NEW A \in SUBSET Attachment
    PROVE  /\ DOMAIN Put(registry, s, A) \subseteq Service
           /\ Put(registry, s, A) \in [DOMAIN Put(registry, s, A) -> SUBSET Attachment]
           /\ DOMAIN Drop(registry, {s}) \subseteq Service
           /\ Drop(registry, {s}) \in [DOMAIN Drop(registry, {s}) -> SUBSET Attachment]
  BY DEF Typed, Put, Drop

LEMMA SlicesTyped ==
    ASSUME Typed, job \in Job, NEW f \in Family,
           SlicePut(f) \/ SliceDropped(f) \/ SliceSkipped(f)
    PROVE  slices' \in [Service -> SliceSet] /\ watch' \in SUBSET (Service \X Family)
  <1>1. job.svc \in Service /\ job.ready \in Readiness /\ slices \in [Service -> SliceSet]
        /\ watch \in SUBSET (Service \X Family)
    BY DEF Job, Typed
  <1>2. slices[job.svc] \in SliceSet
    BY <1>1
  <1>3. CASE SlicePut(f)
    <2>1. Put(slices[job.svc], f, InFamily(job.ready, f)) \in SliceSet
      BY <1>1, <1>2, PutSlice, InFamilyReadiness
    <2>2. QED  BY <1>1, <1>3, <2>1 DEF SlicePut
  <1>4. CASE SliceDropped(f)
    <2>1. Drop(slices[job.svc], {f}) \in SliceSet
      BY <1>2, DropSlice
    <2>2. QED  BY <1>1, <1>4, <2>1 DEF SliceDropped
  <1>5. CASE SliceSkipped(f)
    BY <1>1, <1>5 DEF SliceSkipped
  <1>6. QED  BY <1>3, <1>4, <1>5

LEMMA StepTyped == Typed /\ Flags /\ [Next]_vars => Typed' /\ Flags'
  <1> SUFFICES ASSUME Typed, Flags, [Next]_vars PROVE Typed' /\ Flags'
    OBVIOUS
  <1> DEFINE sameStore == UNCHANGED storeVars
  <1>0. sameStore => GoodMap(local', Attachment) /\ GoodMap(path', PathKey)
    BY DEF Typed, Flags, GoodMap, storeVars
  <1>st. ASSUME GoodMap(local', Attachment), GoodMap(path', PathKey)
         PROVE  Flags' /\ IsStoreMap(local', Attachment) /\ IsStoreMap(path', PathKey)
    BY <1>st DEF Flags, GoodMap
  <1>1. CASE StoreStep
    <2>1. StoreStepOK
      BY <1>1, StoreSteps
    <2>2. QED  BY <1>st, <2>1 DEF StoreStepOK, restVars, Typed, JobOK
  <1>2. ASSUME NEW s \in Service, NEW state \in ServiceState, ServiceEvent(s, state)
        PROVE  Typed' /\ Flags'
    <2>1. /\ services' = [services EXCEPT ![s] = state] /\ queue' = queue \cup {s}
          /\ sameStore
          /\ UNCHANGED <<pods, registry, events, dropped, job, slices, cached, watch, silenced>>
      BY <1>2 DEF ServiceEvent, notifyVars, registryVars, sliceVars
    <2>2. QED  BY <1>0, <1>st, <2>1 DEF Typed, JobOK
  <1>3. ASSUME NEW a \in Attachment, NEW state \in PodState, PodEvent(a, state)
        PROVE  Typed' /\ Flags'
    <2>1. /\ pods' = [pods EXCEPT ![a] = state] /\ queue' \in SUBSET Service
          /\ sameStore
          /\ UNCHANGED <<services, registry, events, dropped, job, slices, cached, watch, silenced>>
      BY <1>3 DEF PodEvent, notifyVars, registryVars, sliceVars, Typed
    <2>2. QED  BY <1>0, <1>st, <2>1 DEF Typed, JobOK
  <1>4. ASSUME NEW s \in Service, NEW f \in Family, SliceEvent(s, f)
        PROVE  Typed' /\ Flags'
    <2>1. /\ watch' = watch \ {<<s, f>>} /\ queue' = queue \cup {s}
          /\ cached' = [cached EXCEPT ![s] = IF f \in DOMAIN slices[s]
                           THEN Put(cached[s], f, slices[s][f]) ELSE Drop(cached[s], {f})]
          /\ sameStore
          /\ UNCHANGED <<services, pods, registry, events, dropped, job, slices, silenced>>
      BY <1>4 DEF SliceEvent, notifyVars, worldVars, registryVars, Typed
    <2>2. cached[s] \in SliceSet /\ slices[s] \in SliceSet
      BY DEF Typed
    <2>3. f \in DOMAIN slices[s] => Put(cached[s], f, slices[s][f]) \in SliceSet
      BY <2>2, PutSlice, SliceSetIs
    <2>4. Drop(cached[s], {f}) \in SliceSet
      BY <2>2, DropSlice
    <2>5. cached' \in [Service -> SliceSet]
      BY <2>1, <2>3, <2>4 DEF Typed
    <2>6. QED  BY <1>0, <1>st, <2>1, <2>5 DEF Typed, JobOK
  <1>5. ASSUME NEW s \in Service, NEW f \in Family, SliceDeleted(s, f)
        PROVE  Typed' /\ Flags'
    <2>1. /\ slices' = [slices EXCEPT ![s] = Drop(slices[s], {f})]
          /\ watch' = watch \cup {<<s, f>>}
          /\ sameStore
          /\ UNCHANGED <<services, pods, registry, events, dropped, queue, job, cached, silenced>>
      BY <1>5 DEF SliceDeleted, notifyVars, worldVars, registryVars, Typed
    <2>2. Drop(slices[s], {f}) \in SliceSet
      BY DropSlice DEF Typed
    <2>3. slices' \in [Service -> SliceSet]
      BY <2>1, <2>2 DEF Typed
    <2>6. QED  BY <1>0, <1>st, <2>1, <2>3 DEF Typed, JobOK
  <1>6. ASSUME NEW s \in Service, ChannelPump(s)
        PROVE  Typed' /\ Flags'
    <2>1. /\ events[s] > 0 /\ events' = [events EXCEPT ![s] = events[s] - 1]
          /\ queue' = queue \cup {s}
          /\ sameStore
          /\ UNCHANGED <<services, pods, registry, dropped, job, slices, cached, watch, silenced>>
      BY <1>6 DEF ChannelPump, worldVars, registryVars, sliceVars, Typed
    <2>2. events' \in [Service -> Nat]
      BY <2>1 DEF Typed
    <2>3. QED  BY <1>0, <1>st, <2>1, <2>2 DEF Typed, JobOK
  <1>7. ASSUME NEW s \in Service, ReconcileAbsent(s)
        PROVE  Typed' /\ Flags'
    <2>1. /\ queue' = queue \ {s} /\ dropped' = dropped \ {s} /\ silenced' = silenced \ {s}
          /\ registry' = Drop(registry, {s})
          /\ sameStore
          /\ UNCHANGED <<services, pods, events, job, slices, cached, watch>>
      BY <1>7 DEF ReconcileAbsent, Taken, worldVars, sliceVars
    <2>2. DOMAIN registry' \subseteq Service /\ registry' \in [DOMAIN registry' -> SUBSET Attachment]
      BY <2>1, RegistryTyped
    <2>3. QED  BY <1>0, <1>st, <2>1, <2>2 DEF Typed, JobOK
  <1>8. ASSUME NEW s \in Service, ReconcileUnmanaged(s) \/ ReconcileManaged(s)
        PROVE  Typed' /\ Flags'
    <2>1. /\ queue' = queue \ {s} /\ dropped' = dropped \ {s} /\ silenced' = silenced \ {s}
          /\ registry' = Drop(registry, {s}) \/ registry' = Put(registry, s, Discovered(s))
          /\ sameStore
          /\ UNCHANGED <<services, pods, events, slices, cached, watch>>
      BY <1>8 DEF ReconcileUnmanaged, ReconcileManaged, Taken, worldVars, sliceVars
    <2>2. DOMAIN registry' \subseteq Service /\ registry' \in [DOMAIN registry' -> SUBSET Attachment]
      BY <2>1, RegistryTyped, OffersTyped
    <2>3. Begun(s, Offers(s))
      BY <1>8, BeginsForm
    <2>4. JobOK'
      BY <2>3 DEF Begun, JobOK
    <2>5. QED  BY <1>0, <1>st, <2>1, <2>2, <2>4 DEF Typed
  <1>9. ASSUME JobOK', sameStore, slices' \in [Service -> SliceSet],
               watch' \in SUBSET (Service \X Family), queue' \in SUBSET Service,
               UNCHANGED <<services, pods, registry, events, dropped, cached, silenced>>
        PROVE  Typed' /\ Flags'
    BY <1>0, <1>st, <1>9 DEF Typed
  <1>10. ASSUME NEW a \in Attachment, ReadLocal(a) \/ ReadPath(a)
         PROVE  Typed' /\ Flags'
    <2>1. sameStore /\ UNCHANGED <<services, pods, registry, events, dropped, queue, slices,
                                   cached, watch, silenced>>
      BY <1>10 DEF ReadLocal, ReadPath, notifyVars, worldVars, registryVars, sliceVars
    <2>2. JobOK'
      BY <1>10, ReadLocalForm, ReadPathForm DEF JobOK
    <2>3. QED  BY <1>9, <2>1, <2>2 DEF Typed
  <1>11. CASE ListSlices
    <2>1. sameStore /\ UNCHANGED <<services, pods, registry, events, dropped, queue, slices,
                                   cached, watch, silenced>>
      BY <1>11 DEF ListSlices, notifyVars, worldVars, registryVars, sliceVars
    <2>2. JobOK'
      BY <1>11, ListForm DEF JobOK
    <2>3. QED  BY <1>9, <2>1, <2>2 DEF Typed
  <1>12. ASSUME NEW f \in Family, WriteStep(f)
         PROVE  Typed' /\ Flags'
    <2>1. f \in job.left /\ Done(f) /\ OneDone(f)
          /\ (SlicePut(f) \/ SliceDropped(f) \/ SliceSkipped(f))
      BY <1>12, WriteForm
    <2>2. sameStore /\ UNCHANGED <<services, pods, registry, events, dropped, queue, cached,
                                   silenced>>
      BY <2>1 DEF Done, notifyVars, worldVars, registryVars
    <2>3. JobOK'
      BY <2>1 DEF OneDone, JobOK
    <2>4. slices' \in [Service -> SliceSet] /\ watch' \in SUBSET (Service \X Family)
      BY <2>1, SlicesTyped DEF OneDone
    <2>5. QED  BY <1>9, <2>2, <2>3, <2>4 DEF Typed
  <1>13. CASE WriteFails
    <2>1. /\ job' = Idle /\ queue' = queue \cup {job.svc}
          /\ job.left # {}
          /\ sameStore /\ UNCHANGED <<services, pods, registry, events, dropped, slices, cached,
                                      watch, silenced>>
      BY <1>13 DEF WriteFails, notifyVars, worldVars, registryVars, sliceVars
    <2>2. job.svc \in Service
      BY <2>1, JobIs
    <2>3. QED  BY <1>9, <2>1, <2>2 DEF Typed, JobOK
  <1>14. CASE Finish
    <2>1. /\ job' = Idle
          /\ sameStore /\ UNCHANGED <<services, pods, registry, events, dropped, queue, slices,
                                      cached, watch, silenced>>
      BY <1>14 DEF Finish, notifyVars, worldVars, registryVars, sliceVars
    <2>2. QED  BY <1>9, <2>1 DEF Typed, JobOK
  <1>15. CASE Restart
    <2>1. GoodMap(local', Attachment) /\ GoodMap(path', PathKey)
      BY <1>15, EmptyGood DEF Restart
    <2>2. registry' \in [DOMAIN registry' -> SUBSET Attachment] /\ DOMAIN registry' \subseteq Service
      BY <1>15 DEF Restart, Empty
    <2>3. QED  BY <1>15, <1>st, <2>1, <2>2 DEF Restart, worldVars, Typed, JobOK
  <1>16. CASE UNCHANGED vars
    BY <1>0, <1>st, <1>16 DEF vars, storeVars, registryVars, Typed, JobOK
  <1>17. QED
    BY <1>1, <1>2, <1>3, <1>4, <1>5, <1>6, <1>7, <1>8, <1>10, <1>11, <1>12, <1>13, <1>14,
       <1>15, <1>16, Zenon
    DEF Next, Cluster, Worker, StoreStep, WriteStep

\* What look-ups found, and where the sweeper is.
LookupsTyped ==
    /\ answered \subseteq ({"local"} \X Attachment \X SUBSET Service) \cup
                         ({"path"} \X PathKey \X SUBSET Service)
    /\ sweeping \in BOOLEAN

LEMMA StepLookups == LookupsTyped /\ Typed' /\ [Next]_vars => LookupsTyped'
  <1> SUFFICES ASSUME LookupsTyped, Typed', [Next]_vars PROVE LookupsTyped'
    OBVIOUS
  <1>1. CASE UNCHANGED <<answered, sweeping>>
    BY <1>1 DEF LookupsTyped
  <1>2. CASE UNCHANGED answered /\ sweeping' \in BOOLEAN
    BY <1>2 DEF LookupsTyped
  <1>3. ASSUME NEW s \in Service,
               ReconcileAbsent(s) \/ ReconcileUnmanaged(s) \/ ReconcileManaged(s)
        PROVE  LookupsTyped'
    <2>1. answered' = answered \cup Answers' /\ UNCHANGED sweeping
      BY <1>3 DEF ReconcileAbsent, ReconcileUnmanaged, ReconcileManaged, Taken, storeVars
    <2>2. /\ \A a : OwnersOf(a)' \subseteq Service
          /\ \A k : PathOwnersOf(k)' \subseteq Service
      BY DEF OwnersOf, PathOwnersOf, Typed
    <2>3. \A a \in Observed : a \in Attachment /\ PathKeyOf[a] \in PathKey
      BY PublicationAssumption
    <2>4. Answers' \subseteq ({"local"} \X Attachment \X SUBSET Service) \cup
                             ({"path"} \X PathKey \X SUBSET Service)
      BY <2>2, <2>3 DEF Answers
    <2>5. QED  BY <2>1, <2>4 DEF LookupsTyped
  <1>4. CASE Restart
    BY <1>4 DEF Restart, LookupsTyped
  <1>5. ASSUME NEW n \in Node,
               \/ \E a, owners, ready : LocalReport(a, owners, ready)
               \/ \E k, owners, ready : PathReport(k, owners, ready)
               \/ \E locals, paths : Snapshot(n, locals, paths)
               \/ \E a : Retired(a)
        PROVE  LookupsTyped'
    <2>1. UNCHANGED <<answered, sweeping>>
      BY <1>5, Zenon DEF LocalReport, PathReport, Snapshot, Retired, Told, registryVars
    <2>2. QED  BY <1>1, <2>1
  <1>6. CASE Reports
    BY <1>5, <1>6, Zenon DEF Reports
  <1>7. CASE Sweeper
    <2>1. UNCHANGED answered /\ sweeping' \in BOOLEAN
      BY <1>7 DEF Sweeper, Sweep, Prune, Told, registryVars
    <2>2. QED  BY <1>2, <2>1
  <1>8. CASE Cluster \/ ClockTick \/ \E s \in Service : ChannelPump(s)
    <2>1. UNCHANGED <<answered, sweeping>>
      BY <1>8 DEF Cluster, ServiceEvent, PodEvent, SliceEvent, SliceDeleted, ClockTick,
                  ChannelPump, storeVars, registryVars
    <2>2. QED  BY <1>1, <2>1
  <1>9. ASSUME \/ \E a \in Attachment : ReadLocal(a) \/ ReadPath(a)
               \/ ListSlices
               \/ \E f \in Family : WriteStep(f)
               \/ WriteFails
               \/ Finish
        PROVE  LookupsTyped'
    <2>1. UNCHANGED <<answered, sweeping>>
      <3>1. ASSUME NEW f \in Family, WriteStep(f) PROVE UNCHANGED <<answered, sweeping>>
        <4>1. Done(f)
          BY <3>1 DEF WriteStep, CreateSlice, KeepSlice, UpdateSlice, DeleteSlice, Written
        <4>2. QED  BY <4>1 DEF Done, storeVars, registryVars
      <3>2. QED
        BY <1>9, <3>1 DEF ReadLocal, ReadPath, ListSlices, WriteFails, Finish, storeVars, registryVars
    <2>2. QED  BY <1>1, <2>1
  <1>10. CASE UNCHANGED vars
    BY <1>1, <1>10 DEF vars
  <1>11. QED
    BY <1>3, <1>4, <1>6, <1>7, <1>8, <1>9, <1>10, Zenon DEF Next, Worker, WriteStep

LEMMA TypedImplies == Typed /\ LookupsTyped => TypeOK
  <1> SUFFICES ASSUME Typed, LookupsTyped PROVE TypeOK
    OBVIOUS
  <1>1. ASSUME NEW x \in SliceSet PROVE IsSliceSet(x)
    BY SliceSetIs, ReadinessIs DEF IsSliceSet
  <1>2. \A s \in Service : IsSliceSet(slices[s]) /\ IsSliceSet(cached[s])
    BY <1>1 DEF Typed
  <1>3. job.svc \in Service \cup {NoService} /\ job.phase \in {"idle", "read", "write"}
    BY IdleIs DEF Typed, JobOK, Job
  <1>4. QED  BY <1>2, <1>3 DEF Typed, LookupsTyped, TypeOK

\* Type correctness: whatever the interleaving, every variable of Publication keeps its
\* type.
THEOREM PublicationTypes == Spec => []TypeOK
  <1>1. Init => Typed /\ Flags /\ LookupsTyped
    BY InitTyped DEF Init, LookupsTyped
  <1>2. (Typed /\ Flags /\ LookupsTyped) /\ [Next]_vars => (Typed /\ Flags /\ LookupsTyped)'
    BY StepTyped, StepLookups
  <1>3. QED  BY <1>1, <1>2, TypedImplies, PTL DEF Spec

-----------------------------------------------------------------------------
(* The shape of what is published. *)

\* The cluster has not changed for t, or t has been queued.
SameWorld(t) ==
    Unqueued(t)' =>
        /\ Unqueued(t)
        /\ services'[t] = services[t] /\ Offers(t)' = Offers(t)
        /\ services[t] = "managed" => Discovered(t)' = Discovered(t)
        /\ {a \in Offers(t) : pods'[a] = "ready"} = {a \in Offers(t) : pods[a] = "ready"}

LEMMA WorldUnchanged ==
    ASSUME UNCHANGED <<services, pods>>, NEW t
    PROVE  /\ Discovered(t)' = Discovered(t) /\ Offers(t)' = Offers(t)
           /\ services'[t] = services[t]
           /\ t \notin queue \/ t \in queue' => SameWorld(t)
  BY DEF SameWorld, Unqueued, Offers, Discovered

\* Queued Services apart, the cluster's events change nothing.
LEMMA EventSameWorld ==
    ASSUME Typed, NEW t \in Service,
           \/ \E s \in Service, state \in ServiceState : ServiceEvent(s, state)
           \/ \E a \in Attachment, state \in PodState : PodEvent(a, state)
    PROVE  SameWorld(t)
  <1> SUFFICES ASSUME Unqueued(t)' PROVE
        /\ Unqueued(t) /\ services'[t] = services[t] /\ Offers(t)' = Offers(t)
        /\ services[t] = "managed" => Discovered(t)' = Discovered(t)
        /\ {a \in Offers(t) : pods'[a] = "ready"} = {a \in Offers(t) : pods[a] = "ready"}
    BY DEF SameWorld
  <1>1. ASSUME NEW s \in Service, NEW state \in ServiceState, ServiceEvent(s, state)
        PROVE  t \notin queue /\ services'[t] = services[t] /\ pods' = pods
    BY <1>1 DEF ServiceEvent, Unqueued, Typed
  <1>2. ASSUME NEW a \in Attachment, NEW state \in PodState, PodEvent(a, state)
        PROVE  /\ t \notin queue /\ services' = services
               /\ services[t] = "managed" => a \notin Selects[t]
               /\ pods' = [pods EXCEPT ![a] = state]
    BY <1>2 DEF PodEvent, Unqueued
  <1>3. CASE \E s \in Service, state \in ServiceState : ServiceEvent(s, state)
    <2>1. t \notin queue /\ services'[t] = services[t] /\ pods' = pods
      BY <1>1, <1>3, Zenon
    <2>2. QED  BY <2>1 DEF Unqueued, Offers, Discovered
  <1>4. CASE \E a \in Attachment, state \in PodState : PodEvent(a, state)
    <2>1. PICK a \in Attachment, state \in PodState : PodEvent(a, state)
      BY <1>4
    <2>2. /\ t \notin queue /\ services' = services
          /\ services[t] = "managed" => a \notin Selects[t]
          /\ pods' = [pods EXCEPT ![a] = state]
      BY <1>2, <2>1
    <2>3. Unqueued(t)
      BY <2>2 DEF Unqueued
    <2>4. services[t] = "managed" => \A b \in Selects[t] : pods'[b] = pods[b]
      BY <2>2, PublicationAssumption DEF Typed
    <2>5. services[t] = "managed" => Discovered(t)' = Discovered(t)
      BY <2>4 DEF Discovered
    <2>6. Offers(t)' = Offers(t)
      BY <2>2, <2>5 DEF Offers
    <2>7. {b \in Offers(t) : pods'[b] = "ready"} = {b \in Offers(t) : pods[b] = "ready"}
      BY <2>4 DEF Offers, Discovered
    <2>8. QED  BY <2>2, <2>3, <2>5, <2>6, <2>7
  <1>5. QED  BY <1>3, <1>4

\* Steps that only queue Services, and change the cluster for no other.
LEMMA QueueingShape ==
    ASSUME Typed, ShapeInv, \A t \in Service : SameWorld(t),
           UNCHANGED <<registry, job, slices, cached, watch>>
    PROVE  ShapeInv'
  <1>1. CacheCurrent'
    BY DEF ShapeInv, CacheCurrent
  <1>2. Registered'
    BY DEF ShapeInv, Registered, SameWorld
  <1>3. JobCurrent'
    <2> SUFFICES ASSUME job # Idle, Unqueued(job.svc)' PROVE
          /\ job.atts = Offers(job.svc)'
          /\ job.podReady = {a \in Offers(job.svc)' : pods'[a] = "ready"}
          /\ job.todo \cup job.half \cup DOMAIN job.ready = Publishable(job.atts)
      BY DEF JobCurrent
    <2>1. job.svc \in Service
      BY JobIs
    <2>2. /\ Unqueued(job.svc) /\ Offers(job.svc)' = Offers(job.svc)
          /\ {a \in Offers(job.svc) : pods'[a] = "ready"}
               = {a \in Offers(job.svc) : pods[a] = "ready"}
      BY <2>1 DEF SameWorld
    <2>3. QED  BY <2>2 DEF ShapeInv, JobCurrent
  <1>4. HaveCurrent'
    <2> SUFFICES ASSUME job.phase = "write", Unqueued(job.svc)' PROVE
          \A f \in Family : <<job.svc, f>> \notin watch => SameAt(job.have, slices[job.svc], f)
      BY DEF HaveCurrent, SameAt
    <2>1. job.svc \in Service
      BY JobIs
    <2>2. Unqueued(job.svc)
      BY <2>1 DEF SameWorld
    <2>3. QED  BY <2>2 DEF ShapeInv, HaveCurrent
  <1>5. SlicesShaped'
    <2> SUFFICES ASSUME NEW s \in Service, NEW f \in Family, Unqueued(s)', Settled(s, f)'
                 PROVE  Shaped(s, f)'
      BY DEF SlicesShaped
    <2>1. Unqueued(s) /\ Offers(s)' = Offers(s)
      BY DEF SameWorld
    <2>2. Settled(s, f)
      BY DEF Settled
    <2>3. Shaped(s, f)
      BY <2>1, <2>2 DEF ShapeInv, SlicesShaped
    <2>4. QED
      BY <2>1, <2>3 DEF Shaped
  <1>6. QED  BY <1>1, <1>2, <1>3, <1>4, <1>5 DEF ShapeInv

\* The slices of other Services or families are as they were.
OnlyAt(s, f) ==
    \A t \in Service, g \in Family : t # s \/ g # f => SameAt(slices'[t], slices[t], g)

LEMMA OnlyAtOne ==
    ASSUME Typed, NEW s \in Service, NEW f \in Family, NEW x \in SliceSet,
           slices' = [slices EXCEPT ![s] = x],
           \A g \in Family : g # f => SameAt(x, slices[s], g)
    PROVE  OnlyAt(s, f)
  <1>1. slices \in [Service -> SliceSet]
    BY DEF Typed
  <1>2. ASSUME NEW t \in Service, NEW g \in Family, t # s \/ g # f
        PROVE  SameAt(slices'[t], slices[t], g)
    <2>1. CASE t = s
      BY <1>1, <1>2, <2>1
    <2>2. CASE t # s
      BY <1>1, <2>2 DEF SameAt
    <2>3. QED  BY <2>1, <2>2
  <1>3. QED  BY <1>2 DEF OnlyAt

LEMMA WritesOnlyAt ==
    ASSUME Typed, job \in Job, NEW f \in Family, SlicePut(f) \/ SliceDropped(f)
    PROVE  OnlyAt(job.svc, f)
  <1>1. job.svc \in Service /\ job.ready \in Readiness /\ slices[job.svc] \in SliceSet
    BY DEF Job, Typed
  <1>2. CASE SlicePut(f)
    <2> DEFINE r == InFamily(job.ready, f)
               x == Put(slices[job.svc], f, r)
    <2>1. r \in Readiness
      BY <1>1, InFamilyReadiness
    <2> HIDE DEF r
    <2>2. /\ x \in SliceSet /\ DOMAIN x = DOMAIN slices[job.svc] \cup {f}
          /\ \A g \in DOMAIN slices[job.svc] : g # f => x[g] = slices[job.svc][g]
      BY <1>1, <2>1, PutSlice
    <2>3. slices' = [slices EXCEPT ![job.svc] = x]
      BY <1>2 DEF SlicePut, r
    <2> HIDE DEF x
    <2>4. \A g \in Family : g # f => SameAt(x, slices[job.svc], g)
      BY <2>2 DEF SameAt
    <2>5. QED  BY <1>1, <2>2, <2>3, <2>4, OnlyAtOne
  <1>3. CASE SliceDropped(f)
    <2> DEFINE x == Drop(slices[job.svc], {f})
    <2>1. /\ x \in SliceSet /\ DOMAIN x = DOMAIN slices[job.svc] \ {f}
          /\ \A g \in DOMAIN slices[job.svc] : g # f => x[g] = slices[job.svc][g]
      BY <1>1, DropSlice
    <2>2. slices' = [slices EXCEPT ![job.svc] = x]
      BY <1>3 DEF SliceDropped
    <2> HIDE DEF x
    <2>3. \A g \in Family : g # f => SameAt(x, slices[job.svc], g)
      BY <2>1 DEF SameAt
    <2>4. QED  BY <1>1, <2>1, <2>2, <2>3, OnlyAtOne
  <1>4. QED  BY <1>2, <1>3

\* A settled slice of a Service for which the cluster is the same.
LEMMA ShapedStays ==
    ASSUME NEW s \in Service, NEW f \in Family, Shaped(s, f), Offers(s)' = Offers(s),
           SameAt(slices'[s], slices[s], f)
    PROVE  Shaped(s, f)'
  BY DEF Shaped, SameAt

\* The slice changes at <<s, f>>, which is then on its way to the informer.
LEMMA ChangeShape ==
    ASSUME Typed, ShapeInv, NEW s \in Service, NEW f \in Family,
           OnlyAt(s, f), watch' = watch \cup {<<s, f>>},
           UNCHANGED <<services, pods, registry, queue, cached>>,
           \/ UNCHANGED job
           \/ OneDone(f) /\ job.svc = s
    PROVE  ShapeInv'
  <1>0. ASSUME NEW t PROVE Unqueued(t)' = Unqueued(t) /\ Offers(t)' = Offers(t)
                           /\ Discovered(t)' = Discovered(t)
    BY DEF Unqueued, Offers, Discovered
  <1>1. CacheCurrent'
    <2> SUFFICES ASSUME NEW t \in Service, NEW g \in Family, <<t, g>> \notin watch'
                 PROVE  SameAt(cached[t], slices'[t], g)
      BY DEF CacheCurrent, SameAt
    <2>1. <<t, g>> \notin watch /\ (t # s \/ g # f)
      OBVIOUS
    <2>2. SameAt(slices'[t], slices[t], g) /\ SameAt(cached[t], slices[t], g)
      BY <2>1 DEF OnlyAt, ShapeInv, CacheCurrent
    <2>3. QED  BY <2>2 DEF SameAt
  <1>2. Registered'
    BY <1>0 DEF ShapeInv, Registered
  <1>3. JobCurrent'
    <2> SUFFICES ASSUME job' # Idle, Unqueued(job.svc)' PROVE
          /\ job'.atts = Offers(job.svc)'
          /\ job'.podReady = {a \in Offers(job.svc)' : pods[a] = "ready"}
          /\ job'.todo \cup job'.half \cup DOMAIN job'.ready = Publishable(job'.atts)
      BY DEF JobCurrent
    <2>1. job # Idle /\ job'.svc = job.svc /\ job'.atts = job.atts /\ job'.podReady = job.podReady
          /\ job'.todo = job.todo /\ job'.half = job.half /\ job'.ready = job.ready
      BY JobIs DEF OneDone, SameTask
    <2>2. Unqueued(job.svc) /\ Offers(job.svc)' = Offers(job.svc)
      BY <2>1 DEF Unqueued, Offers, Discovered
    <2>3. QED  BY <2>1, <2>2 DEF ShapeInv, JobCurrent
  <1>4. HaveCurrent'
    <2> SUFFICES ASSUME job'.phase = "write", Unqueued(job.svc)', NEW g \in Family,
                        <<job'.svc, g>> \notin watch'
                 PROVE  SameAt(job'.have, slices'[job'.svc], g)
      BY DEF HaveCurrent
    <2>1. job.phase = "write" /\ job'.svc = job.svc /\ job'.have = job.have
      BY DEF OneDone, SameTask
    <2>2. job.svc \in Service
      BY <2>1, JobIs
    <2>3. Unqueued(job.svc) /\ <<job.svc, g>> \notin watch /\ (job.svc # s \/ g # f)
      BY <2>1 DEF Unqueued
    <2>4. SameAt(job.have, slices[job.svc], g)
      BY <2>1, <2>3 DEF ShapeInv, HaveCurrent
    <2>5. SameAt(slices'[job.svc], slices[job.svc], g)
      BY <2>2, <2>3 DEF OnlyAt
    <2>6. QED  BY <2>1, <2>4, <2>5 DEF SameAt
  <1>5. SlicesShaped'
    <2> SUFFICES ASSUME NEW t \in Service, NEW g \in Family, Unqueued(t)', Settled(t, g)'
                 PROVE  Shaped(t, g)'
      BY DEF SlicesShaped
    <2>1. t # s \/ g # f
      BY DEF Settled
    <2>2. Settled(t, g)
      BY <2>1 DEF Settled, OneDone, SameTask
    <2>3. SameAt(slices'[t], slices[t], g)
      BY <2>1 DEF OnlyAt
    <2>4. Shaped(t, g)
      BY <1>0, <2>2 DEF ShapeInv, SlicesShaped
    <2>5. QED  BY <1>0, <2>3, <2>4, ShapedStays
  <1>6. QED  BY <1>1, <1>2, <1>3, <1>4, <1>5 DEF ShapeInv

LEMMA InitShape == Init => ShapeInv
  <1> SUFFICES ASSUME Init PROVE ShapeInv
    OBVIOUS
  <1>1. \A s \in Service : ~Unqueued(s)
    BY DEF Init, Unqueued
  <1>2. CacheCurrent
    BY DEF Init, CacheCurrent, SameAt
  <1>3. QED
    BY <1>1, <1>2, IdleIs
    DEF Init, ShapeInv, Registered, JobCurrent, HaveCurrent, SlicesShaped

\* Steps that touch neither the cluster nor slices, the worker's own apart.
LEMMA SameSlicesShape ==
    ASSUME NEW s \in Service, NEW f \in Family, SlicesShaped, UNCHANGED <<services, pods, slices>>,
           Unqueued(s), Settled(s, f)
    PROVE  Shaped(s, f)'
  <1>1. Shaped(s, f)
    BY DEF SlicesShaped
  <1>2. Offers(s)' = Offers(s)
    BY WorldUnchanged
  <1>3. SameAt(slices'[s], slices[s], f)
    BY DEF SameAt
  <1>4. QED  BY <1>1, <1>2, <1>3, ShapedStays

\* The informer's copy catches up.
LEMMA SliceEventShape ==
    ASSUME Typed, ShapeInv, NEW s \in Service, NEW f \in Family, SliceEvent(s, f)
    PROVE  ShapeInv'
  <1>1. /\ watch' = watch \ {<<s, f>>} /\ queue' = queue \cup {s}
        /\ cached' = [cached EXCEPT ![s] = IF f \in DOMAIN slices[s]
                         THEN Put(cached[s], f, slices[s][f]) ELSE Drop(cached[s], {f})]
        /\ UNCHANGED <<services, pods, registry, job, slices>>
    BY DEF SliceEvent, worldVars, registryVars
  <1>2. ASSUME NEW t PROVE Discovered(t)' = Discovered(t) /\ Offers(t)' = Offers(t)
    BY <1>1, WorldUnchanged
  <1>3. ASSUME NEW t, Unqueued(t)' PROVE t # s /\ Unqueued(t)
    BY <1>1, <1>3 DEF Unqueued
  <1>4. CacheCurrent'
    <2> SUFFICES ASSUME NEW t \in Service, NEW g \in Family, <<t, g>> \notin watch'
                 PROVE  SameAt(cached'[t], slices[t], g)
      BY <1>1 DEF CacheCurrent
    <2>1. cached \in [Service -> SliceSet]
      BY DEF Typed
    <2>2. CASE t = s /\ g = f
      <3>1. CASE f \in DOMAIN slices[s]
        <4>1. cached'[s] = Put(cached[s], f, slices[s][f])
          BY <1>1, <2>1, <3>1
        <4>2. f \in DOMAIN cached'[s] /\ cached'[s][f] = slices[s][f]
          BY <4>1 DEF Put
        <4>3. QED  BY <2>2, <3>1, <4>2 DEF SameAt
      <3>2. CASE f \notin DOMAIN slices[s]
        <4>1. cached'[s] = Drop(cached[s], {f})
          BY <1>1, <2>1, <3>2
        <4>2. f \notin DOMAIN cached'[s]
          BY <4>1 DEF Drop
        <4>3. QED  BY <2>2, <3>2, <4>2 DEF SameAt
      <3>3. QED  BY <3>1, <3>2
    <2>3. CASE t # s \/ g # f
      <3>1. SameAt(cached[t], slices[t], g)
        BY <1>1, <2>3 DEF ShapeInv, CacheCurrent
      <3>2. SameAt(cached'[t], cached[t], g)
        <4>1. CASE t # s
          BY <1>1, <2>1, <4>1 DEF SameAt
        <4>2. CASE t = s /\ f \in DOMAIN slices[s]
          <5>1. cached'[s] = Put(cached[s], f, slices[s][f]) /\ g # f
            BY <1>1, <2>1, <2>3, <4>2
          <5>2. QED  BY <4>2, <5>1 DEF SameAt, Put
        <4>3. CASE t = s /\ f \notin DOMAIN slices[s]
          <5>1. cached'[s] = Drop(cached[s], {f}) /\ g # f
            BY <1>1, <2>1, <2>3, <4>3
          <5>2. QED  BY <4>3, <5>1 DEF SameAt, Drop
        <4>4. QED  BY <4>1, <4>2, <4>3
      <3>3. QED  BY <3>1, <3>2 DEF SameAt
    <2>4. QED  BY <2>2, <2>3
  <1>5. Registered'
    BY <1>1, <1>2, <1>3 DEF ShapeInv, Registered
  <1>6. JobCurrent'
    <2> SUFFICES ASSUME job # Idle, Unqueued(job.svc)' PROVE
          /\ job.atts = Offers(job.svc)'
          /\ job.podReady = {a \in Offers(job.svc)' : pods[a] = "ready"}
          /\ job.todo \cup job.half \cup DOMAIN job.ready = Publishable(job.atts)
      BY <1>1 DEF JobCurrent
    <2>1. Unqueued(job.svc) /\ Offers(job.svc)' = Offers(job.svc)
      BY <1>1 DEF Unqueued, Offers, Discovered
    <2>2. QED  BY <2>1 DEF ShapeInv, JobCurrent
  <1>7. HaveCurrent'
    <2> SUFFICES ASSUME job.phase = "write", Unqueued(job.svc)', NEW g \in Family,
                        <<job.svc, g>> \notin watch'
                 PROVE  SameAt(job.have, slices[job.svc], g)
      BY <1>1 DEF HaveCurrent
    <2>1. Unqueued(job.svc) /\ <<job.svc, g>> \notin watch
      BY <1>1 DEF Unqueued
    <2>2. QED  BY <2>1 DEF ShapeInv, HaveCurrent
  <1>8. SlicesShaped'
    <2> SUFFICES ASSUME NEW t \in Service, NEW g \in Family, Unqueued(t)', Settled(t, g)'
                 PROVE  Shaped(t, g)'
      BY DEF SlicesShaped
    <2>1. Unqueued(t) /\ t # s
      BY <1>3
    <2>2. Settled(t, g)
      BY <1>1, <2>1 DEF Settled
    <2>3. QED  BY <1>1, <2>1, <2>2, SameSlicesShape DEF ShapeInv
  <1>9. QED  BY <1>4, <1>5, <1>6, <1>7, <1>8 DEF ShapeInv

\* A reconcile begins, or finds its Service gone.
LEMMA BeginShape ==
    ASSUME Typed, ShapeInv, NEW s \in Service,
           ReconcileAbsent(s) \/ ReconcileUnmanaged(s) \/ ReconcileManaged(s)
    PROVE  ShapeInv'
  <1>1. /\ job = Idle /\ queue' = queue \ {s}
        /\ UNCHANGED <<services, pods, slices, cached, watch>>
    BY JobIs DEF ReconcileAbsent, ReconcileUnmanaged, ReconcileManaged, Taken, worldVars, sliceVars
  <1>2. ASSUME NEW t PROVE Discovered(t)' = Discovered(t) /\ Offers(t)' = Offers(t)
    BY <1>1, WorldUnchanged
  <1>3. ASSUME NEW t, Unqueued(t)', t # s PROVE Unqueued(t)
    BY <1>1, <1>3 DEF Unqueued
  <1>4. \/ ReconcileAbsent(s) /\ job' = Idle /\ ~Unqueued(s)' /\ services[s] = "absent"
        \/ Begun(s, Offers(s))
    BY <1>1, BeginsForm DEF ReconcileAbsent, Unqueued
  <1>5. Registered'
    <2> SUFFICES ASSUME NEW t \in Service, Unqueued(t)', services[t] = "managed"
                 PROVE  t \in DOMAIN registry' /\ registry'[t] = Discovered(t)
      BY <1>1, <1>2 DEF Registered
    <2>1. CASE t = s
      <3>1. registry' = Put(registry, s, Discovered(s))
        BY <2>1 DEF ReconcileAbsent, ReconcileUnmanaged, ReconcileManaged
      <3>2. QED  BY <2>1, <3>1 DEF Put
    <2>2. CASE t # s
      <3>1. t \in DOMAIN registry /\ registry[t] = Discovered(t)
        BY <1>3, <2>2 DEF ShapeInv, Registered
      <3>2. registry' = Put(registry, s, Discovered(s)) \/ registry' = Drop(registry, {s})
        BY DEF ReconcileAbsent, ReconcileUnmanaged, ReconcileManaged
      <3>3. QED  BY <2>2, <3>1, <3>2 DEF Put, Drop
    <2>3. QED  BY <2>1, <2>2
  <1>6. JobCurrent'
    <2> SUFFICES ASSUME job' # Idle PROVE
          /\ job'.atts = Offers(job.svc)'
          /\ job'.podReady = {a \in Offers(job.svc)' : pods'[a] = "ready"}
          /\ job'.todo \cup job'.half \cup DOMAIN job'.ready = Publishable(job'.atts)
      BY DEF JobCurrent
    <2>1. Begun(s, Offers(s))
      BY <1>4
    <2>2. Offers(job.svc)' = Offers(s)
      BY <1>1, <2>1 DEF Begun, Offers, Discovered
    <2>3. DOMAIN Empty = {}
      BY EmptyTyped
    <2>4. QED  BY <1>1, <2>1, <2>2, <2>3 DEF Begun
  <1>7. HaveCurrent'
    BY <1>4, IdleIs DEF HaveCurrent, Begun
  <1>8. SlicesShaped'
    <2> SUFFICES ASSUME NEW t \in Service, NEW g \in Family, Unqueued(t)', Settled(t, g)'
                 PROVE  Shaped(t, g)'
      BY DEF SlicesShaped
    <2>1. t # s
      BY <1>4 DEF Settled, Begun
    <2>2. Settled(t, g)
      BY <1>1, IdleIs DEF Settled
    <2>3. Unqueued(t)
      BY <1>3, <2>1
    <2>4. QED  BY <1>1, <2>2, <2>3, SameSlicesShape DEF ShapeInv
  <1>9. CacheCurrent'
    BY <1>1 DEF ShapeInv, CacheCurrent
  <1>10. QED  BY <1>5, <1>6, <1>7, <1>8, <1>9 DEF ShapeInv

\* The reads move attachments from one set to another.
LEMMA ReadShape ==
    ASSUME Typed, ShapeInv, NEW a \in Attachment, ReadLocal(a) \/ ReadPath(a)
    PROVE  ShapeInv'
  <1>1. UNCHANGED <<services, pods, registry, queue, slices, cached, watch>>
    BY DEF ReadLocal, ReadPath, worldVars, registryVars, sliceVars
  <1>2. /\ job \in Job /\ job' \in Job /\ SameTask
        /\ job.phase = "read" /\ job'.phase = "read"
    BY ReadLocalForm, ReadPathForm
  <1>3. job'.todo \cup job'.half \cup DOMAIN job'.ready = job.todo \cup job.half \cup DOMAIN job.ready
    <2>1. job.ready \in Readiness
      BY <1>2 DEF Job
    <2>2. CASE ReadLocal(a)
      <3>1. a \in job.todo
        BY <2>2 DEF ReadLocal
      <3>2. DOMAIN Put(job.ready, a, FALSE) = DOMAIN job.ready \cup {a}
        BY DEF Put
      <3>3. QED  BY <2>2, <3>1, <3>2, ReadLocalForm
    <2>3. CASE ReadPath(a)
      <3>1. a \in job.half
        BY <2>3 DEF ReadPath
      <3>2. DOMAIN Put(job.ready, a, PathHalf(a)) = DOMAIN job.ready \cup {a}
        BY DEF Put
      <3>3. QED  BY <2>3, <3>1, <3>2, ReadPathForm
    <2>4. QED  BY <2>2, <2>3
  <1>4. ASSUME NEW t PROVE Discovered(t)' = Discovered(t) /\ Offers(t)' = Offers(t)
                           /\ Unqueued(t)' = Unqueued(t)
    BY <1>1, WorldUnchanged DEF Unqueued
  <1>5. CacheCurrent'
    BY <1>1 DEF ShapeInv, CacheCurrent
  <1>6. Registered'
    BY <1>1, <1>4 DEF ShapeInv, Registered
  <1>7. JobCurrent'
    <2>1. Offers(job.svc)' = Offers(job.svc) /\ Unqueued(job.svc)' = Unqueued(job.svc) /\ job # Idle
      BY <1>1, <1>2, JobIs DEF SameTask, Offers, Discovered, Unqueued
    <2>2. QED  BY <1>1, <1>2, <1>3, <2>1 DEF ShapeInv, JobCurrent, SameTask
  <1>8. HaveCurrent'
    BY <1>2 DEF HaveCurrent
  <1>9. SlicesShaped'
    <2> SUFFICES ASSUME NEW t \in Service, NEW g \in Family, Unqueued(t)', Settled(t, g)'
                 PROVE  Shaped(t, g)'
      BY DEF SlicesShaped
    <2>1. Unqueued(t) /\ Settled(t, g)
      BY <1>1, <1>2, <1>4 DEF Settled, SameTask
    <2>2. QED  BY <1>1, <2>1, SameSlicesShape DEF ShapeInv
  <1>10. QED  BY <1>5, <1>6, <1>7, <1>8, <1>9 DEF ShapeInv

\* Where the informer's copy has no slice that is not wanted, there is none.
LEMMA ListShape ==
    ASSUME Typed, ShapeInv, ListSlices
    PROVE  ShapeInv'
  <1>1. UNCHANGED <<services, pods, registry, queue, slices, cached, watch>>
    BY DEF ListSlices, worldVars, registryVars, sliceVars
  <1>2. /\ job \in Job /\ SameTask
        /\ job'.phase = "write" /\ job.phase = "read"
        /\ job.todo = {} /\ job.half = {} /\ job'.todo = {} /\ job'.half = {}
        /\ job'.ready = job.ready
        /\ job'.have = cached[job.svc]
        /\ job'.left = Families(job.atts) \cup DOMAIN cached[job.svc]
    BY ListForm
  <1>3. job.svc \in Service /\ job # Idle
    BY <1>2, JobIs
  <1>4. ASSUME NEW t PROVE Discovered(t)' = Discovered(t) /\ Offers(t)' = Offers(t)
                           /\ Unqueued(t)' = Unqueued(t)
    BY <1>1, WorldUnchanged DEF Unqueued
  <1>5. CacheCurrent'
    BY <1>1 DEF ShapeInv, CacheCurrent
  <1>6. Registered'
    BY <1>1, <1>4 DEF ShapeInv, Registered
  <1>7. JobCurrent'
    <2>1. Offers(job.svc)' = Offers(job.svc) /\ Unqueued(job.svc)' = Unqueued(job.svc)
      BY <1>1, <1>2 DEF SameTask, Offers, Discovered, Unqueued
    <2>2. QED  BY <1>1, <1>2, <1>3, <2>1 DEF ShapeInv, JobCurrent, SameTask
  <1>8. HaveCurrent'
    <2> SUFFICES ASSUME NEW g \in Family, <<job'.svc, g>> \notin watch'
                 PROVE  SameAt(job'.have, slices'[job'.svc], g)
      BY DEF HaveCurrent
    <2>1. SameAt(cached[job.svc], slices[job.svc], g)
      BY <1>1, <1>2, <1>3 DEF ShapeInv, CacheCurrent, SameTask
    <2>2. QED  BY <1>1, <1>2, <2>1 DEF SameTask
  <1>9. SlicesShaped'
    <2> SUFFICES ASSUME NEW t \in Service, NEW g \in Family, Unqueued(t)', Settled(t, g)'
                 PROVE  Shaped(t, g)'
      BY DEF SlicesShaped
    <2>1. CASE t # job.svc
      <3>1. Unqueued(t) /\ Settled(t, g)
        BY <1>1, <1>4, <2>1 DEF Settled
      <3>2. QED  BY <1>1, <3>1, SameSlicesShape DEF ShapeInv
    <2>2. CASE t = job.svc
      <3>1. /\ g \notin Families(job.atts) /\ g \notin DOMAIN cached[t]
            /\ <<t, g>> \notin watch
        BY <1>1, <1>2, <2>2 DEF Settled, SameTask
      <3>2. g \notin DOMAIN slices[t]
        BY <3>1 DEF ShapeInv, CacheCurrent, SameAt
      <3>3. job.atts = Offers(t)
        BY <1>3, <1>4, <2>2 DEF ShapeInv, JobCurrent
      <3>4. QED  BY <1>1, <1>4, <3>1, <3>2, <3>3 DEF Shaped
    <2>3. QED  BY <2>1, <2>2
  <1>10. QED  BY <1>5, <1>6, <1>7, <1>8, <1>9 DEF ShapeInv

\* What a skipped slice is: as the copy has it, unless something is on its way.
LEMMA SkippedIs ==
    ASSUME Typed, ShapeInv, NEW f \in Family, OneDone(f), SliceSkipped(f),
           Unqueued(job.svc), <<job.svc, f>> \notin watch
    PROVE  \/ /\ f \notin DOMAIN slices[job.svc]
              /\ f \notin Families(Offers(job.svc))
           \/ /\ f \in DOMAIN slices[job.svc]
              /\ f \in Families(Offers(job.svc))
              /\ slices[job.svc][f] = InFamily(job.ready, f)
              /\ job.ready \in Readiness
              /\ DOMAIN job.ready = Publishable(Offers(job.svc))
  <1>1. job \in Job /\ job # Idle /\ job.phase = "write" /\ job.todo = {} /\ job.half = {}
    BY JobIs DEF OneDone
  <1>2. SameAt(job.have, slices[job.svc], f)
    BY <1>1 DEF ShapeInv, HaveCurrent
  <1>3. job.atts = Offers(job.svc) /\ DOMAIN job.ready = Publishable(job.atts)
    BY <1>1 DEF ShapeInv, JobCurrent
  <1>4. job.ready \in Readiness
    BY <1>1 DEF Job
  <1>5. CASE UpToDate(f)
    BY <1>2, <1>3, <1>4, <1>5 DEF UpToDate, Wanted, SameAt
  <1>6. CASE ~UpToDate(f)
    BY <1>2, <1>3, <1>6 DEF SliceSkipped, Wanted, SameAt
  <1>7. QED  BY <1>5, <1>6

LEMMA WriteShape ==
    ASSUME Typed, ShapeInv, NEW f \in Family, WriteStep(f)
    PROVE  ShapeInv'
  <1>1. /\ f \in job.left /\ Done(f) /\ OneDone(f)
        /\ SlicePut(f) \/ SliceDropped(f) \/ SliceSkipped(f)
    BY WriteForm
  <1>2. UNCHANGED <<services, pods, registry, queue, cached>>
    BY <1>1 DEF Done, worldVars, registryVars
  <1>3. job \in Job /\ job.svc \in Service /\ job # Idle
    BY <1>1, JobIs DEF OneDone
  <1>4. CASE SlicePut(f) \/ SliceDropped(f)
    <2>1. OnlyAt(job.svc, f) /\ watch' = watch \cup {<<job.svc, f>>}
      BY <1>3, <1>4, WritesOnlyAt DEF SlicePut, SliceDropped
    <2>2. QED  BY <1>1, <1>2, <1>3, <2>1, ChangeShape
  <1>5. CASE SliceSkipped(f)
    <2>1. UNCHANGED <<slices, watch>>
      BY <1>5 DEF SliceSkipped
    <2>2. ASSUME NEW t PROVE Discovered(t)' = Discovered(t) /\ Offers(t)' = Offers(t)
                             /\ Unqueued(t)' = Unqueued(t)
      BY <1>2, WorldUnchanged DEF Unqueued
    <2>3. CacheCurrent'
      BY <1>2, <2>1 DEF ShapeInv, CacheCurrent
    <2>4. Registered'
      BY <1>2, <2>2 DEF ShapeInv, Registered
    <2>5. Offers(job.svc)' = Offers(job.svc) /\ Unqueued(job.svc)' = Unqueued(job.svc)
      BY <1>1, <1>2 DEF OneDone, SameTask, Offers, Discovered, Unqueued
    <2>6. JobCurrent'
      BY <1>1, <1>2, <1>3, <2>5 DEF ShapeInv, JobCurrent, SameTask, OneDone
    <2>7. HaveCurrent'
      BY <1>1, <2>1, <2>5 DEF ShapeInv, HaveCurrent, SameTask, OneDone
    <2>8. SlicesShaped'
      <3> SUFFICES ASSUME NEW t \in Service, NEW g \in Family, Unqueued(t)', Settled(t, g)'
                   PROVE  Shaped(t, g)'
        BY DEF SlicesShaped
      <3>1. CASE t # job.svc \/ g # f
        <4>1. Unqueued(t) /\ Settled(t, g)
          BY <1>1, <2>1, <2>2, <3>1 DEF Settled, OneDone, SameTask
        <4>2. QED  BY <1>2, <2>1, <4>1, SameSlicesShape DEF ShapeInv
      <3>2. CASE t = job.svc /\ g = f
        <4>1. Unqueued(job.svc) /\ <<job.svc, f>> \notin watch
          BY <2>1, <2>2, <3>2 DEF Settled
        <4>2. Shaped(t, g)
          <5>1. CASE f \notin DOMAIN slices[job.svc]
            BY <1>1, <1>5, <3>2, <4>1, <5>1, SkippedIs DEF Shaped
          <5>2. CASE f \in DOMAIN slices[job.svc]
            <6>1. /\ f \in Families(Offers(job.svc))
                  /\ slices[job.svc][f] = InFamily(job.ready, f)
                  /\ job.ready \in Readiness
                  /\ DOMAIN job.ready = Publishable(Offers(job.svc))
              BY <1>1, <1>5, <4>1, <5>2, SkippedIs
            <6>2. DOMAIN slices[job.svc][f] = OfFamily(Publishable(Offers(job.svc)), f)
              BY <6>1, InFamilyReadiness
            <6>3. QED  BY <3>2, <5>2, <6>1, <6>2 DEF Shaped
          <5>3. QED  BY <5>1, <5>2
        <4>3. SameAt(slices'[t], slices[t], g)
          BY <2>1 DEF SameAt
        <4>4. QED  BY <2>2, <4>2, <4>3, ShapedStays
      <3>3. QED  BY <3>1, <3>2
    <2>9. QED  BY <2>3, <2>4, <2>6, <2>7, <2>8 DEF ShapeInv
  <1>6. QED  BY <1>1, <1>4, <1>5

\* A reconcile ends: its Service is queued again, or every slice has had its turn.
LEMMA EndShape ==
    ASSUME Typed, ShapeInv, WriteFails \/ Finish
    PROVE  ShapeInv'
  <1>1. /\ job' = Idle /\ job \in Job /\ job.svc \in Service /\ job.phase = "write"
        /\ \/ queue' = queue \cup {job.svc}
           \/ queue' = queue /\ job.left = {}
        /\ UNCHANGED <<services, pods, registry, slices, cached, watch>>
    BY JobIs DEF WriteFails, Finish, worldVars, registryVars, sliceVars
  <1>2. ASSUME NEW t PROVE Discovered(t)' = Discovered(t) /\ Offers(t)' = Offers(t)
                           /\ (Unqueued(t)' => Unqueued(t))
    BY <1>1, WorldUnchanged DEF Unqueued
  <1>3. CacheCurrent'
    BY <1>1 DEF ShapeInv, CacheCurrent
  <1>4. Registered'
    BY <1>1, <1>2 DEF ShapeInv, Registered
  <1>5. JobCurrent' /\ HaveCurrent'
    BY <1>1, IdleIs DEF JobCurrent, HaveCurrent
  <1>6. SlicesShaped'
    <2> SUFFICES ASSUME NEW t \in Service, NEW g \in Family, Unqueued(t)', Settled(t, g)'
                 PROVE  Shaped(t, g)'
      BY DEF SlicesShaped
    <2>1. Unqueued(t)
      BY <1>2
    <2>2. Settled(t, g)
      BY <1>1 DEF Settled, Unqueued
    <2>3. QED  BY <1>1, <2>1, <2>2, SameSlicesShape DEF ShapeInv
  <1>7. QED  BY <1>3, <1>4, <1>5, <1>6 DEF ShapeInv

LEMMA StepShape == Typed /\ Flags /\ ShapeInv /\ [Next]_vars => ShapeInv'
  <1> SUFFICES ASSUME Typed, Flags, ShapeInv, [Next]_vars PROVE ShapeInv'
    OBVIOUS
  <1>1. ASSUME UNCHANGED <<services, pods, registry, job, slices, cached, watch>>,
               queue \subseteq queue'
        PROVE  ShapeInv'
    <2>1. \A t \in Service : SameWorld(t)
      BY <1>1, WorldUnchanged
    <2>2. QED  BY <1>1, <2>1, QueueingShape
  <1>2. CASE StoreStep
    BY <1>1, <1>2, StoreSteps DEF StoreStepOK, restVars
  <1>3. ASSUME \/ \E s \in Service, state \in ServiceState : ServiceEvent(s, state)
               \/ \E a \in Attachment, state \in PodState : PodEvent(a, state)
        PROVE  ShapeInv'
    <2>1. \A t \in Service : SameWorld(t)
      BY <1>3, EventSameWorld
    <2>2. UNCHANGED <<registry, job, slices, cached, watch>>
      BY <1>3 DEF ServiceEvent, PodEvent, registryVars, sliceVars
    <2>3. QED  BY <2>1, <2>2, QueueingShape
  <1>4. ASSUME NEW s \in Service, NEW f \in Family, SliceEvent(s, f)
        PROVE  ShapeInv'
    BY <1>4, SliceEventShape
  <1>5. ASSUME NEW s \in Service, NEW f \in Family, SliceDeleted(s, f)
        PROVE  ShapeInv'
    <2>1. /\ slices' = [slices EXCEPT ![s] = Drop(slices[s], {f})]
          /\ watch' = watch \cup {<<s, f>>}
          /\ UNCHANGED <<services, pods, registry, queue, job, cached>>
      BY <1>5 DEF SliceDeleted, worldVars, registryVars
    <2> DEFINE x == Drop(slices[s], {f})
    <2>2. /\ x \in SliceSet /\ DOMAIN x = DOMAIN slices[s] \ {f}
          /\ \A g \in DOMAIN slices[s] : g # f => x[g] = slices[s][g]
      BY DropSlice DEF Typed
    <2>3. slices' = [slices EXCEPT ![s] = x]
      BY <2>1
    <2> HIDE DEF x
    <2>4. \A g \in Family : g # f => SameAt(x, slices[s], g)
      BY <2>2 DEF SameAt
    <2>5. OnlyAt(s, f)
      BY <2>2, <2>3, <2>4, OnlyAtOne
    <2>6. QED  BY <2>1, <2>5, ChangeShape
  <1>6. ASSUME NEW s \in Service, ChannelPump(s)
        PROVE  ShapeInv'
    BY <1>1, <1>6 DEF ChannelPump, worldVars, registryVars, sliceVars
  <1>7. ASSUME NEW s \in Service,
               ReconcileAbsent(s) \/ ReconcileUnmanaged(s) \/ ReconcileManaged(s)
        PROVE  ShapeInv'
    BY <1>7, BeginShape
  <1>8. ASSUME NEW a \in Attachment, ReadLocal(a) \/ ReadPath(a)
        PROVE  ShapeInv'
    BY <1>8, ReadShape
  <1>9. ASSUME NEW f \in Family, WriteStep(f)
        PROVE  ShapeInv'
    BY <1>9, WriteShape
  <1>10. CASE Restart
    <2>1. \A s \in Service : ~Unqueued(s)'
      BY <1>10 DEF Restart, Unqueued, worldVars
    <2>2. CacheCurrent'
      BY <1>10 DEF Restart, CacheCurrent, SameAt
    <2>3. job' = Idle
      BY <1>10 DEF Restart
    <2>4. QED
      BY <2>1, <2>2, <2>3, IdleIs
      DEF ShapeInv, Registered, JobCurrent, HaveCurrent, SlicesShaped
  <1>11. CASE UNCHANGED vars
    BY <1>1, <1>11 DEF vars
  <1>12. QED
    BY <1>2, <1>3, <1>4, <1>5, <1>6, <1>7, <1>8, <1>9, <1>10, <1>11, ListShape, EndShape, Zenon
    DEF Next, Cluster, Worker, StoreStep, WriteStep

\* With nothing on its way for a Service, the worker and the informer have no business
\* with its slices, so they have their shape.
LEMMA NotOwed ==
    ASSUME Typed, NEW s \in Service, services[s] # "absent", ~Owed(s)
    PROVE  Unqueued(s) /\ events[s] = 0 /\ \A f \in Family : Settled(s, f)
  BY DEF Owed, Pending, Unqueued, Settled, Typed

\* Of two claimants of an address, which are of one family, neither is publishable.
LEMMA NoContestedPublishable ==
    ASSUME NEW A \in SUBSET Attachment, NEW a \in Publishable(A), NEW b \in A \ {a}
    PROVE  AddressOf[b] # AddressOf[a]
  <1>1. PICK f \in Families(A) : a \in Truncated(DropConflicting({c \in A : FamilyOf[c] = f}))
    BY DEF Publishable
  <1>2. /\ a \in A /\ FamilyOf[a] = f
        /\ \A c \in {d \in A : FamilyOf[d] = f} \ {a} : AddressOf[c] # AddressOf[a]
    BY <1>1 DEF Truncated, DropConflicting
  <1>3. AddressOf[b] = AddressOf[a] => FamilyOf[b] = FamilyOf[a]
    BY <1>2, PublicationAssumption
  <1>4. QED  BY <1>2, <1>3

LEMMA ShapeImplies == Typed /\ ShapeInv => ContestedWithheld
  <1> SUFFICES ASSUME Typed, ShapeInv, NEW s \in Service, services[s] = "managed", ~Owed(s),
                      NEW f \in DOMAIN slices[s], NEW a \in DOMAIN slices[s][f],
                      NEW b \in Discovered(s) \ {a}
               PROVE  AddressOf[b] # AddressOf[a]
    BY DEF ContestedWithheld
  <1>1. f \in Family
    BY SliceSetIs DEF Typed
  <1>2. Shaped(s, f) /\ Offers(s) = Discovered(s)
    BY <1>1, NotOwed DEF ShapeInv, SlicesShaped, Offers
  <1>3. a \in Publishable(Discovered(s))
    BY <1>2 DEF Shaped, OfFamily
  <1>4. Discovered(s) \in SUBSET Attachment
    BY OffersTyped
  <1>5. QED  BY <1>3, <1>4, NoContestedPublishable

\* An address that two Pods of a Service claim is not published for either of them, once
\* the Service has been dealt with: whatever writes failed, whatever copies lagged, and
\* whether or not notifications of evidence were lost.
THEOREM ContestedNeverPublished == Spec => []ContestedWithheld
  <1>1. Init => Typed /\ Flags /\ ShapeInv
    BY InitTyped, InitShape
  <1>2. Typed /\ Flags /\ ShapeInv /\ [Next]_vars => (Typed /\ Flags /\ ShapeInv)'
    BY StepTyped, StepShape
  <1>3. QED  BY <1>1, <1>2, ShapeImplies, PTL DEF Spec

-----------------------------------------------------------------------------
(* The truth of what is published. *)

\* t is not left quiet, or it was and the evidence about what it offers is the same.
SameTruth(t) ==
    Quiet(t)' =>
        /\ Quiet(t)
        /\ \A a \in Discovered(t) :
             /\ ReadyNow(a)' = ReadyNow(a)
             /\ LocalHalf(a, {a})' = LocalHalf(a, {a})
             /\ pods'[a] = "ready" <=> pods[a] = "ready"

LEMMA StoreTruth ==
    ASSUME Typed, ShapeInv, StoreStepOK, NEW t \in Service
    PROVE  SameTruth(t)
  <1> SUFFICES ASSUME Quiet(t)' PROVE
        /\ Quiet(t)
        /\ \A a \in Discovered(t) :
             /\ ReadyNow(a)' = ReadyNow(a)
             /\ LocalHalf(a, {a})' = LocalHalf(a, {a})
             /\ pods'[a] = "ready" <=> pods[a] = "ready"
    BY DEF SameTruth
  <1>1. UNCHANGED <<services, pods, registry, queue>>
    BY DEF StoreStepOK, restVars
  <1>2. Unqueued(t) /\ services[t] = "managed"
    BY <1>1 DEF Quiet, Unqueued
  <1>3. t \in DOMAIN registry /\ registry[t] = Discovered(t)
    BY <1>2 DEF ShapeInv, Registered
  <1>4. StillQuiet(t)
    BY <1>1, <1>2, <1>3 DEF StillQuiet, Quiet, Lapses, Unqueued
  <1>5. Undisturbed(t)
    BY <1>4 DEF StoreStepOK
  <1>6. ~Lapses(t)
    BY <1>4, <1>5 DEF StillQuiet, Lapses, Undisturbed, Kept
  <1>7. Quiet(t)
    BY <1>2, <1>4, <1>6 DEF Quiet, StillQuiet, StoreStepOK
  <1>8. ASSUME NEW a \in Discovered(t)
        PROVE  /\ StateOf(local', a) = StateOf(local, a)
               /\ StateOf(path', PathKeyOf[a]) = StateOf(path, PathKeyOf[a])
    BY <1>3, <1>5 DEF Undisturbed, Kept
  <1>9. QED  BY <1>1, <1>7, <1>8 DEF ReadyNow, LocalHalf, PathHalf

\* Steps that leave the store, the channel and the records of losses alone.
LEMMA OtherTruth ==
    ASSUME Typed, NEW t \in Service, SameWorld(t), UNCHANGED <<local, path>>,
           Unqueued(t)' => events'[t] = events[t],
           t \in dropped' \cup silenced' <=> t \in dropped \cup silenced,
           registry'[t] = registry[t]
    PROVE  SameTruth(t)
  <1> SUFFICES ASSUME Quiet(t)' PROVE
        /\ Quiet(t)
        /\ \A a \in Discovered(t) :
             /\ ReadyNow(a)' = ReadyNow(a)
             /\ LocalHalf(a, {a})' = LocalHalf(a, {a})
             /\ pods'[a] = "ready" <=> pods[a] = "ready"
    BY DEF SameTruth
  <1>1. Unqueued(t)'
    BY DEF Quiet
  <1>2. /\ Unqueued(t) /\ services[t] = "managed" /\ events[t] = 0
        /\ t \notin dropped \cup silenced
        /\ {a \in Offers(t) : pods'[a] = "ready"} = {a \in Offers(t) : pods[a] = "ready"}
    BY <1>1 DEF Quiet, SameWorld
  <1>3. ~Lapses(t)
    BY DEF Quiet, Lapses
  <1>4. Quiet(t)
    BY <1>2, <1>3 DEF Quiet
  <1>5. \A a \in Discovered(t) : pods'[a] = "ready" <=> pods[a] = "ready"
    BY <1>2 DEF Offers
  <1>6. QED  BY <1>4, <1>5 DEF ReadyNow, LocalHalf, PathHalf

\* What a Service publishes and what its reconcile has read is about what it offers.
LEMMA AboutOffered ==
    ASSUME Typed, ShapeInv, NEW s \in Service, Quiet(s)
    PROVE  /\ Offers(s) = Discovered(s)
           /\ \A f \in Family : Settled(s, f) /\ f \in DOMAIN slices[s] =>
                  DOMAIN slices[s][f] \subseteq Discovered(s)
           /\ job.svc = s => /\ job.half \subseteq Discovered(s)
                             /\ DOMAIN job.ready \subseteq Discovered(s)
                             /\ job.todo \subseteq Discovered(s)
                             /\ job.podReady = {a \in Discovered(s) : pods[a] = "ready"}
  <1>1. Unqueued(s) /\ Offers(s) = Discovered(s)
    BY DEF Quiet, Offers
  <1>2. Publishable(Offers(s)) \subseteq Offers(s)
    BY OffersTyped
  <1>3. ASSUME NEW f \in Family, Settled(s, f), f \in DOMAIN slices[s]
        PROVE  DOMAIN slices[s][f] \subseteq Discovered(s)
    BY <1>1, <1>2, <1>3 DEF ShapeInv, SlicesShaped, Shaped, OfFamily
  <1>4. ASSUME job.svc = s
        PROVE  /\ job.half \subseteq Discovered(s)
               /\ DOMAIN job.ready \subseteq Discovered(s)
               /\ job.todo \subseteq Discovered(s)
               /\ job.podReady = {a \in Discovered(s) : pods[a] = "ready"}
    <2>1. job # Idle
      BY <1>4, IdleIs
    <2>2. /\ job.atts = Offers(s)
          /\ job.podReady = {a \in Offers(s) : pods[a] = "ready"}
          /\ job.todo \cup job.half \cup DOMAIN job.ready = Publishable(job.atts)
      BY <1>1, <1>4, <2>1 DEF ShapeInv, JobCurrent
    <2>3. QED  BY <1>1, <1>2, <2>2
  <1>5. QED  BY <1>1, <1>3, <1>4

\* A settled slice that is not touched.
LEMMA SliceTruthStays ==
    ASSUME Typed, ShapeInv, SlicesTrue, NEW t \in Service, NEW g \in Family,
           SameTruth(t), Quiet(t)', Settled(t, g),
           SameAt(slices'[t], slices[t], g), g \in DOMAIN slices'[t]
    PROVE  \A a \in DOMAIN slices'[t][g] : slices'[t][g][a] = ReadyNow(a)'
  <1>1. /\ Quiet(t)
        /\ \A a \in Discovered(t) : ReadyNow(a)' = ReadyNow(a)
    BY DEF SameTruth
  <1>2. g \in DOMAIN slices[t] /\ slices'[t][g] = slices[t][g]
    BY DEF SameAt
  <1>3. \A a \in DOMAIN slices[t][g] : slices[t][g][a] = ReadyNow(a)
    BY <1>1, <1>2 DEF SlicesTrue
  <1>4. DOMAIN slices[t][g] \subseteq Discovered(t)
    BY <1>1, <1>2, AboutOffered
  <1> HIDE DEF ReadyNow
  <1>5. QED  BY <1>1, <1>2, <1>3, <1>4

\* The reads of a reconcile that is not touched.
LEMMA ReadsStay ==
    ASSUME Typed, ShapeInv, ReadsTrue, \A t \in Service : SameTruth(t),
           job'.svc = job.svc, job'.half = job.half, job'.ready = job.ready,
           job' # Idle => job # Idle
    PROVE  ReadsTrue'
  <1> SUFFICES ASSUME job' # Idle, Quiet(job.svc)' PROVE
        /\ \A a \in job.half : pods'[a] = "ready" /\ LocalHalf(a, {a})'
        /\ \A a \in DOMAIN job.ready : job.ready[a] = ReadyNow(a)'
    BY DEF ReadsTrue
  <1>1. job # Idle /\ job.svc \in Service
    BY JobIs
  <1>2. PICK t \in Service : t = job.svc
    BY <1>1
  <1>3. Quiet(t)'
    BY <1>2 DEF Quiet, Unqueued, Lapses
  <1>4. /\ Quiet(t)
        /\ \A a \in Discovered(t) :
             /\ ReadyNow(a)' = ReadyNow(a)
             /\ LocalHalf(a, {a})' = LocalHalf(a, {a})
             /\ pods'[a] = "ready" <=> pods[a] = "ready"
    BY <1>3 DEF SameTruth
  <1>5. job.half \subseteq Discovered(t) /\ DOMAIN job.ready \subseteq Discovered(t)
    BY <1>2, <1>4, AboutOffered
  <1>6. /\ \A a \in job.half : pods[a] = "ready" /\ LocalHalf(a, {a})
        /\ \A a \in DOMAIN job.ready : job.ready[a] = ReadyNow(a)
    BY <1>1, <1>2, <1>4 DEF ReadsTrue
  <1>7. QED  BY <1>4, <1>5, <1>6

\* Steps that leave the slices and the reconcile alone.
LEMMA AloneTruth ==
    ASSUME Typed, ShapeInv, ReadsTrue, SlicesTrue, \A t \in Service : SameTruth(t),
           UNCHANGED <<job, slices, watch>>
    PROVE  ReadsTrue' /\ SlicesTrue'
  <1>1. ReadsTrue'
    BY ReadsStay
  <1>2. SlicesTrue'
    <2> SUFFICES ASSUME NEW t \in Service, NEW g \in Family, Quiet(t)', Settled(t, g)',
                        g \in DOMAIN slices'[t]
                 PROVE  \A a \in DOMAIN slices'[t][g] : slices'[t][g][a] = ReadyNow(a)'
      BY DEF SlicesTrue
    <2>1. Settled(t, g)
      BY DEF Settled
    <2>2. SameAt(slices'[t], slices[t], g)
      BY DEF SameAt
    <2>3. QED  BY <2>1, <2>2, SliceTruthStays
  <1>3. QED  BY <1>1, <1>2

\* The worker's steps in the middle of a reconcile, and slice events.
LEMMA NoEvidenceTouched ==
    ASSUME Typed, UNCHANGED <<services, pods, local, path, registry, events, dropped, silenced>>,
           queue \subseteq queue'
    PROVE  \A t \in Service : SameTruth(t)
  BY WorldUnchanged, OtherTruth

LEMMA SliceEventTruth ==
    ASSUME Typed, ShapeInv, ReadsTrue, SlicesTrue,
           NEW s \in Service, NEW f \in Family, SliceEvent(s, f)
    PROVE  ReadsTrue' /\ SlicesTrue'
  <1>1. /\ watch' = watch \ {<<s, f>>} /\ queue' = queue \cup {s}
        /\ UNCHANGED <<services, pods, local, path, registry, events, dropped, silenced, job, slices>>
    BY DEF SliceEvent, worldVars, storeVars, registryVars, notifyVars
  <1>2. \A t \in Service : SameTruth(t)
    BY <1>1, NoEvidenceTouched
  <1>3. ReadsTrue'
    BY <1>1, <1>2, ReadsStay
  <1>4. SlicesTrue'
    <2> SUFFICES ASSUME NEW t \in Service, NEW g \in Family, Quiet(t)', Settled(t, g)',
                        g \in DOMAIN slices'[t]
                 PROVE  \A a \in DOMAIN slices'[t][g] : slices'[t][g][a] = ReadyNow(a)'
      BY DEF SlicesTrue
    <2>1. t # s
      BY <1>1 DEF Quiet, Unqueued
    <2>2. Settled(t, g)
      BY <1>1, <2>1 DEF Settled
    <2>3. SameAt(slices'[t], slices[t], g)
      BY <1>1 DEF SameAt
    <2>4. QED  BY <1>2, <2>2, <2>3, SliceTruthStays
  <1>5. QED  BY <1>3, <1>4

\* The slice at <<s, f>> changes: it is then on its way to the informer.
LEMMA ChangeTruth ==
    ASSUME Typed, ShapeInv, ReadsTrue, SlicesTrue, NEW s \in Service, NEW f \in Family,
           OnlyAt(s, f), watch' = watch \cup {<<s, f>>},
           UNCHANGED <<services, pods, local, path, registry, events, dropped, silenced, queue>>,
           \/ UNCHANGED job
           \/ OneDone(f) /\ job.svc = s
    PROVE  ReadsTrue' /\ SlicesTrue'
  <1>1. \A t \in Service : SameTruth(t)
    BY NoEvidenceTouched
  <1>2. ReadsTrue'
    <2>1. job'.svc = job.svc /\ job'.half = job.half /\ job'.ready = job.ready
          /\ (job' # Idle => job # Idle)
      BY JobIs DEF OneDone, SameTask
    <2>2. QED  BY <1>1, <2>1, ReadsStay
  <1>3. SlicesTrue'
    <2> SUFFICES ASSUME NEW t \in Service, NEW g \in Family, Quiet(t)', Settled(t, g)',
                        g \in DOMAIN slices'[t]
                 PROVE  \A a \in DOMAIN slices'[t][g] : slices'[t][g][a] = ReadyNow(a)'
      BY DEF SlicesTrue
    <2>1. t # s \/ g # f
      BY DEF Settled
    <2>2. Settled(t, g)
      BY <2>1 DEF Settled, OneDone, SameTask
    <2>3. SameAt(slices'[t], slices[t], g)
      BY <2>1 DEF OnlyAt
    <2>4. QED  BY <1>1, <2>2, <2>3, SliceTruthStays
  <1>4. QED  BY <1>2, <1>3

LEMMA BeginTruth ==
    ASSUME Typed, ShapeInv, ReadsTrue, SlicesTrue, NEW s \in Service,
           ReconcileAbsent(s) \/ ReconcileUnmanaged(s) \/ ReconcileManaged(s)
    PROVE  ReadsTrue' /\ SlicesTrue'
  <1>1. /\ job = Idle /\ queue' = queue \ {s}
        /\ dropped' = dropped \ {s} /\ silenced' = silenced \ {s}
        /\ registry' = Put(registry, s, Discovered(s)) \/ registry' = Drop(registry, {s})
        /\ UNCHANGED <<services, pods, local, path, events, slices, watch>>
    BY JobIs DEF ReconcileAbsent, ReconcileUnmanaged, ReconcileManaged, Taken, worldVars,
                 storeVars, registryVars, sliceVars
  <1>2. \/ job' = Idle /\ ~Unqueued(s)'
        \/ Begun(s, Offers(s))
    BY <1>1, BeginsForm DEF ReconcileAbsent, Unqueued
  <1>3. ReadsTrue'
    <2>1. CASE job' = Idle
      BY <2>1 DEF ReadsTrue
    <2>2. CASE Begun(s, Offers(s))
      <3>1. job'.half = {} /\ DOMAIN job'.ready = {}
        BY <2>2, EmptyTyped DEF Begun
      <3>2. QED  BY <3>1 DEF ReadsTrue
    <2>3. QED  BY <1>2, <2>1, <2>2
  <1>4. SlicesTrue'
    <2> SUFFICES ASSUME NEW t \in Service, NEW g \in Family, Quiet(t)', Settled(t, g)',
                        g \in DOMAIN slices'[t]
                 PROVE  \A a \in DOMAIN slices'[t][g] : slices'[t][g][a] = ReadyNow(a)'
      BY DEF SlicesTrue
    <2>1. t # s
      BY <1>2 DEF Settled, Begun, Quiet
    <2>2. Settled(t, g)
      BY <1>1, IdleIs DEF Settled
    <2>3. SameAt(slices'[t], slices[t], g)
      BY <1>1 DEF SameAt
    <2>4. SameTruth(t)
      <3>1. SameWorld(t)
        BY <1>1, <2>1, WorldUnchanged
      <3>2. Unqueued(t) /\ services[t] = "managed"
        BY <1>1, <2>1 DEF Quiet, Unqueued
      <3>3. t \in DOMAIN registry
        BY <3>2 DEF ShapeInv, Registered
      <3>4. registry'[t] = registry[t]
        BY <1>1, <2>1, <3>3 DEF Put, Drop
      <3>5. t \in dropped' \cup silenced' <=> t \in dropped \cup silenced
        BY <1>1, <2>1
      <3>6. QED  BY <1>1, <3>1, <3>4, <3>5, OtherTruth
    <2>5. QED  BY <2>2, <2>3, <2>4, SliceTruthStays
  <1>5. QED  BY <1>3, <1>4

\* ComputeReady's two reads, each true when it is made and, while the Service stays quiet,
\* still true at the second.
LEMMA ReadTruth ==
    ASSUME Typed, ShapeInv, ReadsTrue, SlicesTrue, NEW a \in Attachment,
           ReadLocal(a) \/ ReadPath(a)
    PROVE  ReadsTrue' /\ SlicesTrue'
  <1>1. UNCHANGED <<services, pods, local, path, registry, events, dropped, silenced, queue,
                    slices, watch>>
    BY DEF ReadLocal, ReadPath, worldVars, storeVars, registryVars, notifyVars, sliceVars
  <1>2. /\ job \in Job /\ SameTask
        /\ job.phase = "read" /\ job'.phase = "read"
    BY ReadLocalForm, ReadPathForm
  <1>3. job.svc \in Service /\ job # Idle /\ job.ready \in Readiness
    BY <1>2, JobIs DEF Job
  <1>4. \A t \in Service : SameTruth(t)
    BY <1>1, NoEvidenceTouched
  <1>5. ReadsTrue'
    <2> SUFFICES ASSUME Quiet(job.svc)' PROVE
          /\ \A b \in job'.half : pods'[b] = "ready" /\ LocalHalf(b, {b})'
          /\ \A b \in DOMAIN job'.ready : job'.ready[b] = ReadyNow(b)'
      BY DEF ReadsTrue
    <2>1. Quiet(job.svc)
      BY <1>1, <1>2 DEF Quiet, Unqueued, Lapses, SameTask
    <2>2. /\ \A b \in job.half : pods[b] = "ready" /\ LocalHalf(b, {b})
          /\ \A b \in DOMAIN job.ready : job.ready[b] = ReadyNow(b)
      BY <1>3, <2>1 DEF ReadsTrue
    <2>3. /\ job.todo \subseteq Discovered(job.svc)
          /\ job.podReady = {b \in Discovered(job.svc) : pods[b] = "ready"}
      BY <1>3, <2>1, AboutOffered
    <2>4. ASSUME NEW b PROVE ReadyNow(b)' = ReadyNow(b) /\ LocalHalf(b, {b})' = LocalHalf(b, {b})
      BY <1>1 DEF ReadyNow, LocalHalf, PathHalf
    <2>5. CASE ReadLocal(a)
      <3>1. a \in Discovered(job.svc)
        BY <2>3, <2>5 DEF ReadLocal
      <3>2. CASE LocalHalf(a, job.podReady)
        <4>1. job'.half = job.half \cup {a} /\ job'.ready = job.ready
          BY <2>5, <3>2, ReadLocalForm
        <4>2. pods[a] = "ready" /\ LocalHalf(a, {a})
          BY <2>3, <3>2 DEF LocalHalf
        <4>3. QED  BY <1>1, <2>2, <2>4, <4>1, <4>2
      <3>3. CASE ~LocalHalf(a, job.podReady)
        <4>1. job'.half = job.half /\ job'.ready = Put(job.ready, a, FALSE)
          BY <2>5, <3>3, ReadLocalForm
        <4>2. ReadyNow(a) = FALSE
          BY <2>3, <3>1, <3>3 DEF LocalHalf, ReadyNow
        <4>3. /\ DOMAIN job'.ready = DOMAIN job.ready \cup {a}
              /\ job'.ready[a] = FALSE
              /\ \A b \in DOMAIN job.ready : b # a => job'.ready[b] = job.ready[b]
          <5> DEFINE r == Put(job.ready, a, FALSE)
          <5>1. /\ DOMAIN r = DOMAIN job.ready \cup {a}
                /\ r[a] = FALSE
                /\ \A b \in DOMAIN job.ready : b # a => r[b] = job.ready[b]
            BY DEF Put
          <5>2. job'.ready = r
            BY <4>1
          <5> HIDE DEF r
          <5>3. QED  BY <5>1, <5>2
        <4>4. \A b \in job'.half : pods'[b] = "ready" /\ LocalHalf(b, {b})'
          BY <1>1, <2>2, <2>4, <4>1
        <4>5. \A b \in DOMAIN job'.ready : job'.ready[b] = ReadyNow(b)'
          BY <2>2, <2>4, <4>2, <4>3, Zenon
        <4>6. QED  BY <4>4, <4>5
      <3>4. QED  BY <3>2, <3>3
    <2>6. CASE ReadPath(a)
      <3>1. a \in job.half /\ job'.half = job.half \ {a}
            /\ job'.ready = Put(job.ready, a, PathHalf(a))
        BY <2>6, ReadPathForm DEF ReadPath
      <3>2. ReadyNow(a) = PathHalf(a)
        <4>1. pods[a] = "ready" /\ LocalHalf(a, {a})
          BY <2>2, <3>1
        <4>2. PathHalf(a) \in BOOLEAN
          BY DEF PathHalf
        <4>3. QED  BY <4>1, <4>2, Zenon DEF ReadyNow
      <3>3. /\ DOMAIN job'.ready = DOMAIN job.ready \cup {a}
            /\ job'.ready[a] = PathHalf(a)
            /\ \A b \in DOMAIN job.ready : b # a => job'.ready[b] = job.ready[b]
        <4> DEFINE r == Put(job.ready, a, PathHalf(a))
        <4>1. /\ DOMAIN r = DOMAIN job.ready \cup {a}
              /\ r[a] = PathHalf(a)
              /\ \A b \in DOMAIN job.ready : b # a => r[b] = job.ready[b]
          BY DEF Put
        <4>2. job'.ready = r
          BY <3>1
        <4> HIDE DEF r
        <4>3. QED  BY <4>1, <4>2
      <3>4. \A b \in job'.half : pods'[b] = "ready" /\ LocalHalf(b, {b})'
        BY <1>1, <2>2, <2>4, <3>1
      <3>5. \A b \in DOMAIN job'.ready : job'.ready[b] = ReadyNow(b)'
        BY <2>2, <2>4, <3>2, <3>3, Zenon
      <3>6. QED  BY <3>4, <3>5
    <2>7. QED  BY <2>5, <2>6
  <1>6. SlicesTrue'
    <2> SUFFICES ASSUME NEW t \in Service, NEW g \in Family, Quiet(t)', Settled(t, g)',
                        g \in DOMAIN slices'[t]
                 PROVE  \A b \in DOMAIN slices'[t][g] : slices'[t][g][b] = ReadyNow(b)'
      BY DEF SlicesTrue
    <2>1. Settled(t, g)
      BY <1>1, <1>2 DEF Settled, SameTask
    <2>2. SameAt(slices'[t], slices[t], g)
      BY <1>1 DEF SameAt
    <2>3. QED  BY <1>4, <2>1, <2>2, SliceTruthStays
  <1>7. QED  BY <1>5, <1>6

LEMMA ListTruth ==
    ASSUME Typed, ShapeInv, ShapeInv', ReadsTrue, SlicesTrue, ListSlices
    PROVE  ReadsTrue' /\ SlicesTrue'
  <1>1. UNCHANGED <<services, pods, local, path, registry, events, dropped, silenced, queue,
                    slices, watch>>
    BY DEF ListSlices, worldVars, storeVars, registryVars, notifyVars, sliceVars
  <1>2. /\ job \in Job /\ job' \in Job /\ SameTask
        /\ job'.phase = "write"
        /\ job.half = {} /\ job'.half = {} /\ job'.ready = job.ready
        /\ job'.left = Families(job.atts) \cup DOMAIN cached[job.svc]
    BY ListForm
  <1>3. job.svc \in Service /\ job # Idle
    BY <1>2, JobIs
  <1>4. \A t \in Service : SameTruth(t)
    BY <1>1, NoEvidenceTouched
  <1>5. ReadsTrue'
    BY <1>2, <1>3, <1>4, ReadsStay DEF SameTask
  <1>6. SlicesTrue'
    <2> SUFFICES ASSUME NEW t \in Service, NEW g \in Family, Quiet(t)', Settled(t, g)',
                        g \in DOMAIN slices'[t]
                 PROVE  \A b \in DOMAIN slices'[t][g] : slices'[t][g][b] = ReadyNow(b)'
      BY DEF SlicesTrue
    <2>1. t # job.svc
      <3> SUFFICES ASSUME t = job.svc PROVE FALSE
        OBVIOUS
      <3>1. g \notin Families(job.atts)
        BY <1>2 DEF Settled, SameTask
      <3>2. Unqueued(t)' /\ Unqueued(t)
        BY <1>1 DEF Quiet, Unqueued
      <3>3. Shaped(t, g)'
        BY <3>2 DEF ShapeInv, SlicesShaped
      <3>4. g \in Families(Offers(t)')
        BY <3>3 DEF Shaped
      <3>5. job.atts = Offers(t) /\ Offers(t)' = Offers(t)
        BY <1>1, <1>3, <3>2, WorldUnchanged DEF ShapeInv, JobCurrent
      <3>6. QED  BY <3>1, <3>4, <3>5
    <2>2. Settled(t, g)
      BY <1>1, <2>1 DEF Settled
    <2>3. SameAt(slices'[t], slices[t], g)
      BY <1>1 DEF SameAt
    <2>4. QED  BY <1>4, <2>2, <2>3, SliceTruthStays
  <1>7. QED  BY <1>5, <1>6

LEMMA WriteTruth ==
    ASSUME Typed, ShapeInv, ReadsTrue, SlicesTrue, NEW f \in Family, WriteStep(f)
    PROVE  ReadsTrue' /\ SlicesTrue'
  <1>1. /\ f \in job.left /\ Done(f) /\ OneDone(f)
        /\ SlicePut(f) \/ SliceDropped(f) \/ SliceSkipped(f)
    BY WriteForm
  <1>2. UNCHANGED <<services, pods, local, path, registry, events, dropped, silenced, queue>>
    BY <1>1 DEF Done, worldVars, storeVars, registryVars, notifyVars
  <1>3. job \in Job /\ job.svc \in Service /\ job # Idle
    BY <1>1, JobIs DEF OneDone
  <1>4. CASE SlicePut(f) \/ SliceDropped(f)
    <2>1. OnlyAt(job.svc, f) /\ watch' = watch \cup {<<job.svc, f>>}
      BY <1>3, <1>4, WritesOnlyAt DEF SlicePut, SliceDropped
    <2>2. QED  BY <1>1, <1>2, <1>3, <2>1, ChangeTruth
  <1>5. CASE SliceSkipped(f)
    <2>1. UNCHANGED <<slices, watch>>
      BY <1>5 DEF SliceSkipped
    <2>2. \A t \in Service : SameTruth(t)
      BY <1>2, NoEvidenceTouched
    <2>3. ReadsTrue'
      BY <1>1, <1>3, <2>2, ReadsStay DEF OneDone, SameTask
    <2>4. SlicesTrue'
      <3> SUFFICES ASSUME NEW t \in Service, NEW g \in Family, Quiet(t)', Settled(t, g)',
                          g \in DOMAIN slices'[t]
                   PROVE  \A b \in DOMAIN slices'[t][g] : slices'[t][g][b] = ReadyNow(b)'
        BY DEF SlicesTrue
      <3>1. SameAt(slices'[t], slices[t], g)
        BY <2>1 DEF SameAt
      <3>2. CASE t # job.svc \/ g # f
        <4>1. Settled(t, g)
          BY <1>1, <2>1, <3>2 DEF Settled, OneDone, SameTask
        <4>2. QED  BY <2>2, <3>1, <4>1, SliceTruthStays
      <3>3. CASE t = job.svc /\ g = f
        <4>1. /\ Quiet(t)
              /\ \A b \in Discovered(t) : ReadyNow(b)' = ReadyNow(b)
          BY <2>2 DEF SameTruth
        <4>2. Unqueued(job.svc) /\ <<job.svc, f>> \notin watch /\ f \in DOMAIN slices[job.svc]
          BY <2>1, <3>3, <4>1 DEF Settled, Quiet
        <4>3. slices[job.svc][f] = InFamily(job.ready, f) /\ job.ready \in Readiness
          BY <1>1, <1>5, <4>2, SkippedIs
        <4>4. /\ DOMAIN slices[t][g] \subseteq DOMAIN job.ready
              /\ \A b \in DOMAIN slices[t][g] : slices[t][g][b] = job.ready[b]
          <5>1. /\ DOMAIN InFamily(job.ready, f) = OfFamily(DOMAIN job.ready, f)
                /\ \A b \in OfFamily(DOMAIN job.ready, f) :
                      InFamily(job.ready, f)[b] = job.ready[b]
            BY <4>3, InFamilyReadiness
          <5>2. OfFamily(DOMAIN job.ready, f) \subseteq DOMAIN job.ready
            BY DEF OfFamily
          <5>3. slices[t][g] = InFamily(job.ready, f)
            BY <3>3, <4>3
          <5>4. QED  BY <5>1, <5>2, <5>3, Zenon
        <4>5. \A b \in DOMAIN job.ready : job.ready[b] = ReadyNow(b)
          BY <1>3, <3>3, <4>1 DEF ReadsTrue
        <4>6. DOMAIN job.ready \subseteq Discovered(t)
          BY <3>3, <4>1, AboutOffered
        <4>7. slices'[t][g] = slices[t][g]
          BY <2>1
        <4>8. QED  BY <4>1, <4>4, <4>5, <4>6, <4>7
      <3>4. QED  BY <3>2, <3>3
    <2>5. QED  BY <2>3, <2>4
  <1>6. QED  BY <1>1, <1>4, <1>5

LEMMA EndTruth ==
    ASSUME Typed, ShapeInv, ReadsTrue, SlicesTrue, WriteFails \/ Finish
    PROVE  ReadsTrue' /\ SlicesTrue'
  <1>1. /\ job' = Idle /\ job \in Job /\ job.svc \in Service /\ job.phase = "write"
        /\ \/ queue' = queue \cup {job.svc}
           \/ queue' = queue /\ job.left = {}
        /\ UNCHANGED <<services, pods, local, path, registry, events, dropped, silenced,
                       slices, watch>>
    BY JobIs DEF WriteFails, Finish, worldVars, storeVars, registryVars, notifyVars, sliceVars
  <1>2. \A t \in Service : SameTruth(t)
    BY <1>1, NoEvidenceTouched
  <1>3. ReadsTrue'
    BY <1>1 DEF ReadsTrue
  <1>4. SlicesTrue'
    <2> SUFFICES ASSUME NEW t \in Service, NEW g \in Family, Quiet(t)', Settled(t, g)',
                        g \in DOMAIN slices'[t]
                 PROVE  \A b \in DOMAIN slices'[t][g] : slices'[t][g][b] = ReadyNow(b)'
      BY DEF SlicesTrue
    <2>1. Settled(t, g)
      BY <1>1 DEF Settled, Quiet, Unqueued
    <2>2. SameAt(slices'[t], slices[t], g)
      BY <1>1 DEF SameAt
    <2>3. QED  BY <1>2, <2>1, <2>2, SliceTruthStays
  <1>5. QED  BY <1>3, <1>4

LEMMA StepTruth ==
    Typed /\ Flags /\ ShapeInv /\ ReadsTrue /\ SlicesTrue /\ [Next]_vars => ReadsTrue' /\ SlicesTrue'
  <1> SUFFICES ASSUME Typed, Flags, ShapeInv, ReadsTrue, SlicesTrue, [Next]_vars
               PROVE  ReadsTrue' /\ SlicesTrue'
    OBVIOUS
  <1>1. CASE StoreStep
    <2>1. StoreStepOK
      BY <1>1, StoreSteps
    <2>2. \A t \in Service : SameTruth(t)
      BY <2>1, StoreTruth
    <2>3. QED  BY <2>1, <2>2, AloneTruth DEF StoreStepOK, restVars
  <1>2. ASSUME \/ \E s \in Service, state \in ServiceState : ServiceEvent(s, state)
               \/ \E a \in Attachment, state \in PodState : PodEvent(a, state)
        PROVE  ReadsTrue' /\ SlicesTrue'
    <2>1. \A t \in Service : SameWorld(t)
      BY <1>2, EventSameWorld
    <2>2. UNCHANGED <<local, path, registry, events, dropped, silenced, job, slices, watch>>
      BY <1>2 DEF ServiceEvent, PodEvent, storeVars, registryVars, notifyVars, sliceVars
    <2>3. \A t \in Service : SameTruth(t)
      BY <2>1, <2>2, OtherTruth
    <2>4. QED  BY <2>2, <2>3, AloneTruth
  <1>3. ASSUME NEW s \in Service, NEW f \in Family, SliceEvent(s, f)
        PROVE  ReadsTrue' /\ SlicesTrue'
    BY <1>3, SliceEventTruth
  <1>4. ASSUME NEW s \in Service, NEW f \in Family, SliceDeleted(s, f)
        PROVE  ReadsTrue' /\ SlicesTrue'
    <2>1. /\ slices' = [slices EXCEPT ![s] = Drop(slices[s], {f})]
          /\ watch' = watch \cup {<<s, f>>}
          /\ UNCHANGED <<services, pods, local, path, registry, events, dropped, silenced, queue, job>>
      BY <1>4 DEF SliceDeleted, worldVars, storeVars, registryVars, notifyVars
    <2> DEFINE x == Drop(slices[s], {f})
    <2>2. /\ x \in SliceSet /\ DOMAIN x = DOMAIN slices[s] \ {f}
          /\ \A g \in DOMAIN slices[s] : g # f => x[g] = slices[s][g]
      BY DropSlice DEF Typed
    <2>3. slices' = [slices EXCEPT ![s] = x]
      BY <2>1
    <2> HIDE DEF x
    <2>4. \A g \in Family : g # f => SameAt(x, slices[s], g)
      BY <2>2 DEF SameAt
    <2>5. OnlyAt(s, f)
      BY <2>2, <2>3, <2>4, OnlyAtOne
    <2>6. QED  BY <2>1, <2>5, ChangeTruth
  <1>5. ASSUME NEW s \in Service, ChannelPump(s)
        PROVE  ReadsTrue' /\ SlicesTrue'
    <2>1. /\ events' = [events EXCEPT ![s] = events[s] - 1]
          /\ queue' = queue \cup {s}
          /\ UNCHANGED <<services, pods, local, path, registry, job, slices, watch, dropped, silenced>>
      BY <1>5 DEF ChannelPump, worldVars, storeVars, registryVars, sliceVars, Typed
    <2>2. ASSUME NEW t \in Service PROVE SameTruth(t)
      <3>1. SameWorld(t)
        BY <2>1, WorldUnchanged
      <3>2. Unqueued(t)' => events'[t] = events[t]
        BY <2>1 DEF Unqueued, Typed
      <3>3. QED  BY <2>1, <3>1, <3>2, OtherTruth
    <2>3. QED  BY <2>1, <2>2, AloneTruth
  <1>6. ASSUME NEW s \in Service,
               ReconcileAbsent(s) \/ ReconcileUnmanaged(s) \/ ReconcileManaged(s)
        PROVE  ReadsTrue' /\ SlicesTrue'
    BY <1>6, BeginTruth
  <1>7. ASSUME NEW a \in Attachment, ReadLocal(a) \/ ReadPath(a)
        PROVE  ReadsTrue' /\ SlicesTrue'
    BY <1>7, ReadTruth
  <1>8. CASE ListSlices
    BY <1>8, ListShape, ListTruth
  <1>9. ASSUME NEW f \in Family, WriteStep(f)
        PROVE  ReadsTrue' /\ SlicesTrue'
    BY <1>9, WriteTruth
  <1>10. CASE Restart
    <2>1. \A s \in Service : ~Quiet(s)'
      BY <1>10 DEF Restart, Quiet, Unqueued, worldVars
    <2>2. job' = Idle
      BY <1>10 DEF Restart
    <2>3. QED  BY <2>1, <2>2 DEF ReadsTrue, SlicesTrue
  <1>11. CASE UNCHANGED vars
    <2>1. UNCHANGED <<services, pods, local, path, registry, events, dropped, silenced, queue,
                      job, slices, watch>>
      BY <1>11 DEF vars
    <2>2. \A t \in Service : SameTruth(t)
      BY <2>1, NoEvidenceTouched
    <2>3. QED  BY <2>1, <2>2, AloneTruth
  <1>12. QED
    BY <1>1, <1>2, <1>3, <1>4, <1>5, <1>6, <1>7, <1>8, <1>9, <1>10, <1>11, EndTruth, Zenon
    DEF Next, Cluster, Worker, StoreStep, WriteStep

-----------------------------------------------------------------------------
(* Agreement. *)

LEMMA InitPublication == Init => PublicationInv
  <1> SUFFICES ASSUME Init PROVE PublicationInv
    OBVIOUS
  <1>1. \A s \in Service : ~Quiet(s)
    BY DEF Init, Quiet, Unqueued
  <1>2. job = Idle
    BY DEF Init
  <1>3. ReadsTrue /\ SlicesTrue
    BY <1>1, <1>2 DEF ReadsTrue, SlicesTrue
  <1>4. QED  BY <1>3, InitTyped, InitShape DEF PublicationInv

LEMMA StepPublication == PublicationInv /\ [Next]_vars => PublicationInv'
  BY StepTyped, StepShape, StepTruth DEF PublicationInv

\* Right in shape and right in each endpoint is what Desired asks for.
LEMMA PublicationInvImplies == PublicationInv => Agreement
  <1> SUFFICES ASSUME PublicationInv, NEW s \in Service, services[s] # "absent", ~Owed(s),
                      s \notin dropped \cup silenced
               PROVE  slices[s] = Desired(s)
    BY DEF Agreement
  <1> DEFINE A == Offers(s)
             ready == [a \in Publishable(A) |-> ReadyNow(a)]
  <1>0. Typed /\ ShapeInv /\ SlicesTrue
    BY DEF PublicationInv
  <1>1. Unqueued(s) /\ events[s] = 0 /\ \A f \in Family : Settled(s, f)
    BY <1>0, NotOwed
  <1>2. \A f \in Family : Shaped(s, f)
    BY <1>0, <1>1 DEF ShapeInv, SlicesShaped
  <1>3. /\ A \in SUBSET Attachment /\ Publishable(A) \in SUBSET A
        /\ Families(A) \in SUBSET Family
    BY <1>0, OffersTyped
  <1>4. slices[s] \in SliceSet
    BY <1>0 DEF Typed
  <1>5. DOMAIN slices[s] \in SUBSET Family /\ slices[s] \in [DOMAIN slices[s] -> Readiness]
    BY <1>4, SliceSetIs
  <1>6. DOMAIN slices[s] = Families(A)
    BY <1>2, <1>3, <1>5 DEF Shaped
  <1>7. CASE services[s] = "managed"
    <2>1. Quiet(s)
      <3>1. s \in DOMAIN registry
        BY <1>0, <1>1, <1>7 DEF ShapeInv, Registered
      <3>2. ~Lapses(s)
        BY <3>1 DEF Owed, Lapses
      <3>3. QED  BY <1>1, <1>7, <3>2 DEF Quiet
    <2>2. ready \in Readiness /\ DOMAIN ready = Publishable(A)
          /\ \A a \in Publishable(A) : ready[a] = ReadyNow(a)
      <3>1. \A a : ReadyNow(a) \in BOOLEAN
        BY DEF ReadyNow
      <3> HIDE DEF A
      <3>2. ready \in [Publishable(A) -> BOOLEAN] /\ Publishable(A) \in SUBSET Attachment
        BY <1>3, <3>1
      <3>3. QED  BY <3>2, Zenon DEF Readiness
    <2>3. Desired(s) = [f \in Families(A) |-> InFamily(ready, f)]
      BY <1>7 DEF Desired, Offers
    <2> HIDE DEF ready, A
    <2>4. ASSUME NEW f \in Families(A) PROVE slices[s][f] = InFamily(ready, f)
      <3>1. f \in Family /\ f \in DOMAIN slices[s]
        BY <1>3, <1>6
      <3>2. DOMAIN slices[s][f] = OfFamily(Publishable(A), f)
        BY <1>2, <3>1 DEF Shaped, A
      <3>3. /\ DOMAIN InFamily(ready, f) = OfFamily(Publishable(A), f)
            /\ \A a \in OfFamily(Publishable(A), f) : InFamily(ready, f)[a] = ready[a]
            /\ InFamily(ready, f) \in Readiness
        BY <2>2, InFamilyReadiness
      <3>4. \A a \in DOMAIN slices[s][f] : slices[s][f][a] = ReadyNow(a)
        BY <1>0, <1>1, <2>1, <3>1 DEF SlicesTrue
      <3>5. \A a \in OfFamily(Publishable(A), f) : slices[s][f][a] = InFamily(ready, f)[a]
        <4>1. OfFamily(Publishable(A), f) \subseteq Publishable(A)
          BY DEF OfFamily
        <4>2. QED  BY <2>2, <3>2, <3>3, <3>4, <4>1, Zenon
      <3>6. slices[s][f] \in Readiness
        BY <1>5, <3>1
      <3> DEFINE u == slices[s][f]
                 v == InFamily(ready, f)
      <3>7. u \in [DOMAIN u -> BOOLEAN] /\ v \in [DOMAIN v -> BOOLEAN]
        BY <3>3, <3>6, ReadinessIs
      <3>8. DOMAIN u = DOMAIN v /\ \A a \in DOMAIN u : u[a] = v[a]
        BY <3>2, <3>3, <3>5
      <3> HIDE DEF u, v
      <3>9. u = v
        BY <3>7, <3>8
      <3>10. QED  BY <3>9 DEF u, v
    <2>5. QED  BY <1>5, <1>6, <2>3, <2>4
  <1>8. CASE services[s] # "managed"
    <2>1. A = {} /\ Desired(s) = Empty
      BY <1>8 DEF Offers, Desired
    <2>2. DOMAIN slices[s] = {}
      BY <1>6, <2>1, NothingPublishable
    <2>3. QED  BY <1>5, <2>1, <2>2 DEF Empty
  <1>9. QED  BY <1>7, <1>8

\* Whatever interleaving of reports, lapses, Pod and Service changes, failed writes, lagging
\* copies and restarts came before: once nothing is on its way for a Service, and no
\* notification of it was lost, its EndpointSlices are exactly what the store supports.
THEOREM SlicesAgree == Spec => []Agreement
  BY InitPublication, StepPublication, PublicationInvImplies, PTL DEF Spec
=============================================================================
