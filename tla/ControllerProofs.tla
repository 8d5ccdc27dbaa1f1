-------------------------- MODULE ControllerProofs --------------------------
(***************************************************************************)
(* Theorems about Controller, for any cluster, any agent processes and     *)
(* sequence numbers and any TTL: it implements Publication, and what is    *)
(* published ready at rest is vouched for.                                 *)
(***************************************************************************)
EXTENDS Controller, HealthStoreProofs

LEMMA Constants ==
    /\ Observed \subseteq Attachment
    /\ PathVerdict \subseteq BOOLEAN
    /\ PathKeyOf \in [Attachment -> PathKey]
    /\ \A a \in Attachment : HomeOf[PathKeyOf[a]] = HomeOf[a]
    /\ \A n \in Node : \E o \in Origin : o.node = n
  BY ControllerAssumption DEF P!PublicationAssumption, P!Origin, P!Sequence, Origin, Sequence

-----------------------------------------------------------------------------
(* Every step is a step of the store, a stutter, or a restart. *)

LEMMA StoreStepsOf ==
    ASSUME [Next]_vars
    PROVE  [StoreNext]_storeVars \/ StoreInit'
  <1>1. CASE UNCHANGED storeVars
    BY <1>1
  <1>2. ASSUME NEW n \in Node, NEW i \in Instance, Adopt(n, i)
        PROVE  StoreNext
    BY <1>2 DEF Adopt, StoreNext
  <1>3. ASSUME NEW o \in Origin, NEW a \in AttachmentsOn(o.node), NEW owners,
               NEW ready \in BOOLEAN, LocalReport(o, a, owners, ready)
        PROVE  StoreNext
    BY <1>3, Zenon DEF LocalReport, StoreNext
  <1>4. ASSUME NEW o \in Origin, NEW k \in PathKeysOn(o.node), NEW owners,
               NEW ready \in BOOLEAN, PathReport(o, k, owners, ready)
        PROVE  StoreNext
    BY <1>4, Zenon DEF PathReport, StoreNext
  <1>5. ASSUME NEW o \in Origin,
               NEW A \in SUBSET AttachmentsOn(o.node), NEW K \in SUBSET PathKeysOn(o.node),
               NEW locals \in [A -> BOOLEAN], NEW paths \in [K -> BOOLEAN],
               SnapshotEnd(o, locals, paths)
        PROVE  StoreNext
    BY <1>5, Zenon DEF SnapshotEnd, StoreNext
  <1>6. ASSUME NEW a \in Attachment, Retired(a)
        PROVE  StoreNext
    BY <1>6, Zenon DEF Retired, StoreNext
  <1>7. CASE Handlers
    <2>1. /\ \A n : P!Known(n) \subseteq AttachmentsOn(n)
          /\ \A n : P!KnownPaths(n) \subseteq PathKeysOn(n)
      BY DEF P!Known, P!KnownPaths, P!AttachmentsOn, P!PathKeysOn, AttachmentsOn, PathKeysOn
    <2>2. \A K : [K -> PathVerdict] \subseteq [K -> BOOLEAN]
      BY Constants
    <2>3. PathVerdict \subseteq BOOLEAN /\ Observed \subseteq Attachment
      BY Constants
    <2>4. ASSUME NEW o \in Origin,
                 NEW A \in SUBSET P!Known(o.node), NEW K \in SUBSET P!KnownPaths(o.node),
                 NEW locals \in [A -> BOOLEAN], NEW paths \in [K -> PathVerdict],
                 SnapshotEnd(o, locals, paths)
          PROVE  StoreNext
      <3>1. A \in SUBSET AttachmentsOn(o.node) /\ K \in SUBSET PathKeysOn(o.node)
        BY <2>1
      <3>2. paths \in [K -> BOOLEAN]
        BY <2>2
      <3>3. QED  BY <1>5, <2>4, <3>1, <3>2
    <2>5. ASSUME NEW o \in Origin,
                 \/ \E a \in AttachmentsOn(o.node), owners \in SUBSET Service, ready \in BOOLEAN :
                        LocalReport(o, a, owners, ready)
                 \/ \E k \in PathKeysOn(o.node), owners \in SUBSET Service, ready \in PathVerdict :
                        PathReport(o, k, owners, ready)
          PROVE  StoreNext
      BY <1>3, <1>4, <2>3, <2>5
    <2>6. QED  BY <1>2, <1>6, <1>7, <2>3, <2>4, <2>5, Zenon DEF Handlers
  <1>8. CASE Sweeper
    BY <1>8 DEF Sweeper, Sweep, SweepEnds, StoreNext
  <1>9. CASE TimePasses
    BY <1>9 DEF TimePasses, StoreNext
  <1>10. CASE Elsewhere
    BY <1>1, <1>10 DEF Elsewhere
  <1>11. CASE Restart
    BY <1>11 DEF Restart, StoreInit
  <1>12. CASE UNCHANGED vars
    BY <1>1, <1>12 DEF vars
  <1>13. QED
    BY <1>7, <1>8, <1>9, <1>10, <1>11, <1>12, Zenon DEF Next

LEMMA StepVouched == TakeoverInv /\ [Next]_vars => TakeoverInv'
  <1>1. StoreInit' => TakeoverInv'
    BY InitTakeover, PTL
  <1>2. QED  BY <1>1, StoreStepsOf, StepTakeover

-----------------------------------------------------------------------------
(* What Publication sees of the store: the operations commute with Anonymous. *)

LEMMA OriginIs == ASSUME NEW n \in Node PROVE OriginOf(n) \in Origin /\ OriginOf(n).node = n
  BY Constants DEF OriginOf

LEMMA FacelessIs ==
    ASSUME NEW e \in Entry
    PROVE  Faceless(e) = [node |-> e.node, instance |-> OriginOf(e.node).instance,
                          seq |-> OriginOf(e.node).seq, ready |-> e.ready, age |-> e.age,
                          expired |-> e.expired]
  <1> DEFINE i == OriginOf(e.node).instance
             n == OriginOf(e.node).seq
  <1>1. Faceless(e) = [e EXCEPT !.instance = i, !.seq = n]
    BY DEF Faceless
  <1>2. e = [node |-> e.node, instance |-> e.instance, seq |-> e.seq, ready |-> e.ready,
             age |-> e.age, expired |-> e.expired]
    BY DEF Entry
  <1> HIDE DEF i, n
  <1>3. Faceless(e) = [node |-> e.node, instance |-> i, seq |-> n, ready |-> e.ready,
                       age |-> e.age, expired |-> e.expired]
    BY <1>1, <1>2
  <1>4. QED  BY <1>3 DEF i, n

LEMMA FacelessAccepted ==
    ASSUME NEW o \in Origin, NEW ready \in BOOLEAN
    PROVE  Faceless(AcceptedEntry(o, ready)) = AcceptedEntry(OriginOf(o.node), ready)
  <1> DEFINE e == AcceptedEntry(o, ready)
  <1>1. /\ e \in Entry /\ e.node = o.node /\ e.ready = ready /\ e.age = 0 /\ e.expired = FALSE
    BY AcceptedType
  <1>2. OriginOf(o.node).node = o.node
    BY OriginIs DEF Origin
  <1> HIDE DEF e
  <1>3. Faceless(e) = AcceptedEntry(OriginOf(o.node), ready)
    BY <1>1, <1>2, FacelessIs DEF AcceptedEntry
  <1>4. QED  BY <1>3 DEF e

LEMMA AnonymousIs ==
    ASSUME NEW S, NEW m, IsStoreMap(m, S)
    PROVE  /\ DOMAIN Anonymous(m) = DOMAIN m
           /\ \A k \in DOMAIN m :
                 /\ Anonymous(m)[k] = Faceless(m[k])
                 /\ Anonymous(m)[k].node = m[k].node
                 /\ Anonymous(m)[k].ready = m[k].ready
                 /\ Anonymous(m)[k].age = m[k].age
                 /\ Anonymous(m)[k].expired = m[k].expired
  <1>1. /\ DOMAIN Anonymous(m) = DOMAIN m
        /\ \A k \in DOMAIN m : Anonymous(m)[k] = Faceless(m[k])
    BY DEF Anonymous
  <1>2. \A k \in DOMAIN m : m[k] \in Entry
    BY DEF IsStoreMap
  <1>3. QED  BY <1>1, <1>2, FacelessIs

LEMMA AnonymousPut ==
    ASSUME NEW m, NEW k, NEW e
    PROVE  Anonymous(Put(m, k, e)) = Put(Anonymous(m), k, Faceless(e))
  BY DEF Anonymous, Put

LEMMA AnonymousDrop ==
    ASSUME NEW m, NEW K
    PROVE  Anonymous(Drop(m, K)) = Drop(Anonymous(m), K)
  BY DEF Anonymous, Drop

\* What a reader, the sweeper and a snapshot look at is the same.
LEMMA AnonymousSame ==
    ASSUME NEW S, NEW m, IsStoreMap(m, S)
    PROVE  /\ \A k : StateOf(Anonymous(m), k) = StateOf(m, k)
           /\ Lapsed(Anonymous(m)) = Lapsed(m)
           /\ Dead(Anonymous(m)) = Dead(m)
           /\ P!Unreported(Anonymous(m)) = P!Unreported(m)
           /\ \A n, K : P!LostBy(Anonymous(m), n, K) = P!LostBy(m, n, K)
  BY AnonymousIs DEF StateOf, Fresh, Lapsed, Dead, P!Unreported, P!Dead, P!LostBy

LEMMA AnonymousReplaced ==
    ASSUME NEW S, NEW m, IsStoreMap(m, S), NEW o \in Origin, NEW R, NEW reports \in [R -> BOOLEAN]
    PROVE  Anonymous(Replaced(m, o, reports)) = Replaced(Anonymous(m), OriginOf(o.node), reports)
  <1> DEFINE M == Replaced(m, o, reports)
             N == Replaced(Anonymous(m), OriginOf(o.node), reports)
             D == {j \in DOMAIN m : m[j].node # o.node} \cup R
  <1>1. OriginOf(o.node).node = o.node
    BY OriginIs DEF Origin
  <1>2. DOMAIN Anonymous(m) = DOMAIN m
        /\ \A j \in DOMAIN m : Anonymous(m)[j].node = m[j].node /\ Anonymous(m)[j] = Faceless(m[j])
    BY AnonymousIs
  <1>3. Anonymous(M) = [j \in D |-> IF j \in R THEN Faceless(AcceptedEntry(o, reports[j]))
                                                ELSE Faceless(m[j])]
    BY DEF Anonymous, Replaced
  <1>4. N = [j \in D |-> IF j \in R THEN AcceptedEntry(OriginOf(o.node), reports[j])
                                     ELSE Anonymous(m)[j]]
    <2>1. {j \in DOMAIN Anonymous(m) : Anonymous(m)[j].node # OriginOf(o.node).node} \cup R = D
      BY <1>1, <1>2
    <2>2. QED  BY <2>1 DEF Replaced
  <1>5. ASSUME NEW j \in D
        PROVE  (IF j \in R THEN Faceless(AcceptedEntry(o, reports[j])) ELSE Faceless(m[j]))
                 = (IF j \in R THEN AcceptedEntry(OriginOf(o.node), reports[j])
                               ELSE Anonymous(m)[j])
    BY <1>2, FacelessAccepted
  <1> HIDE DEF M, N, D
  <1>6. Anonymous(M) = N
    BY <1>3, <1>4, <1>5
  <1>7. QED  BY <1>6 DEF M, N

LEMMA AnonymousSwept ==
    ASSUME NEW S, NEW m, IsStoreMap(m, S)
    PROVE  Anonymous(Swept(m)) = Swept(Anonymous(m))
  <1>1. \A k \in DOMAIN m : m[k] \in Entry
    BY DEF IsStoreMap
  <1>2. ASSUME NEW e \in Entry
        PROVE  Faceless([e EXCEPT !.expired = TRUE]) = [Faceless(e) EXCEPT !.expired = TRUE]
    BY DEF Faceless, Entry
  <1>3. Anonymous(Swept(m)) =
          [k \in DOMAIN m |-> IF k \in Lapsed(m) THEN Faceless([m[k] EXCEPT !.expired = TRUE])
                                                 ELSE Faceless(m[k])]
    BY DEF Anonymous, Swept
  <1>4. Swept(Anonymous(m)) =
          [k \in DOMAIN m |-> IF k \in Lapsed(m) THEN [Faceless(m[k]) EXCEPT !.expired = TRUE]
                                                 ELSE Faceless(m[k])]
    <2>1. Lapsed(Anonymous(m)) = Lapsed(m)
      BY AnonymousSame
    <2>2. QED  BY <2>1 DEF Anonymous, Swept
  <1>5. QED  BY <1>1, <1>2, <1>3, <1>4

LEMMA AnonymousAged ==
    ASSUME NEW S, NEW m, IsStoreMap(m, S)
    PROVE  Anonymous(Aged(m)) = Aged(Anonymous(m))
  <1> DEFINE Older(x) == IF x < AgeCap THEN x + 1 ELSE x
  <1>1. \A k \in DOMAIN m : m[k] \in Entry
    BY DEF IsStoreMap
  <1>2. ASSUME NEW e \in Entry
        PROVE  Faceless([e EXCEPT !.age = Older(e.age)]) = [Faceless(e) EXCEPT !.age = Older(e.age)]
    <2> HIDE DEF Older
    <2>1. QED  BY DEF Faceless, Entry
  <1>3. Anonymous(Aged(m)) = [k \in DOMAIN m |-> Faceless([m[k] EXCEPT !.age = Older(m[k].age)])]
    BY DEF Anonymous, Aged
  <1>4. Aged(Anonymous(m)) = [k \in DOMAIN m |-> [Faceless(m[k]) EXCEPT !.age = Older(m[k].age)]]
    <2>1. \A k \in DOMAIN m : Faceless(m[k]).age = m[k].age
      BY <1>1, FacelessIs
    <2>2. Aged(Anonymous(m)) =
            [k \in DOMAIN m |-> [Faceless(m[k]) EXCEPT !.age = Older(Faceless(m[k]).age)]]
      BY DEF Anonymous, Aged
    <2> HIDE DEF Older
    <2>3. QED  BY <2>1, <2>2
  <1> HIDE DEF Older
  <1>5. QED  BY <1>1, <1>2, <1>3, <1>4

-----------------------------------------------------------------------------
(* Refinement. *)

\* The operators of HealthMaps are the same under both names.
LEMMA SameOperators ==
    /\ \A n : P!AttachmentsOn(n) = AttachmentsOn(n) /\ P!PathKeysOn(n) = PathKeysOn(n)
    /\ \A m, k, v : P!Put(m, k, v) = Put(m, k, v)
    /\ \A m, K : P!Drop(m, K) = Drop(m, K)
    /\ \A n : P!OriginOf(n) = OriginOf(n)
    /\ \A o, ready : P!AcceptedEntry(o, ready) = AcceptedEntry(o, ready)
    /\ \A m, o, reports : P!Replaced(m, o, reports) = Replaced(m, o, reports)
    /\ \A m : P!Swept(m) = Swept(m) /\ P!Aged(m) = Aged(m) /\ P!Dead(m) = Dead(m)
    /\ \A m, k : P!StateOf(m, k) = StateOf(m, k)
  <1>1. \A n : P!AttachmentsOn(n) = AttachmentsOn(n) /\ P!PathKeysOn(n) = PathKeysOn(n)
    BY DEF P!AttachmentsOn, AttachmentsOn, P!PathKeysOn, PathKeysOn
  <1>2. \A m, k, v : P!Put(m, k, v) = Put(m, k, v)
    BY DEF P!Put, Put
  <1>3. \A m, K : P!Drop(m, K) = Drop(m, K)
    BY DEF P!Drop, Drop
  <1>4. \A n : P!OriginOf(n) = OriginOf(n)
    BY DEF P!OriginOf, OriginOf, P!Origin, Origin, P!Sequence, Sequence
  <1>5. \A o, ready : P!AcceptedEntry(o, ready) = AcceptedEntry(o, ready)
    BY DEF P!AcceptedEntry, AcceptedEntry
  <1>6. \A m, o, reports : P!Replaced(m, o, reports) = Replaced(m, o, reports)
    BY DEF P!Replaced, Replaced, P!AcceptedEntry, AcceptedEntry
  <1>7. \A m : P!Swept(m) = Swept(m)
    BY DEF P!Swept, Swept, P!Lapsed, Lapsed
  <1>8. \A m : P!Aged(m) = Aged(m)
    BY DEF P!Aged, Aged, P!AgeCap, AgeCap
  <1>9. \A m : P!Dead(m) = Dead(m)
    BY DEF P!Dead, Dead
  <1>10. \A m, k : P!StateOf(m, k) = StateOf(m, k)
    BY DEF P!StateOf, StateOf, P!Fresh, Fresh
  <1>11. QED  BY <1>1, <1>2, <1>3, <1>4, <1>5, <1>6, <1>7, <1>8, <1>9, <1>10

LEMMA LocalReportRefines ==
    ASSUME StoreTypeOK, NEW o \in Origin, NEW a \in AttachmentsOn(o.node), NEW owners,
           NEW ready \in BOOLEAN, LocalReport(o, a, owners, ready)
    PROVE  P!LocalReport(a, owners, ready)
  <1>1. /\ local' = Put(local, a, AcceptedEntry(o, ready)) /\ UNCHANGED path
        /\ P!Told(P!Once(owners), P!OwnersOf(a)) /\ UNCHANGED sweeping
    BY DEF LocalReport, AcceptLocal
  <1>2. o.node = HomeOf[a]
    BY DEF AttachmentsOn
  <1>3. Anonymous(local)' = Put(Anonymous(local), a, AcceptedEntry(OriginOf(HomeOf[a]), ready))
    BY <1>1, <1>2, AnonymousPut, FacelessAccepted
  <1>4. Anonymous(local)' = P!Report(Anonymous(local), a, ready)
    BY <1>3, SameOperators DEF P!Report
  <1>5. UNCHANGED Anonymous(path)
    BY <1>1
  <1>6. QED  BY <1>1, <1>4, <1>5 DEF P!LocalReport

LEMMA PathReportRefines ==
    ASSUME StoreTypeOK, NEW o \in Origin, NEW k \in PathKeysOn(o.node), NEW owners,
           NEW ready \in BOOLEAN, PathReport(o, k, owners, ready)
    PROVE  P!PathReport(k, owners, ready)
  <1>1. /\ path' = Put(path, k, AcceptedEntry(o, ready)) /\ UNCHANGED local
        /\ P!Told(P!Once(owners), P!PathOwnersOf(k)) /\ UNCHANGED sweeping
    BY DEF PathReport, AcceptPath
  <1>2. o.node = HomeOf[k]
    BY DEF PathKeysOn
  <1>3. Anonymous(path)' = Put(Anonymous(path), k, AcceptedEntry(OriginOf(HomeOf[k]), ready))
    BY <1>1, <1>2, AnonymousPut, FacelessAccepted
  <1>4. Anonymous(path)' = P!Report(Anonymous(path), k, ready)
    BY <1>3, SameOperators DEF P!Report
  <1>5. UNCHANGED Anonymous(local)
    BY <1>1
  <1>6. QED  BY <1>1, <1>4, <1>5 DEF P!PathReport

LEMMA SnapshotRefines ==
    ASSUME StoreTypeOK, NEW o \in Origin, NEW A, NEW K,
           NEW locals \in [A -> BOOLEAN], NEW paths \in [K -> BOOLEAN],
           SnapshotEnd(o, locals, paths)
    PROVE  P!Snapshot(o.node, locals, paths)
  <1>1. /\ local' = Replaced(local, o, locals) /\ path' = Replaced(path, o, paths)
        /\ P!Told(P!Once(P!Owners(DOMAIN locals, DOMAIN paths)),
                  P!Owners(P!LostBy(local, o.node, DOMAIN locals),
                           P!LostBy(path, o.node, DOMAIN paths)))
        /\ UNCHANGED sweeping
    BY DEF SnapshotEnd, ApplySnapshot
  <1>2. IsStoreMap(local, Attachment) /\ IsStoreMap(path, PathKey)
    BY DEF StoreTypeOK
  <1>3. Anonymous(local)' = P!Replaced(Anonymous(local), P!OriginOf(o.node), locals)
    BY <1>1, <1>2, AnonymousReplaced, SameOperators
  <1>4. Anonymous(path)' = P!Replaced(Anonymous(path), P!OriginOf(o.node), paths)
    BY <1>1, <1>2, AnonymousReplaced, SameOperators
  <1>5. /\ P!LostBy(Anonymous(local), o.node, DOMAIN locals) = P!LostBy(local, o.node, DOMAIN locals)
        /\ P!LostBy(Anonymous(path), o.node, DOMAIN paths) = P!LostBy(path, o.node, DOMAIN paths)
    BY <1>2, AnonymousSame
  <1>6. P!Told(P!Once(P!Owners(DOMAIN locals, DOMAIN paths)),
               P!Owners(P!LostBy(Anonymous(local), o.node, DOMAIN locals),
                        P!LostBy(Anonymous(path), o.node, DOMAIN paths)))
    BY <1>1, <1>5
  <1>7. QED  BY <1>1, <1>3, <1>4, <1>6 DEF P!Snapshot

LEMMA RetiredRefines ==
    ASSUME StoreTypeOK, NEW a, Retired(a)
    PROVE  P!Retired(a)
  <1>1. /\ local' = Drop(local, {a}) /\ UNCHANGED path
        /\ P!Told(P!Once(P!OwnersOf(a)), {}) /\ UNCHANGED sweeping
    BY DEF Retired, ForgetLocal
  <1>2. Anonymous(local)' = P!Drop(Anonymous(local), {a})
    BY <1>1, AnonymousDrop, SameOperators
  <1>3. UNCHANGED Anonymous(path)
    BY <1>1
  <1>4. QED  BY <1>1, <1>2, <1>3 DEF P!Retired

LEMMA SweeperRefines ==
    ASSUME StoreTypeOK, Sweeper
    PROVE  P!Sweeper
  <1>1. IsStoreMap(local, Attachment) /\ IsStoreMap(path, PathKey)
    BY DEF StoreTypeOK
  <1>2. ASSUME NEW prune \in BOOLEAN, Sweep(prune)
        PROVE  P!Sweep(prune)
    <2>1. Anonymous(local)' = P!Swept(Anonymous(local)) /\ Anonymous(path)' = P!Swept(Anonymous(path))
      BY <1>1, <1>2, AnonymousSwept, SameOperators DEF Sweep, SweepExpired
    <2>2. QED  BY <1>2, <2>1 DEF Sweep, P!Sweep
  <1>3. ASSUME SweepEnds
        PROVE  P!Prune
    <2>1. /\ Dead(Anonymous(local)) = Dead(local) /\ Dead(Anonymous(path)) = Dead(path)
          /\ P!Unreported(Anonymous(local)) = P!Unreported(local)
          /\ P!Unreported(Anonymous(path)) = P!Unreported(path)
      BY <1>1, AnonymousSame
    <2>2. local' = Drop(local, Dead(local)) /\ path' = Drop(path, Dead(path))
      BY <1>3 DEF SweepEnds, Prune
    <2>3. /\ Anonymous(local)' = P!Drop(Anonymous(local), P!Dead(Anonymous(local)))
          /\ Anonymous(path)' = P!Drop(Anonymous(path), P!Dead(Anonymous(path)))
      BY <2>1, <2>2, AnonymousDrop, SameOperators
    <2>4. /\ sweeping /\ sweeping' = FALSE
          /\ P!Told(P!Once({}), P!Owners(P!Unreported(local), P!Unreported(path)))
      BY <1>3 DEF SweepEnds
    <2>5. P!Told(P!Once({}), P!Owners(P!Unreported(Anonymous(local)), P!Unreported(Anonymous(path))))
      BY <2>1, <2>4
    <2>6. QED  BY <2>3, <2>4, <2>5 DEF P!Prune
  <1>4. QED  BY <1>2, <1>3, Zenon DEF Sweeper, P!Sweeper

LEMMA TickRefines ==
    ASSUME StoreTypeOK, TimePasses
    PROVE  P!ClockTick
  <1>1. IsStoreMap(local, Attachment) /\ IsStoreMap(path, PathKey)
    BY DEF StoreTypeOK
  <1>2. local' = Aged(local) /\ path' = Aged(path) /\ UNCHANGED restVars
    BY DEF TimePasses, ClockTick
  <1>3. Anonymous(local)' = P!Aged(Anonymous(local)) /\ Anonymous(path)' = P!Aged(Anonymous(path))
    BY <1>1, <1>2, AnonymousAged, SameOperators
  <1>4. QED
    BY <1>2, <1>3 DEF restVars, P!ClockTick, P!worldVars, P!registryVars, P!notifyVars, P!sliceVars

LEMMA HandlersRefine ==
    ASSUME StoreTypeOK, Handlers
    PROVE  P!Reports \/ UNCHANGED P!vars
  <1>1. ASSUME NEW n \in Node, NEW i \in Instance, Adopt(n, i)
        PROVE  UNCHANGED P!vars
    BY <1>1 DEF Adopt, AdoptInstance, restVars, P!vars
  <1>2. ASSUME NEW o \in Origin, NEW a \in AttachmentsOn(o.node), NEW owners \in SUBSET Service,
               NEW ready \in BOOLEAN, <<"local", a, owners>> \in answered,
               LocalReport(o, a, owners, ready)
        PROVE  P!Reports
    <2>1. P!LocalReport(a, owners, ready)
      BY <1>2, LocalReportRefines
    <2>2. o.node \in Node /\ a \in P!AttachmentsOn(o.node)
      BY SameOperators DEF Origin
    <2>3. QED  BY <1>2, <2>1, <2>2, Zenon DEF P!Reports
  <1>3. ASSUME NEW o \in Origin, NEW k \in PathKeysOn(o.node), NEW owners \in SUBSET Service,
               NEW ready \in PathVerdict, <<"path", k, owners>> \in answered,
               PathReport(o, k, owners, ready)
        PROVE  P!Reports
    <2>1. P!PathReport(k, owners, ready)
      BY <1>3, Constants, PathReportRefines
    <2>2. o.node \in Node /\ k \in P!PathKeysOn(o.node)
      BY SameOperators DEF Origin
    <2>3. QED  BY <1>3, <2>1, <2>2, Zenon DEF P!Reports
  <1>4. ASSUME NEW o \in Origin,
               NEW A \in SUBSET P!Known(o.node), NEW K \in SUBSET P!KnownPaths(o.node),
               NEW locals \in [A -> BOOLEAN], NEW paths \in [K -> PathVerdict],
               SnapshotEnd(o, locals, paths)
        PROVE  P!Reports
    <2>1. paths \in [K -> BOOLEAN]
      BY Constants
    <2>2. P!Snapshot(o.node, locals, paths)
      BY <1>4, <2>1, SnapshotRefines
    <2>3. o.node \in Node
      BY DEF Origin
    <2>4. QED  BY <2>2, <2>3, Zenon DEF P!Reports
  <1>5. ASSUME NEW a \in Observed, Retired(a)
        PROVE  P!Reports
    <2>1. P!Retired(a)
      BY <1>5, RetiredRefines
    <2>2. HomeOf[a] \in Node /\ a \in P!AttachmentsOn(HomeOf[a]) \cap Observed
      BY Constants, StoreAssumption, SameOperators DEF AttachmentsOn
    <2>3. QED  BY <2>1, <2>2, Zenon DEF P!Reports
  <1>6. QED  BY <1>1, <1>2, <1>3, <1>4, <1>5, Zenon DEF Handlers

LEMMA StepRefines == StoreTypeOK /\ [Next]_vars => [P!Next]_(P!vars)
  <1> SUFFICES ASSUME StoreTypeOK, [Next]_vars
               PROVE  P!Next \/ UNCHANGED P!vars
    OBVIOUS
  <1>1. CASE Handlers
    BY <1>1, HandlersRefine DEF P!Next
  <1>2. CASE Sweeper
    BY <1>2, SweeperRefines DEF P!Next
  <1>3. CASE TimePasses
    BY <1>3, TickRefines DEF P!Next
  <1>4. CASE Elsewhere
    BY <1>4, Zenon DEF Elsewhere, P!Next
  <1>5. CASE Restart
    BY <1>5 DEF Restart, P!Next
  <1>6. CASE UNCHANGED vars
    BY <1>6 DEF vars, storeVars, restVars, P!vars
  <1>7. QED  BY <1>1, <1>2, <1>3, <1>4, <1>5, <1>6 DEF Next

\* Seen without processes and sequence numbers, every history of the controller is one of
\* Publication's: adopting a process is a stutter, every report the store accepts is one of
\* Publication's reports, and the sweeper's two steps and the clock are the same steps.
THEOREM ControllerImplementsPublication == Spec => ImplementsPublication
  <1>1. Init => TakeoverInv /\ P!Init
    BY InitTakeover DEF Init
  <1>2. TakeoverInv => StoreTypeOK
    BY DEF TakeoverInv
  <1>3. QED
    BY <1>1, <1>2, StepVouched, StepRefines, PTL DEF Spec, ImplementsPublication, P!Spec

-----------------------------------------------------------------------------
(* What PublicationProofs shows of Publication, taken over. *)

PP == INSTANCE PublicationProofs WITH local <- Anonymous(local), path <- Anonymous(path)

\* P and PP name the same formulas, once as Controller has them and once as the
\* theorems of PublicationProofs do.
LEMMA SameAssumption == PP!StoreAssumption /\ PP!PublicationAssumption
  BY StoreAssumption, ControllerAssumption
  DEF PP!StoreAssumption, P!PublicationAssumption, PP!PublicationAssumption,
      P!Origin, PP!Origin, P!Sequence, PP!Sequence, P!IsFiniteSet, PP!IsFiniteSet

LEMMA SameInit == PP!Init <=> P!Init
  BY DEF P!Init, PP!Init, P!Idle, PP!Idle, P!Empty, PP!Empty

LEMMA SameNext == PP!Next <=> P!Next
  BY DEF P!AgeCap, PP!AgeCap, P!Sequence, PP!Sequence, P!Origin, PP!Origin, P!OriginOf,
         PP!OriginOf, P!AcceptedEntry, PP!AcceptedEntry, P!Empty, PP!Empty, P!Put, PP!Put,
         P!Drop, PP!Drop, P!Fresh, PP!Fresh, P!StateOf, PP!StateOf, P!Replaced, PP!Replaced,
         P!Lapsed, PP!Lapsed, P!Swept, PP!Swept, P!Dead, PP!Dead, P!Aged, PP!Aged,
         P!AttachmentsOn, PP!AttachmentsOn, P!PathKeysOn, PP!PathKeysOn, P!worldVars,
         PP!worldVars, P!storeVars, PP!storeVars, P!registryVars, PP!registryVars, P!notifyVars,
         PP!notifyVars, P!sliceVars, PP!sliceVars, P!vars, PP!vars, P!Idle, PP!Idle,
         P!Discovered, PP!Discovered, P!DropConflicting, PP!DropConflicting, P!Truncated,
         PP!Truncated, P!Families, PP!Families, P!Publishable, PP!Publishable, P!InFamily,
         PP!InFamily, P!LocalHalf, PP!LocalHalf, P!PathHalf, PP!PathHalf, P!OwnersOf,
         PP!OwnersOf, P!PathOwnersOf, PP!PathOwnersOf, P!Owners, PP!Owners, P!Answers,
         PP!Answers, P!Total, PP!Total, P!Once, PP!Once, P!Enqueue, PP!Enqueue, P!ChannelPump,
         PP!ChannelPump, P!ServiceEvent, PP!ServiceEvent, P!PodEvent, PP!PodEvent, P!SliceEvent,
         PP!SliceEvent, P!SliceDeleted, PP!SliceDeleted, P!Report, PP!Report, P!Told, PP!Told,
         P!LocalReport, PP!LocalReport, P!PathReport, PP!PathReport, P!LostBy, PP!LostBy,
         P!Snapshot, PP!Snapshot, P!Retired, PP!Retired, P!LapseCalls, PP!LapseCalls, P!Sweep,
         PP!Sweep, P!Unreported, PP!Unreported, P!Prune, PP!Prune, P!ClockTick, PP!ClockTick,
         P!Taken, PP!Taken, P!ReconcileAbsent, PP!ReconcileAbsent, P!ReconcileUnmanaged,
         PP!ReconcileUnmanaged, P!ReconcileManaged, PP!ReconcileManaged, P!ReadLocal,
         PP!ReadLocal, P!ReadPath, PP!ReadPath, P!ListSlices, PP!ListSlices, P!Wanted,
         PP!Wanted, P!UpToDate, PP!UpToDate, P!Turn, PP!Turn, P!Done, PP!Done, P!Written,
         PP!Written, P!CreateSlice, PP!CreateSlice, P!KeepSlice, PP!KeepSlice, P!UpdateSlice,
         PP!UpdateSlice, P!DeleteSlice, PP!DeleteSlice, P!WriteFails, PP!WriteFails, P!Finish,
         PP!Finish, P!Restart, PP!Restart, P!Cluster, PP!Cluster, P!Known, PP!Known,
         P!KnownPaths, PP!KnownPaths, P!Reports, PP!Reports, P!Sweeper, PP!Sweeper, P!Worker,
         PP!Worker, P!Next, PP!Next, P!IsFiniteSet, PP!IsFiniteSet, P!Cardinality,
         PP!Cardinality, P!MapThenSumSet, PP!MapThenSumSet, P!MapThenFoldSet, PP!MapThenFoldSet,
         P!Min, PP!Min

LEMMA SameAgreement == PP!Agreement <=> P!Agreement
  BY DEF P!Agreement, PP!Agreement, P!Owed, PP!Owed, P!Pending, PP!Pending, P!Lapsed, PP!Lapsed,
         P!Desired, PP!Desired, P!Discovered, PP!Discovered, P!Families, PP!Families,
         P!InFamily, PP!InFamily, P!Publishable, PP!Publishable, P!Truncated, PP!Truncated,
         P!DropConflicting, PP!DropConflicting, P!ReadyNow, PP!ReadyNow, P!LocalHalf,
         PP!LocalHalf, P!PathHalf, PP!PathHalf, P!StateOf, PP!StateOf, P!Fresh, PP!Fresh,
         P!Empty, PP!Empty, P!Cardinality, PP!Cardinality, P!IsFiniteSet, PP!IsFiniteSet

LEMMA AgreementTakenOver == P!Spec => []P!Agreement
  <1>1. PP!Spec => []PP!Agreement
    BY SameAssumption, PP!SlicesAgree
  <1>2. [P!Next]_(P!vars) => [PP!Next]_(PP!vars)
    BY SameNext DEF P!vars, PP!vars
  <1>3. P!Spec => PP!Spec
    BY <1>2, SameInit, PTL DEF P!Spec, PP!Spec
  <1>4. QED  BY <1>1, <1>3, SameAgreement, PTL

-----------------------------------------------------------------------------
(* End to end. *)

\* Healthy evidence of another process than the one in charge is younger than TTL and
\* older than the takeover.
LEMMA HealthyIsVouched ==
    ASSUME NEW S, NEW m, IsStoreMap(m, S), PredatesTakeover(m), StoreTypeOK, NEW k,
           StateOf(m, k) = "Healthy"
    PROVE  Vouched(m, k)
  <1>1. k \in DOMAIN m /\ m[k].age <= TTL
    BY DEF StateOf, Fresh
  <1>2. m[k].node = HomeOf[k] /\ m[k].age \in Int
    BY <1>1, StoreAssumption DEF IsStoreMap, Entry, AgeCap
  <1>3. /\ HomeOf[k] \in DOMAIN nodeInstance
        /\ m[k].instance = nodeInstance[HomeOf[k]] \/ m[k].age >= sinceTakeover[HomeOf[k]]
    BY <1>1, <1>2 DEF PredatesTakeover
  <1>4. sinceTakeover[HomeOf[k]] \in Int /\ TTL \in Int
    BY <1>3, StoreAssumption DEF StoreTypeOK
  <1>5. QED  BY <1>1, <1>2, <1>3, <1>4 DEF Vouched

LEMMA AgreementVouches == TakeoverInv /\ P!Agreement => ReadyIsVouchedFor
  <1> SUFFICES ASSUME TakeoverInv, P!Agreement, NEW s \in Service, NEW a \in Attachment,
                      services[s] # "absent", ~P!Owed(s), s \notin dropped \cup silenced,
                      P!PublishedReady(s, a)
               PROVE  pods[a] = "ready" /\ Vouched(local, a) /\ Vouched(path, PathKeyOf[a])
    BY DEF ReadyIsVouchedFor
  <1>1. slices[s] = P!Desired(s)
    BY DEF P!Agreement
  <1>2. PICK f \in DOMAIN P!Desired(s) :
          a \in DOMAIN P!Desired(s)[f] /\ P!Desired(s)[f][a]
    BY <1>1 DEF P!PublishedReady
  <1> DEFINE A == P!Discovered(s)
             ready == [b \in P!Publishable(A) |-> P!ReadyNow(b)]
  <1>3. P!Desired(s) = [g \in P!Families(A) |-> P!InFamily(ready, g)]
    BY <1>2 DEF P!Desired, P!Empty
  <1>4. a \in DOMAIN P!InFamily(ready, f) /\ P!InFamily(ready, f)[a]
    BY <1>2, <1>3
  <1>5. a \in P!Publishable(A) /\ ready[a]
    BY <1>4 DEF P!InFamily
  <1>6. P!ReadyNow(a)
    BY <1>5
  <1>7. /\ pods[a] = "ready"
        /\ StateOf(Anonymous(local), a) = "Healthy"
        /\ StateOf(Anonymous(path), PathKeyOf[a]) = "Healthy"
    BY <1>6, SameOperators DEF P!ReadyNow, P!LocalHalf, P!PathHalf
  <1>8. /\ StoreTypeOK /\ PredatesTakeover(local) /\ PredatesTakeover(path)
        /\ IsStoreMap(local, Attachment) /\ IsStoreMap(path, PathKey)
    BY DEF TakeoverInv, StoreTypeOK
  <1>9. StateOf(local, a) = "Healthy" /\ StateOf(path, PathKeyOf[a]) = "Healthy"
    BY <1>7, <1>8, AnonymousSame
  <1>10. QED  BY <1>7, <1>8, <1>9, HealthyIsVouched

\* From the agents' reports to the EndpointSlices: whatever processes came and went,
\* whatever arrived out of order and however reports, sweeps, reconciles, failed writes and
\* restarts interleaved, once nothing is on its way for a Service and no notification of it
\* was lost, what it publishes ready is vouched for, by the process in charge of the node or by
\* one replaced no more than TTL ago.
THEOREM PublishedReadyIsVouchedFor == Spec => []ReadyIsVouchedFor
  <1>1. Init => TakeoverInv
    BY InitTakeover DEF Init
  <1>2. Spec => []TakeoverInv
    BY <1>1, StepVouched, PTL DEF Spec
  <1>3. Spec => []P!Agreement
    BY ControllerImplementsPublication, AgreementTakenOver, PTL DEF ImplementsPublication
  <1>4. QED  BY <1>2, <1>3, AgreementVouches, PTL
=============================================================================
