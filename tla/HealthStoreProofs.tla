------------------------- MODULE HealthStoreProofs -------------------------
(***************************************************************************)
(* Theorems about HealthStore, for any sets of nodes, processes,           *)
(* attachments and path keys and any TTL.                                  *)
(***************************************************************************)
EXTENDS HealthStore, TLAPS

-----------------------------------------------------------------------------
(* What the map operators preserve. *)

LEMMA AcceptedType ==
    ASSUME NEW o \in Origin, NEW ready \in BOOLEAN
    PROVE  /\ AcceptedEntry(o, ready) \in Entry
           /\ AcceptedEntry(o, ready).node = o.node
           /\ AcceptedEntry(o, ready).instance = o.instance
           /\ AcceptedEntry(o, ready).ready = ready
           /\ AcceptedEntry(o, ready).age = 0
           /\ AcceptedEntry(o, ready).expired = FALSE
  BY StoreAssumption DEF AcceptedEntry, Origin, Entry, AgeCap

LEMMA PutType ==
    ASSUME NEW S, NEW m, IsStoreMap(m, S), NEW k \in S, NEW e \in Entry, e.node = HomeOf[k]
    PROVE  IsStoreMap(Put(m, k, e), S)
  BY DEF IsStoreMap, Put

LEMMA DropType ==
    ASSUME NEW S, NEW m, IsStoreMap(m, S), NEW K
    PROVE  IsStoreMap(Drop(m, K), S)
  BY DEF IsStoreMap, Drop

LEMMA ReplacedType ==
    ASSUME NEW S, NEW m, IsStoreMap(m, S), NEW o \in Origin,
           NEW R \in SUBSET {k \in S : HomeOf[k] = o.node}, NEW reports \in [R -> BOOLEAN]
    PROVE  IsStoreMap(Replaced(m, o, reports), S)
  <1> DEFINE M == Replaced(m, o, reports)
  <1>1. DOMAIN M \subseteq S
    BY DEF IsStoreMap, Replaced
  <1>2. ASSUME NEW k \in DOMAIN M
        PROVE  M[k] \in Entry /\ M[k].node = HomeOf[k]
    <2>1. CASE k \in DOMAIN reports
      <3>1. PICK ready \in BOOLEAN : M[k] = AcceptedEntry(o, ready)
        BY <2>1 DEF Replaced
      <3>2. HomeOf[k] = o.node
        BY <2>1
      <3>3. AcceptedEntry(o, ready) \in Entry /\ AcceptedEntry(o, ready).node = o.node
        BY AcceptedType, Zenon
      <3> HIDE DEF M
      <3>4. QED  BY <3>1, <3>2, <3>3
    <2>2. CASE k \notin DOMAIN reports
      BY <2>2 DEF Replaced, IsStoreMap
    <2>3. QED  BY <2>1, <2>2
  <1>3. M = [k \in DOMAIN M |-> M[k]]
    BY DEF Replaced
  <1>4. QED  BY <1>1, <1>2, <1>3 DEF IsStoreMap

LEMMA SweptType ==
    ASSUME NEW S, NEW m, IsStoreMap(m, S)
    PROVE  IsStoreMap(Swept(m), S)
  BY DEF IsStoreMap, Swept, Entry

LEMMA AgedType ==
    ASSUME NEW S, NEW m, IsStoreMap(m, S)
    PROVE  IsStoreMap(Aged(m), S)
  BY StoreAssumption DEF IsStoreMap, Aged, Entry, AgeCap

LEMMA AgedEntry ==
    ASSUME NEW S, NEW m, IsStoreMap(m, S), NEW k \in DOMAIN m
    PROVE  /\ k \in DOMAIN Aged(m)
           /\ m[k] \in Entry /\ m[k].age \in 0..AgeCap
           /\ Aged(m)[k].node = m[k].node
           /\ Aged(m)[k].instance = m[k].instance
           /\ Aged(m)[k].ready = m[k].ready
           /\ Aged(m)[k].age = IF m[k].age < AgeCap THEN m[k].age + 1 ELSE m[k].age
  BY StoreAssumption DEF IsStoreMap, Aged, Entry, AgeCap

-----------------------------------------------------------------------------
(* Type correctness. *)

LEMMA InitType == StoreInit => StoreTypeOK
  BY DEF StoreInit, StoreTypeOK, IsStoreMap, Empty

LEMMA StepType == StoreTypeOK /\ [StoreNext]_storeVars => StoreTypeOK'
  <1> SUFFICES ASSUME StoreTypeOK, [StoreNext]_storeVars
               PROVE  StoreTypeOK'
    OBVIOUS
  <1> USE DEF StoreTypeOK
  <1>1. ASSUME NEW n \in Node, NEW i \in Instance, AdoptInstance(n, i)
        PROVE  StoreTypeOK'
    BY <1>1, StoreAssumption DEF AdoptInstance, Put, IsStoreMap
  <1>2. ASSUME NEW o \in Origin, NEW ready \in BOOLEAN,
               NEW a \in AttachmentsOn(o.node), AcceptLocal(o, a, ready)
        PROVE  StoreTypeOK'
    BY <1>2, AcceptedType, PutType DEF AcceptLocal, AttachmentsOn
  <1>3. ASSUME NEW o \in Origin, NEW ready \in BOOLEAN,
               NEW k \in PathKeysOn(o.node), AcceptPath(o, k, ready)
        PROVE  StoreTypeOK'
    BY <1>3, AcceptedType, PutType DEF AcceptPath, PathKeysOn
  <1>4. ASSUME NEW o \in Origin,
               NEW A \in SUBSET AttachmentsOn(o.node), NEW K \in SUBSET PathKeysOn(o.node),
               NEW locals \in [A -> BOOLEAN], NEW paths \in [K -> BOOLEAN],
               ApplySnapshot(o, locals, paths)
        PROVE  StoreTypeOK'
    BY <1>4, ReplacedType DEF ApplySnapshot, AttachmentsOn, PathKeysOn
  <1>5. ASSUME NEW a \in Attachment, ForgetLocal(a)
        PROVE  StoreTypeOK'
    BY <1>5, DropType DEF ForgetLocal
  <1>6. CASE SweepExpired
    BY <1>6, SweptType DEF SweepExpired
  <1>7. CASE Prune
    BY <1>7, DropType DEF Prune
  <1>8. CASE ClockTick
    BY <1>8, AgedType, StoreAssumption DEF ClockTick
  <1>9. CASE UNCHANGED storeVars
    BY <1>9 DEF storeVars, IsStoreMap
  <1>10. QED
    BY <1>1, <1>2, <1>3, <1>4, <1>5, <1>6, <1>7, <1>8, <1>9 DEF StoreNext

\* The store's maps stay well typed and every entry stays with the node its
\* subject lives on, whatever sequence of operations the callers make.
THEOREM StoreTypeCorrect == StoreSpec => []StoreTypeOK
  BY InitType, StepType, PTL DEF StoreSpec

-----------------------------------------------------------------------------
(* Superseded processes. TakeoverBounded is not inductive: it says nothing   *)
(* of the entries that become its business when sinceTakeover passes TTL.    *)
(* Comparing each entry's age with the takeover does.                        *)

TakeoverInv == StoreTypeOK /\ PredatesTakeover(local) /\ PredatesTakeover(path)

LEMMA InitTakeover == StoreInit => TakeoverInv
  BY InitType DEF StoreInit, TakeoverInv, PredatesTakeover, Empty

LEMMA PutPredates ==
    ASSUME NEW m, PredatesTakeover(m), NEW o \in Origin, Current(o), NEW ready \in BOOLEAN, NEW k
    PROVE  PredatesTakeover(Put(m, k, AcceptedEntry(o, ready)))
  <1>1. /\ AcceptedEntry(o, ready).node \in DOMAIN nodeInstance
        /\ AcceptedEntry(o, ready).instance = nodeInstance[AcceptedEntry(o, ready).node]
    BY AcceptedType DEF Current
  <1>2. QED
    BY <1>1 DEF PredatesTakeover, Put

LEMMA StepTakeover == TakeoverInv /\ [StoreNext]_storeVars => TakeoverInv'
  <1> SUFFICES ASSUME TakeoverInv, [StoreNext]_storeVars
               PROVE  PredatesTakeover(local)' /\ PredatesTakeover(path)'
    BY StepType DEF TakeoverInv
  <1>1. ASSUME NEW n \in Node, NEW i \in Instance, AdoptInstance(n, i)
        PROVE  PredatesTakeover(local)' /\ PredatesTakeover(path)'
    BY <1>1 DEF TakeoverInv, PredatesTakeover, StoreTypeOK, AdoptInstance, Put, IsStoreMap, Entry
  <1>2. ASSUME NEW o \in Origin, NEW ready \in BOOLEAN,
               NEW a \in AttachmentsOn(o.node), AcceptLocal(o, a, ready)
        PROVE  PredatesTakeover(local)' /\ PredatesTakeover(path)'
    <2>1. /\ local' = Put(local, a, AcceptedEntry(o, ready))
          /\ Current(o)
          /\ UNCHANGED <<path, nodeInstance, sinceTakeover>>
      BY <1>2 DEF AcceptLocal
    <2>2. PredatesTakeover(Put(local, a, AcceptedEntry(o, ready)))
      BY <2>1, PutPredates DEF TakeoverInv
    <2>3. QED
      BY <2>1, <2>2 DEF TakeoverInv, PredatesTakeover
  <1>3. ASSUME NEW o \in Origin, NEW ready \in BOOLEAN,
               NEW k \in PathKeysOn(o.node), AcceptPath(o, k, ready)
        PROVE  PredatesTakeover(local)' /\ PredatesTakeover(path)'
    <2>1. /\ path' = Put(path, k, AcceptedEntry(o, ready))
          /\ Current(o)
          /\ UNCHANGED <<local, nodeInstance, sinceTakeover>>
      BY <1>3 DEF AcceptPath
    <2>2. PredatesTakeover(Put(path, k, AcceptedEntry(o, ready)))
      BY <2>1, PutPredates DEF TakeoverInv
    <2>3. QED
      BY <2>1, <2>2 DEF TakeoverInv, PredatesTakeover
  <1> USE DEF TakeoverInv, PredatesTakeover, StoreTypeOK
  <1>4. ASSUME NEW o \in Origin,
               NEW A \in SUBSET AttachmentsOn(o.node), NEW K \in SUBSET PathKeysOn(o.node),
               NEW locals \in [A -> BOOLEAN], NEW paths \in [K -> BOOLEAN],
               ApplySnapshot(o, locals, paths)
        PROVE  PredatesTakeover(local)' /\ PredatesTakeover(path)'
    BY <1>4 DEF ApplySnapshot, Current, Replaced, AcceptedEntry
  <1>5. ASSUME NEW a \in Attachment, ForgetLocal(a)
        PROVE  PredatesTakeover(local)' /\ PredatesTakeover(path)'
    BY <1>5 DEF ForgetLocal, Drop
  <1>6. CASE SweepExpired
    BY <1>6 DEF SweepExpired, Swept, IsStoreMap, Entry
  <1>7. CASE Prune
    BY <1>7 DEF Prune, Drop
  <1>8. CASE ClockTick
    <2>1. ASSUME NEW S, NEW m, IsStoreMap(m, S), PredatesTakeover(m), NEW k \in DOMAIN Aged(m)
          PROVE  /\ Aged(m)[k].node \in DOMAIN nodeInstance'
                 /\ \/ Aged(m)[k].instance = nodeInstance'[Aged(m)[k].node]
                    \/ Aged(m)[k].age >= sinceTakeover'[Aged(m)[k].node]
      <3>1. k \in DOMAIN m
        BY DEF Aged
      <3>2. /\ Aged(m)[k].node = m[k].node
            /\ Aged(m)[k].instance = m[k].instance
            /\ m[k].age \in 0..AgeCap
            /\ Aged(m)[k].age = IF m[k].age < AgeCap THEN m[k].age + 1 ELSE m[k].age
        BY <2>1, <3>1, AgedEntry
      <3>3. m[k].node \in DOMAIN nodeInstance
        BY <2>1, <3>1
      <3>4. /\ nodeInstance' = nodeInstance
            /\ sinceTakeover[m[k].node] \in 0..(TTL + 1)
            /\ sinceTakeover'[m[k].node] = IF sinceTakeover[m[k].node] <= TTL
                                           THEN sinceTakeover[m[k].node] + 1
                                           ELSE sinceTakeover[m[k].node]
        BY <1>8, <3>3 DEF ClockTick
      <3>5. m[k].instance = nodeInstance[m[k].node] \/ m[k].age >= sinceTakeover[m[k].node]
        BY <2>1, <3>1
      <3>6. QED
        BY <3>2, <3>3, <3>4, <3>5, StoreAssumption DEF AgeCap
    <2>2. local' = Aged(local) /\ path' = Aged(path)
      BY <1>8 DEF ClockTick
    <2>3. QED  BY <2>1, <2>2
  <1>9. CASE UNCHANGED storeVars
    BY <1>9 DEF storeVars
  <1>10. QED
    BY <1>1, <1>2, <1>3, <1>4, <1>5, <1>6, <1>7, <1>8, <1>9 DEF StoreNext

LEMMA TakeoverInvImplies == TakeoverInv => TakeoverBounded
  BY StoreAssumption
  DEF TakeoverInv, TakeoverBounded, PredatesTakeover, StoreTypeOK, IsStoreMap, Entry, AgeCap, Fresh

\* More than TTL after AdoptInstance put a process in charge of a node, every
\* fresh entry of that node is its own: nothing still in flight from the
\* processes it superseded was accepted after the takeover.
THEOREM SupersededEvidenceLapses == StoreSpec => []TakeoverBounded
  BY InitTakeover, StepTakeover, TakeoverInvImplies, PTL DEF StoreSpec

-----------------------------------------------------------------------------
(* Lapses. The flag of an entry survives the operations that leave its age    *)
(* alone or raise it, and a report clears it.                                 *)

FlagInv == StoreTypeOK /\ FlaggedIsStale

LEMMA InitFlags == StoreInit => FlagInv
  BY InitType DEF StoreInit, FlagInv, FlaggedIsStale, Empty

LEMMA StepFlags == FlagInv /\ [StoreNext]_storeVars => FlagInv'
  <1> DEFINE Stale(m) == \A k \in DOMAIN m : m[k].expired => m[k].age > TTL
  <1>0. ASSUME NEW S, NEW m, IsStoreMap(m, S)
        PROVE  (\A k \in DOMAIN m : m[k].expired => ~Fresh(m, k)) <=> Stale(m)
    BY <1>0, StoreAssumption DEF Fresh, IsStoreMap, Entry, AgeCap
  <1> SUFFICES ASSUME StoreTypeOK, StoreTypeOK', Stale(local), Stale(path),
                      [StoreNext]_storeVars
               PROVE  Stale(local') /\ Stale(path')
    BY <1>0, StepType DEF FlagInv, FlaggedIsStale, StoreTypeOK
  <1> USE DEF StoreTypeOK
  <1>1. ASSUME NEW n \in Node, NEW i \in Instance, AdoptInstance(n, i)
        PROVE  Stale(local') /\ Stale(path')
    BY <1>1 DEF AdoptInstance
  <1>2. ASSUME NEW o \in Origin, NEW ready \in BOOLEAN,
               NEW a \in AttachmentsOn(o.node), AcceptLocal(o, a, ready)
        PROVE  Stale(local') /\ Stale(path')
    BY <1>2, AcceptedType DEF AcceptLocal, Put
  <1>3. ASSUME NEW o \in Origin, NEW ready \in BOOLEAN,
               NEW k \in PathKeysOn(o.node), AcceptPath(o, k, ready)
        PROVE  Stale(local') /\ Stale(path')
    BY <1>3, AcceptedType DEF AcceptPath, Put
  <1>4. ASSUME NEW o \in Origin,
               NEW A \in SUBSET AttachmentsOn(o.node), NEW K \in SUBSET PathKeysOn(o.node),
               NEW locals \in [A -> BOOLEAN], NEW paths \in [K -> BOOLEAN],
               ApplySnapshot(o, locals, paths)
        PROVE  Stale(local') /\ Stale(path')
    BY <1>4 DEF ApplySnapshot, Replaced, AcceptedEntry
  <1>5. ASSUME NEW a \in Attachment, ForgetLocal(a)
        PROVE  Stale(local') /\ Stale(path')
    BY <1>5 DEF ForgetLocal, Drop
  <1>6. CASE SweepExpired
    BY <1>6 DEF SweepExpired, Swept, Lapsed, IsStoreMap, Entry
  <1>7. CASE Prune
    BY <1>7 DEF Prune, Drop
  <1>8. CASE ClockTick
    <2>1. ASSUME NEW S, NEW m, IsStoreMap(m, S), Stale(m), NEW k \in DOMAIN Aged(m)
          PROVE  Aged(m)[k].expired => Aged(m)[k].age > TTL
      <3>1. k \in DOMAIN m
        BY DEF Aged
      <3>2. /\ Aged(m)[k].expired = m[k].expired
            /\ m[k].age \in 0..AgeCap
            /\ Aged(m)[k].age = IF m[k].age < AgeCap THEN m[k].age + 1 ELSE m[k].age
        BY <2>1, <3>1 DEF Aged, IsStoreMap, Entry
      <3>3. m[k].expired => m[k].age > TTL
        BY <2>1, <3>1
      <3>4. QED
        BY <3>2, <3>3, StoreAssumption DEF AgeCap
    <2>2. local' = Aged(local) /\ path' = Aged(path)
      BY <1>8 DEF ClockTick
    <2>3. QED  BY <2>1, <2>2
  <1>9. CASE UNCHANGED storeVars
    BY <1>9 DEF storeVars
  <1>10. QED
    BY <1>1, <1>2, <1>3, <1>4, <1>5, <1>6, <1>7, <1>8, <1>9 DEF StoreNext

\* SweepExpired flags, and so reports to the owners, only evidence no reader counts
\* any more, and evidence that is counted again carries no flag: its next lapse
\* will be reported too.
THEOREM OnlyLapsesFlagged == StoreSpec => []FlaggedIsStale
  <1>1. FlagInv => FlaggedIsStale
    BY DEF FlagInv
  <1>2. QED
    BY <1>1, InitFlags, StepFlags, PTL DEF StoreSpec

-----------------------------------------------------------------------------
(* The lease table. Each lemma says what one map operator does to what       *)
(* readers see.                                                              *)

GrantedIn(v, k, i, ready) ==
    [t \in DOMAIN v \cup {k} |->
        IF t = k THEN [ready |-> ready, by |-> i, age |-> 0] ELSE v[t]]

ReplacedIn(v, n, i, reports) ==
    [t \in {s \in DOMAIN v : HomeOf[s] # n} \cup DOMAIN reports |->
        IF t \in DOMAIN reports THEN [ready |-> reports[t], by |-> i, age |-> 0] ELSE v[t]]

LEMMA VisiblePut ==
    ASSUME NEW S, NEW m, IsStoreMap(m, S), NEW k, NEW o, NEW ready
    PROVE  Visible(Put(m, k, AcceptedEntry(o, ready))) =
             GrantedIn(Visible(m), k, o.instance, ready)
  BY StoreAssumption DEF IsStoreMap, Put, Visible, Fresh, AcceptedEntry, GrantedIn

LEMMA VisibleReplaced ==
    ASSUME NEW S, NEW m, IsStoreMap(m, S), NEW o, NEW reports
    PROVE  Visible(Replaced(m, o, reports)) =
             ReplacedIn(Visible(m), o.node, o.instance, reports)
  BY StoreAssumption DEF IsStoreMap, Replaced, Visible, Fresh, AcceptedEntry, ReplacedIn

LEMMA VisibleDrop ==
    ASSUME NEW S, NEW m, IsStoreMap(m, S), NEW k
    PROVE  Visible(Drop(m, {k})) = [t \in DOMAIN Visible(m) \ {k} |-> Visible(m)[t]]
  BY DEF Drop, Visible, Fresh

LEMMA VisibleSwept ==
    ASSUME NEW S, NEW m, IsStoreMap(m, S)
    PROVE  Visible(Swept(m)) = Visible(m)
  BY DEF IsStoreMap, Swept, Visible, Fresh, Entry

LEMMA VisiblePruned ==
    ASSUME NEW S, NEW m, IsStoreMap(m, S)
    PROVE  Visible(Drop(m, Dead(m))) = Visible(m)
  BY StoreAssumption DEF IsStoreMap, Dead, Drop, Visible, Fresh, Entry, AgeCap

LEMMA VisibleAged ==
    ASSUME NEW S, NEW m, IsStoreMap(m, S)
    PROVE  Visible(Aged(m)) =
             [s \in {t \in DOMAIN Visible(m) : Visible(m)[t].age < TTL} |->
                [Visible(m)[s] EXCEPT !.age = @ + 1]]
  <1> DEFINE L == {t \in DOMAIN Visible(m) : Visible(m)[t].age < TTL}
             Shown(e) == [ready |-> e.ready, by |-> e.instance, age |-> e.age]
  <1>1. \A k \in DOMAIN Visible(m) :
            /\ k \in DOMAIN m /\ m[k].age <= TTL
            /\ Visible(m)[k] = Shown(m[k]) /\ Visible(m)[k].age = m[k].age
    BY DEF Visible, Fresh
  <1>2. DOMAIN Visible(m) = {k \in DOMAIN m : m[k].age <= TTL}
    BY DEF Visible, Fresh
  <1>3. L = {k \in DOMAIN m : m[k].age < TTL}
    <2>1. ASSUME NEW k \in DOMAIN m  PROVE  m[k].age \in Nat
      BY AgedEntry, StoreAssumption DEF AgeCap
    <2>2. L = {k \in {j \in DOMAIN m : m[j].age <= TTL} : m[k].age < TTL}
      BY <1>1, <1>2
    <2>3. QED  BY <2>1, <2>2, StoreAssumption
  <1>4. DOMAIN Visible(Aged(m)) = L
    <2>1. DOMAIN Aged(m) = DOMAIN m
      BY DEF Aged
    <2>2. DOMAIN Visible(Aged(m)) = {k \in DOMAIN m : Aged(m)[k].age <= TTL}
      BY <2>1 DEF Visible, Fresh
    <2>3. ASSUME NEW k \in DOMAIN m
          PROVE  Aged(m)[k].age <= TTL <=> m[k].age < TTL
      <3>1. /\ m[k].age \in 0..AgeCap
            /\ Aged(m)[k].age = IF m[k].age < AgeCap THEN m[k].age + 1 ELSE m[k].age
        BY AgedEntry
      <3>2. QED  BY <3>1, StoreAssumption DEF AgeCap
    <2>4. QED  BY <1>3, <2>2, <2>3
  <1>5. ASSUME NEW k \in L
        PROVE  Visible(Aged(m))[k] = [Visible(m)[k] EXCEPT !.age = @ + 1]
    <2>1. k \in DOMAIN m /\ m[k].age < TTL /\ Visible(m)[k] = Shown(m[k])
      BY <1>1, <1>3
    <2>2. Visible(Aged(m))[k] = Shown(Aged(m)[k])
      BY <1>4 DEF Visible
    <2>3. /\ Aged(m)[k].ready = m[k].ready
          /\ Aged(m)[k].instance = m[k].instance
          /\ Aged(m)[k].age = m[k].age + 1
      BY <2>1, AgedEntry, StoreAssumption DEF AgeCap
    <2>4. QED  BY <2>1, <2>2, <2>3
  <1>6. Visible(Aged(m)) = [k \in DOMAIN Visible(Aged(m)) |-> Visible(Aged(m))[k]]
    BY DEF Visible
  <1>7. QED  BY <1>4, <1>5, <1>6

LEMMA StepLocalLease == StoreTypeOK /\ [StoreNext]_storeVars => [LocalLease!Next]_(LocalLease!vars)
  <1> SUFFICES ASSUME StoreTypeOK, [StoreNext]_storeVars
               PROVE  [LocalLease!Next]_(LocalLease!vars)
    OBVIOUS
  <1>0. IsStoreMap(local, Attachment)
    BY DEF StoreTypeOK
  <1>1. ASSUME NEW n \in Node, NEW i \in Instance, AdoptInstance(n, i)
        PROVE  [LocalLease!Next]_(LocalLease!vars)
    <2>1. LocalLease!Appoint(n, i)
      BY <1>1 DEF AdoptInstance, Put, LocalLease!Appoint
    <2>2. QED  BY <2>1 DEF LocalLease!Next
  <1>2. ASSUME NEW o \in Origin, NEW ready \in BOOLEAN,
               NEW a \in AttachmentsOn(o.node), AcceptLocal(o, a, ready)
        PROVE  [LocalLease!Next]_(LocalLease!vars)
    <2>1. /\ a \in Attachment /\ HomeOf[a] = o.node
          /\ o.node \in DOMAIN nodeInstance /\ nodeInstance[o.node] = o.instance
      BY <1>2 DEF AcceptLocal, AttachmentsOn, Current
    <2>2. LocalLease!Grant(a, ready)
      <3>1. local' = Put(local, a, AcceptedEntry(o, ready)) /\ nodeInstance' = nodeInstance
        BY <1>2 DEF AcceptLocal
      <3>2. Visible(Put(local, a, AcceptedEntry(o, ready))) =
              GrantedIn(Visible(local), a, o.instance, ready)
        BY <1>0, VisiblePut
      <3>3. Visible(local') = Visible(Put(local, a, AcceptedEntry(o, ready)))
        BY <3>1
      <3>4. QED  BY <2>1, <3>1, <3>2, <3>3 DEF LocalLease!Grant, LocalLease!Granted, GrantedIn
    <2>3. QED  BY <2>1, <2>2 DEF LocalLease!Next
  <1>3. ASSUME NEW o \in Origin, NEW ready \in BOOLEAN,
               NEW k \in PathKeysOn(o.node), AcceptPath(o, k, ready)
        PROVE  [LocalLease!Next]_(LocalLease!vars)
    BY <1>3 DEF AcceptPath, LocalLease!vars
  <1>4. ASSUME NEW o \in Origin,
               NEW A \in SUBSET AttachmentsOn(o.node), NEW K \in SUBSET PathKeysOn(o.node),
               NEW locals \in [A -> BOOLEAN], NEW paths \in [K -> BOOLEAN],
               ApplySnapshot(o, locals, paths)
        PROVE  [LocalLease!Next]_(LocalLease!vars)
    <2>1. o.node \in DOMAIN nodeInstance /\ nodeInstance[o.node] = o.instance
      BY <1>4 DEF ApplySnapshot, Current
    <2>2. LocalLease!Replace(o.node, locals)
      <3>1. local' = Replaced(local, o, locals) /\ nodeInstance' = nodeInstance
        BY <1>4 DEF ApplySnapshot
      <3>2. Visible(Replaced(local, o, locals)) =
              ReplacedIn(Visible(local), o.node, o.instance, locals)
        BY <1>0, VisibleReplaced
      <3>3. Visible(local') = Visible(Replaced(local, o, locals))
        BY <3>1
      <3>4. QED  BY <2>1, <3>1, <3>2, <3>3 DEF LocalLease!Replace, LocalLease!Granted, ReplacedIn
    <2>3. o.node \in Node /\ A \in SUBSET {s \in Attachment : HomeOf[s] = o.node}
      BY DEF Origin, AttachmentsOn
    <2>4. QED  BY <2>2, <2>3 DEF LocalLease!Next
  <1>5. CASE SweepExpired
    BY <1>0, <1>5, VisibleSwept DEF SweepExpired, LocalLease!vars
  <1>6. ASSUME NEW a \in Attachment, ForgetLocal(a)
        PROVE  [LocalLease!Next]_(LocalLease!vars)
    <2>1. LocalLease!GiveUp(a)
      <3>1. local' = Drop(local, {a}) /\ nodeInstance' = nodeInstance
        BY <1>6 DEF ForgetLocal
      <3>2. Visible(Drop(local, {a})) = [t \in DOMAIN Visible(local) \ {a} |-> Visible(local)[t]]
        BY <1>0, VisibleDrop
      <3>3. Visible(local') = Visible(Drop(local, {a}))
        BY <3>1
      <3>4. QED  BY <3>1, <3>2, <3>3 DEF LocalLease!GiveUp
    <2>2. QED  BY <2>1 DEF LocalLease!Next
  <1>7. CASE Prune
    BY <1>0, <1>7, VisiblePruned DEF Prune, LocalLease!vars
  <1>8. CASE ClockTick
    <2>1. LocalLease!Pass
      <3>1. local' = Aged(local) /\ nodeInstance' = nodeInstance
        BY <1>8 DEF ClockTick
      <3>2. Visible(Aged(local)) =
              [s \in {t \in DOMAIN Visible(local) : Visible(local)[t].age < TTL} |->
                 [Visible(local)[s] EXCEPT !.age = @ + 1]]
        BY <1>0, VisibleAged
      <3>3. Visible(local') = Visible(Aged(local))
        BY <3>1
      <3>4. QED  BY <3>1, <3>2, <3>3 DEF LocalLease!Pass
    <2>2. QED  BY <2>1 DEF LocalLease!Next
  <1>9. CASE UNCHANGED storeVars
    BY <1>9 DEF storeVars, LocalLease!vars
  <1>10. QED
    BY <1>1, <1>2, <1>3, <1>4, <1>5, <1>6, <1>7, <1>8, <1>9 DEF StoreNext

LEMMA StepPathLease == StoreTypeOK /\ [StoreNext]_storeVars => [PathLease!Next]_(PathLease!vars)
  <1> SUFFICES ASSUME StoreTypeOK, [StoreNext]_storeVars
               PROVE  [PathLease!Next]_(PathLease!vars)
    OBVIOUS
  <1>0. IsStoreMap(path, PathKey)
    BY DEF StoreTypeOK
  <1>1. ASSUME NEW n \in Node, NEW i \in Instance, AdoptInstance(n, i)
        PROVE  [PathLease!Next]_(PathLease!vars)
    <2>1. PathLease!Appoint(n, i)
      BY <1>1 DEF AdoptInstance, Put, PathLease!Appoint
    <2>2. QED  BY <2>1 DEF PathLease!Next
  <1>2. ASSUME NEW o \in Origin, NEW ready \in BOOLEAN,
               NEW k \in PathKeysOn(o.node), AcceptPath(o, k, ready)
        PROVE  [PathLease!Next]_(PathLease!vars)
    <2>1. /\ k \in PathKey /\ HomeOf[k] = o.node
          /\ o.node \in DOMAIN nodeInstance /\ nodeInstance[o.node] = o.instance
      BY <1>2 DEF AcceptPath, PathKeysOn, Current
    <2>2. PathLease!Grant(k, ready)
      <3>1. path' = Put(path, k, AcceptedEntry(o, ready)) /\ nodeInstance' = nodeInstance
        BY <1>2 DEF AcceptPath
      <3>2. Visible(Put(path, k, AcceptedEntry(o, ready))) =
              GrantedIn(Visible(path), k, o.instance, ready)
        BY <1>0, VisiblePut
      <3>3. Visible(path') = Visible(Put(path, k, AcceptedEntry(o, ready)))
        BY <3>1
      <3>4. QED  BY <2>1, <3>1, <3>2, <3>3 DEF PathLease!Grant, PathLease!Granted, GrantedIn
    <2>3. QED  BY <2>1, <2>2 DEF PathLease!Next
  <1>3. ASSUME NEW o \in Origin, NEW ready \in BOOLEAN,
               NEW a \in AttachmentsOn(o.node), AcceptLocal(o, a, ready)
        PROVE  [PathLease!Next]_(PathLease!vars)
    BY <1>3 DEF AcceptLocal, PathLease!vars
  <1>4. ASSUME NEW o \in Origin,
               NEW A \in SUBSET AttachmentsOn(o.node), NEW K \in SUBSET PathKeysOn(o.node),
               NEW locals \in [A -> BOOLEAN], NEW paths \in [K -> BOOLEAN],
               ApplySnapshot(o, locals, paths)
        PROVE  [PathLease!Next]_(PathLease!vars)
    <2>1. o.node \in DOMAIN nodeInstance /\ nodeInstance[o.node] = o.instance
      BY <1>4 DEF ApplySnapshot, Current
    <2>2. PathLease!Replace(o.node, paths)
      <3>1. path' = Replaced(path, o, paths) /\ nodeInstance' = nodeInstance
        BY <1>4 DEF ApplySnapshot
      <3>2. Visible(Replaced(path, o, paths)) =
              ReplacedIn(Visible(path), o.node, o.instance, paths)
        BY <1>0, VisibleReplaced
      <3>3. Visible(path') = Visible(Replaced(path, o, paths))
        BY <3>1
      <3>4. QED  BY <2>1, <3>1, <3>2, <3>3 DEF PathLease!Replace, PathLease!Granted, ReplacedIn
    <2>3. o.node \in Node /\ K \in SUBSET {s \in PathKey : HomeOf[s] = o.node}
      BY DEF Origin, PathKeysOn
    <2>4. QED  BY <2>2, <2>3 DEF PathLease!Next
  <1>5. CASE SweepExpired
    BY <1>0, <1>5, VisibleSwept DEF SweepExpired, PathLease!vars
  <1>6. ASSUME NEW a \in Attachment, ForgetLocal(a)
        PROVE  [PathLease!Next]_(PathLease!vars)
    BY <1>6 DEF ForgetLocal, PathLease!vars
  <1>7. CASE Prune
    BY <1>0, <1>7, VisiblePruned DEF Prune, PathLease!vars
  <1>8. CASE ClockTick
    <2>1. PathLease!Pass
      <3>1. path' = Aged(path) /\ nodeInstance' = nodeInstance
        BY <1>8 DEF ClockTick
      <3>2. Visible(Aged(path)) =
              [s \in {t \in DOMAIN Visible(path) : Visible(path)[t].age < TTL} |->
                 [Visible(path)[s] EXCEPT !.age = @ + 1]]
        BY <1>0, VisibleAged
      <3>3. Visible(path') = Visible(Aged(path))
        BY <3>1
      <3>4. QED  BY <3>1, <3>2, <3>3 DEF PathLease!Pass
    <2>2. QED  BY <2>1 DEF PathLease!Next
  <1>9. CASE UNCHANGED storeVars
    BY <1>9 DEF storeVars, PathLease!vars
  <1>10. QED
    BY <1>1, <1>2, <1>3, <1>4, <1>5, <1>6, <1>7, <1>8, <1>9 DEF StoreNext

LEMMA InitLeases == StoreInit => LocalLease!Init /\ PathLease!Init
  BY DEF StoreInit, LocalLease!Init, PathLease!Init, Visible, Fresh, Empty

\* Seen through HealthStore.Local, every history of the store is one of the
\* lease table: only AdoptInstance changes who may grant, only the process in
\* charge grants, evidence lapses by itself, SweepExpired and Prune do not show.
THEOREM StoreImplementsLocalLease == StoreSpec => ImplementsLocalLease
  BY InitLeases, StepLocalLease, StoreTypeCorrect, PTL
  DEF StoreSpec, ImplementsLocalLease, LocalLease!Spec

\* The same through HealthStore.Path, with no way to give a lease up early.
THEOREM StoreImplementsPathLease == StoreSpec => ImplementsPathLease
  BY InitLeases, StepPathLease, StoreTypeCorrect, PTL
  DEF StoreSpec, ImplementsPathLease, PathLease!Spec
=============================================================================
