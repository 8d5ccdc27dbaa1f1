----------------------------- MODULE HealthMaps -----------------------------
(***************************************************************************)
(* The data of internal/controller/health_store.go: entries, the two maps  *)
(* they are kept in, and what each operation does to one map.              *)
(*                                                                         *)
(* A Go map is a function whose domain is the set of keys present.  An     *)
(* entry carries its age, now() - AcceptedAt, instead of AcceptedAt: the   *)
(* code compares only that difference, with ttl and 2*ttl, so ages stop    *)
(* growing at AgeCap and time itself needs no bound.                       *)
(***************************************************************************)
EXTENDS Integers

CONSTANTS
    Node,         \* the nodes an agent runs on
    Instance,     \* agent processes (agent_instance_id)
    Attachment,   \* attachment ids
    PathKey,      \* path keys; under Endpoint scope the attachment ids
    HomeOf,       \* the node behind each attachment and path key
    TTL,          \* HealthStore.ttl, in ticks
    MaxSeq        \* bound: sequence numbers 1..MaxSeq

ASSUME StoreAssumption ==
    /\ TTL \in Nat
    /\ MaxSeq \in Nat
    /\ HomeOf \in [Attachment \cup PathKey -> Node]

AgeCap == 2 * TTL + 1

Sequence == 1..MaxSeq

\* model.ReportOrigin.
Origin == [node : Node, instance : Instance, seq : Sequence]

\* One origin of a node, where it does not matter which.
OriginOf(n) == CHOOSE o \in Origin : o.node = n

\* localEntry and pathEntry; ready stands for the report, collapsed by
\* LocalHealth.Ready or PathReady. Report.NodeName always equals Origin.NodeName.
Entry == [node : Node, instance : Instance, seq : Sequence,
          ready : BOOLEAN, age : 0..AgeCap, expired : BOOLEAN]

AcceptedEntry(o, ready) ==
    [node |-> o.node, instance |-> o.instance, seq |-> o.seq,
     ready |-> ready, age |-> 0, expired |-> FALSE]

-----------------------------------------------------------------------------
(* Maps. *)

Empty == [k \in {} |-> k]

Put(m, k, v) == [j \in DOMAIN m \cup {k} |-> IF j = k THEN v ELSE m[j]]

Drop(m, K) == [j \in DOMAIN m \ K |-> m[j]]

\* What HealthStore.Local and HealthStore.Path answer: whether the key is
\* present and its entry still within ttl. At exactly ttl it still counts.
Fresh(m, k) == k \in DOMAIN m /\ m[k].age <= TTL

\* HealthStore.LocalState and PathState: the tri-state view of one key.
StateOf(m, k) ==
    IF ~Fresh(m, k) THEN "Unknown" ELSE IF m[k].ready THEN "Healthy" ELSE "Unhealthy"

\* ErrOutOfOrder: this process's own entry already carries this sequence or a
\* later one. Another process's entry is never in the way.
OutOfOrder(m, o, k) ==
    k \in DOMAIN m /\ m[k].instance = o.instance /\ o.seq <= m[k].seq

\* Mutant of Replaced: the node of an entry is not looked at.
ReplacedEverywhere(m, o, reports) == [k \in DOMAIN reports |-> AcceptedEntry(o, reports[k])]

\* One map's share of ApplySnapshot: every entry of o's node goes, and reports,
\* a function from keys to what was observed, comes in under o.
Replaced(m, o, reports) ==
    [k \in {j \in DOMAIN m : m[j].node # o.node} \cup DOMAIN reports |->
        IF k \in DOMAIN reports THEN AcceptedEntry(o, reports[k]) ELSE m[k]]

\* The keys SweepExpired reports: gone stale and not reported before.
Lapsed(m) == {k \in DOMAIN m : ~m[k].expired /\ m[k].age > TTL}

\* Mutant of Swept: an entry is flagged at ttl instead of after it.
SweptEarly(m) ==
    [k \in DOMAIN m |-> IF m[k].age >= TTL THEN [m[k] EXCEPT !.expired = TRUE] ELSE m[k]]

Swept(m) ==
    [k \in DOMAIN m |-> IF k \in Lapsed(m) THEN [m[k] EXCEPT !.expired = TRUE] ELSE m[k]]

\* The keys Prune removes: accepted before now - 2*ttl.
Dead(m) == {k \in DOMAIN m : m[k].age > 2 * TTL}

Aged(m) ==
    [k \in DOMAIN m |-> [m[k] EXCEPT !.age = IF @ < AgeCap THEN @ + 1 ELSE @]]

AttachmentsOn(n) == {a \in Attachment : HomeOf[a] = n}

PathKeysOn(n) == {k \in PathKey : HomeOf[k] = n}

\* m maps keys of S to well-formed entries, each from the key's own node.
IsStoreMap(m, S) ==
    /\ DOMAIN m \subseteq S
    /\ m \in [DOMAIN m -> Entry]
    /\ \A k \in DOMAIN m : m[k].node = HomeOf[k]
=============================================================================
