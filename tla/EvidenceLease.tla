--------------------------- MODULE EvidenceLease ---------------------------
(***************************************************************************)
(* What the health store promises its readers, with no bookkeeping: each   *)
(* subject (an attachment or a path key) is either under a lease or        *)
(* Unknown.  A lease says what was last observed and by which agent        *)
(* process, is granted only by the process in charge of the subject's      *)
(* node, and lapses by itself once it has gone TTL ticks without renewal.  *)
(***************************************************************************)
EXTENDS Integers

CONSTANTS
    Node,        \* the cluster's nodes
    Instance,    \* agent processes; a restarted agent is a new one
    Subject,     \* what a lease is about
    Home,        \* the node each subject lives on, [Subject -> Node]
    Retirable,   \* the subjects whose lease may be given up on its own
    TTL          \* how many ticks a lease outlives its last renewal

VARIABLES
    holder,      \* node -> the process in charge of it, where there is one
    lease        \* subject -> its lease, where it has one

vars == <<holder, lease>>

Granted(i, ready) == [ready |-> ready, by |-> i, age |-> 0]

Init ==
    /\ holder = [n \in {} |-> n]
    /\ lease = [s \in {} |-> s]

\* A process takes charge of a node. Leases granted by others keep running.
Appoint(n, i) ==
    /\ holder' = [m \in DOMAIN holder \cup {n} |-> IF m = n THEN i ELSE holder[m]]
    /\ UNCHANGED lease

\* The process in charge of a subject's node grants or renews its lease.
Grant(s, ready) ==
    /\ Home[s] \in DOMAIN holder
    /\ lease' = [t \in DOMAIN lease \cup {s} |->
                    IF t = s THEN Granted(holder[Home[s]], ready) ELSE lease[t]]
    /\ UNCHANGED holder

\* The process in charge of n replaces all leases of n by those of reports, a
\* function from subjects of n to what was observed of them.
Replace(n, reports) ==
    /\ n \in DOMAIN holder
    /\ lease' = [t \in {s \in DOMAIN lease : Home[s] # n} \cup DOMAIN reports |->
                    IF t \in DOMAIN reports THEN Granted(holder[n], reports[t])
                                            ELSE lease[t]]
    /\ UNCHANGED holder

\* The lease of a subject that is gone is given up.
GiveUp(s) ==
    /\ lease' = [t \in DOMAIN lease \ {s} |-> lease[t]]
    /\ UNCHANGED holder

\* Time passes: every lease ages, and one that has reached TTL is no more.
Pass ==
    /\ lease' = [s \in {t \in DOMAIN lease : lease[t].age < TTL} |->
                    [lease[s] EXCEPT !.age = @ + 1]]
    /\ UNCHANGED holder

Next ==
    \/ \E n \in Node, i \in Instance : Appoint(n, i)
    \/ \E s \in Subject, ready \in BOOLEAN : Grant(s, ready)
    \/ \E n \in Node : \E S \in SUBSET {s \in Subject : Home[s] = n} :
           \E reports \in [S -> BOOLEAN] : Replace(n, reports)
    \/ \E s \in Retirable : GiveUp(s)
    \/ Pass

Spec == Init /\ [][Next]_vars
=============================================================================
