---------------------------- MODULE MCController ----------------------------
(* Two Services that publish one Pod, two agent processes on its node, and at *)
(* most Budget steps that come from outside the controller's own goroutines:  *)
(* envelopes, ticks, restarts, API errors, and Pods and slices changed by     *)
(* others.                                                                    *)
EXTENDS Controller, TLC

CONSTANTS n1, a1, d1, v4, Budget

VARIABLE budget

MCHomeOf == [k \in Attachment \cup PathKey |-> n1]
MCSelects == [s \in Service |-> Attachment]
MCFamilyOf == [a \in Attachment |-> v4]
MCAddressOf == [a \in Attachment |-> 1]
MCPathKeyOf == [a \in Attachment |-> d1]

\* What the API server does: it refuses a write, or others changed a Pod or a slice.
FromCluster ==
    \/ P!WriteFails
    \/ \E a \in Attachment, state \in PodState : P!PodEvent(a, state)
    \/ \E s \in Service, f \in Family : P!SliceDeleted(s, f)

Outside == Handlers \/ TimePasses \/ Restart \/ (Elsewhere /\ FromCluster)

Inside == Sweeper \/ (Elsewhere /\ ~FromCluster)

BudgetInit == Init /\ budget = Budget

BudgetNext ==
    \/ budget > 0 /\ Outside /\ budget' = budget - 1
    \/ Inside /\ UNCHANGED budget

BudgetSpec == BudgetInit /\ [][BudgetNext]_<<vars, budget>>

\* The Services are alike; so are the processes, and Anonymous shows none of them.
Symmetry == Permutations(Instance) \cup Permutations(Service)
=============================================================================
