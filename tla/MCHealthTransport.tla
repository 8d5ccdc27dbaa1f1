------------------------- MODULE MCHealthTransport -------------------------
(***************************************************************************)
(* A model of HealthTransport: one node, one attachment with a path, and   *)
(* one of two casts. Either i3 alone, which numbers two sweeps, so that    *)
(* it sends deltas and retirements too, while observations and the         *)
(* registry change; or i1 and i2, of which i1 may be a straggler, and      *)
(* nothing but the attachment is there to be reported.                     *)
(***************************************************************************)
EXTENDS HealthTransport

CONSTANTS n1, i1, i2, i3, a1, d1

VARIABLE cast   \* the processes there are in this behaviour

MCHomeOf == [k \in Subject |-> n1]
MCBehind == [k \in PathKey |-> a1]
MCNodeOf == [i \in Instance |-> n1]
MCSweeps == [i \in Instance |-> IF i = i3 THEN 2 ELSE 1]

MCInit == Init /\ cast \in {{i3}, {i1, i2}}

\* Who is not in the cast dies before anything else happens.
Extras == {i \in Instance \ cast : agents[i].alive}

\* Bounds for the cast of two.
Pair ==
    i1 \in cast =>
        /\ DOMAIN seen' \subseteq Attachment
        /\ known' = known
        /\ \A st \in Stream : Len(streams'[st].inbox) <= 3

\* Bound for i3: a snapshot that repeats the last number is sent once everything
\* before it has been handled.
RepeatsAlone ==
    \A st \in Stream :
        /\ agents[i3].seq = Sweeps[i3]
        /\ Len(streams'[st].inbox) > Len(streams[st].inbox)
        /\ streams[st].by = i3
        => streams[st].inbox = <<>>

MCNext ==
    /\ IF Extras # {} THEN \E i \in Extras : AgentDies(i) ELSE Next
    /\ Pair /\ RepeatsAlone
    /\ UNCHANGED cast

MCSpec == MCInit /\ [][MCNext]_<<vars, cast>> /\ Fairness /\ Quiet
=============================================================================
