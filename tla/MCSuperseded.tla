--------------------------- MODULE MCSuperseded ----------------------------
(***************************************************************************)
(* A model of HealthTransport with two processes of one node and one       *)
(* attachment, each of which numbers two sweeps.                           *)
(***************************************************************************)
EXTENDS HealthTransport

CONSTANTS n1

MCHomeOf == [k \in Subject |-> n1]
MCBehind == [k \in PathKey |-> CHOOSE a \in Attachment : TRUE]
MCNodeOf == [i \in Instance |-> n1]
MCSweeps == [i \in Instance |-> 2]
=============================================================================
