--------------------------- MODULE MCHealthStore ---------------------------
(* The store alone: the local evidence of an attachment and the evidence     *)
(* about two path domains, of the attachment's node and of another.          *)
EXTENDS HealthStore

CONSTANTS n1, n2, i1, i2, a1, d1, d2

MCHomeOf == [k \in Attachment \cup PathKey |-> IF k = d2 THEN n2 ELSE n1]
=============================================================================
