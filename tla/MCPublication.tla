--------------------------- MODULE MCPublication ---------------------------
(* One Service, one node, Endpoint scope: each attachment has its path key.  *)
EXTENDS Publication

CONSTANTS n1, i1, s1, a1, d1, v4

MCHomeOf == [k \in Attachment \cup PathKey |-> n1]
MCSelects == [s \in Service |-> Attachment]
MCFamilyOf == [a \in Attachment |-> v4]
MCAddressOf == [a \in Attachment |-> 1]
MCPathKeyOf == [a \in Attachment |-> d1]
=============================================================================
