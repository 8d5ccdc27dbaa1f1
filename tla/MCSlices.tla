----------------------------- MODULE MCSlices -----------------------------
(* One Service whose three Pods come and go unobserved: two claim one IPv4   *)
(* address, the third adds a slice of the other family.                      *)
EXTENDS Publication

CONSTANTS n1, i1, s1, a1, a2, a3, v4, v6

MCHomeOf == [a \in Attachment |-> n1]
MCSelects == [s \in Service |-> Attachment]
MCFamilyOf == [a \in Attachment |-> IF a = a3 THEN v6 ELSE v4]
MCAddressOf == [a \in Attachment |-> IF a = a3 THEN 2 ELSE 1]
MCPathKeyOf == [a \in Attachment |-> a]
=============================================================================
