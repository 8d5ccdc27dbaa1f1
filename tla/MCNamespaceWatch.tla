-------------------------- MODULE MCNamespaceWatch --------------------------
(* A Pod with a dual-stack attachment whose sandbox is recreated; and every  *)
(* Pod with up to two network-status entries, for Attachments' operators.    *)
EXTENDS NamespaceWatch, Sequences

CONSTANTS p1, a1, b1

MCPodOf == [q \in Path |-> p1]
MCHostOf == [a \in Attachment |-> p1]

Derivation == INSTANCE Attachments

Refs == {<< >>, <<"net">>, <<"ns", "net">>, <<"", "net">>, <<"ns", "net", "x">>}

MCServices ==
    [namespace : {"ns"}, annotated : BOOLEAN, headless : {TRUE}, selector : BOOLEAN, network : Refs,
     workload : [given : {TRUE}, parses : BOOLEAN, labels : {{"l"}}]]

MCEntries ==
    [name : {<<"ns", "net">>, <<"ns", "other">>}, interface : {"net1"}, default : BOOLEAN,
     ips : {{[address |-> 1, parses |-> TRUE], [address |-> 2, parses |-> FALSE]}}]

MCPods ==
    [uid : {"u"}, namespace : {"ns", "other"}, node : {"n1", "n2"}, labels : {{}, {"l"}},
     deleting : {FALSE}, phase : {"Running", "Failed"},
     status : [written : BOOLEAN, parses : BOOLEAN, entries : UNION {[1..n -> MCEntries] : n \in 0..2}]]

\* A bare and a full reference mean the same network, and a malformed one none.
ASSUME ReferencesResolve ==
    {r \in Refs : Derivation!CanonicalNAD(r, "ns") = <<"ns", "net">>} = {<<"net">>, <<"ns", "net">>}

\* A Pod attached twice, or to the default network only, is skipped.
ASSUME PrimaryLeftOut ==
    \A pod \in MCPods :
        /\ Derivation!NeverPrimary(pod, <<"ns", "net">>)
        /\ Derivation!FromPod(pod, <<"ns", "net">>) # {} =>
              Cardinality({i \in DOMAIN pod.status.entries :
                             pod.status.entries[i].name = <<"ns", "net">> /\ ~pod.status.entries[i].default}) = 1

\* Agent and controller agree on every node, Service by Service.
ASSUME SameAttachments ==
    \A svc \in MCServices, node \in {"n1", "n2"} : Derivation!AgentCoversNode({svc}, MCPods, node)
=============================================================================
