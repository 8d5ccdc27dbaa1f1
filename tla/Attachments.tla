---------------------------- MODULE Attachments ----------------------------
(***************************************************************************)
(* Which addresses are attachments: attach/attach.go and                   *)
(* multus/network_status.go as operators, and the two places that put them *)
(* together, the discovery of ServiceReconciler and Agent.targets.         *)
(*                                                                         *)
(* A Service, a Pod and an entry of the network-status annotation are      *)
(* records. A network reference is the sequence of its parts between       *)
(* slashes, without what follows "@"; an annotation that is absent, blank  *)
(* or does not parse says so in a field.                                   *)
(***************************************************************************)
EXTENDS Naturals, Sequences, FiniteSets

-----------------------------------------------------------------------------
(* network_status.go. *)

Invalid == << >>

\* "ns/name"; a bare name is of the namespace at hand.
CanonicalNAD(ref, namespace) ==
    CASE Len(ref) = 1 /\ namespace # ""               -> <<namespace, ref[1]>>
      [] Len(ref) = 2 /\ ref[1] # "" /\ ref[2] # ""   -> ref
      [] OTHER                                        -> Invalid

\* Parse: without the annotation there are no entries, and that is no error.
Entries(pod) == IF pod.status.written THEN pod.status.entries ELSE << >>

\* Select: the entries of the network, the default network's left out.
Found(list, nad) == {i \in DOMAIN list : ~list[i].default /\ list[i].name = nad}

Unambiguous(list, nad) == \E i \in DOMAIN list : Found(list, nad) = {i}

Select(list, nad) == list[CHOOSE i \in DOMAIN list : Found(list, nad) = {i}]

\* Addresses: what parses as an address, without its prefix length.
Addresses(entry) == {raw.address : raw \in {r \in entry.ips : r.parses}}

-----------------------------------------------------------------------------
(* attach.go. *)

Managed(svc) == svc.annotated

Validate(svc) == svc.headless /\ ~svc.selector

NAD(svc) == CanonicalNAD(svc.network, svc.namespace)

\* Selector: an absent or blank one is an error, not a selector of everything.
Selects(svc) == svc.workload.given /\ svc.workload.parses

Matches(svc, pod) == svc.workload.labels \subseteq pod.labels

Eligible(pod) == ~pod.deleting /\ pod.phase \notin {"Succeeded", "Failed"}

\* An attachment as far as ID() and the agent tell it apart.
AttachmentOf(pod, nad, entry, ip) ==
    [pod |-> pod.uid, node |-> pod.node, nad |-> nad, interface |-> entry.interface, ip |-> ip]

\* FromPod: nothing for a Pod whose annotation does not parse, that is not attached
\* to the network, or more than once.
FromPod(pod, nad) ==
    IF pod.status.parses /\ Unambiguous(Entries(pod), nad)
    THEN LET entry == Select(Entries(pod), nad)
         IN  {AttachmentOf(pod, nad, entry, ip) : ip \in Addresses(entry)}
    ELSE {}

-----------------------------------------------------------------------------
(* ServiceReconciler.Reconcile and Agent.targets. *)

\* The Service gets as far as listing Pods.
Published(svc) == Managed(svc) /\ Validate(svc) /\ NAD(svc) # Invalid /\ Selects(svc)

\* The controller lists the Pods of the namespace by the selector.
Listed(svc, pods) == {pod \in pods : pod.namespace = svc.namespace /\ Matches(svc, pod)}

Discovered(svc, pods) ==
    IF Published(svc)
    THEN UNION {FromPod(pod, NAD(svc)) : pod \in {p \in Listed(svc, pods) : Eligible(p)}}
    ELSE {}

\* The agent has the Pods of its node in its cache, and no others.
Cached(pods, node) == {pod \in pods : pod.node = node}

TargetsOf(svc, nodePods) ==
    UNION {FromPod(pod, NAD(svc)) :
             pod \in {p \in nodePods : p.namespace = svc.namespace /\ Eligible(p) /\ Matches(svc, p)}}

Targets(svcs, nodePods) == UNION {TargetsOf(svc, nodePods) : svc \in {s \in svcs : Published(s)}}

-----------------------------------------------------------------------------
(* Properties. *)

\* The agent of a node watches exactly what the controller publishes of that node:
\* nothing that is published goes without evidence for want of being observed, and
\* nothing is reported that no Service claims.
AgentCoversNode(svcs, pods, node) ==
    Targets(svcs, Cached(pods, node))
        = {a \in UNION {Discovered(svc, pods) : svc \in svcs} : a.node = node}

\* What is published of a Pod is an address of its one attachment to the network,
\* and never one that only its default network carries.
NeverPrimary(pod, nad) ==
    \A a \in FromPod(pod, nad) :
        \E i \in DOMAIN Entries(pod) :
            /\ ~Entries(pod)[i].default /\ Entries(pod)[i].name = nad
            /\ a.ip \in Addresses(Entries(pod)[i]) /\ a.interface = Entries(pod)[i].interface
            /\ \A j \in DOMAIN Entries(pod) :
                  ~Entries(pod)[j].default /\ Entries(pod)[j].name = nad => j = i
=============================================================================
