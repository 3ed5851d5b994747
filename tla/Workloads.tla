----------------------------- MODULE Workloads -----------------------------
(***************************************************************************)
(* internal/collect/collector.go: how the lists of one poll become the     *)
(* nodes, the workloads and the totals of a snapshot.                      *)
(*                                                                         *)
(* The lists are taken one after another while the cluster changes, and    *)
(* pods are joined to their workloads by name alone.  A snapshot is a      *)
(* function of the lists, so it is an operator here and no variable.       *)
(*                                                                         *)
(* A name is the sequence of its parts between dashes.  The quantities of  *)
(* a pod are summed alike: its restarts stand for all of them.             *)
(***************************************************************************)
EXTENDS Integers, Sequences, FiniteSets, FiniteSetsExt, SequencesExt

CONSTANTS
    Pods,         \* names of pods
    Templates,    \* what a pod is made from: namespace, owners, labels, true owner
    NodeNames,
    Deployments,  \* keys [ns, name] of the Deployments there may be
    HashLike,     \* the parts of a name that match [a-z0-9]{8,10}
    Desired,      \* d.Spec.Replicas
    MaxRestarts,  \* restarts of a pod (bounds the runs)
    MaxChanges    \* changes of the cluster during a poll (bounds the runs)

\* A field of a pod that nobody has set yet.
Unset == ""

ASSUME WorkloadsAssumption ==
    /\ IsFiniteSet(Pods)
    /\ Unset \notin NodeNames
    /\ \A d \in Deployments : d = [ns |-> d.ns, name |-> d.name]
    /\ Desired \in Nat /\ MaxRestarts \in Nat /\ MaxChanges \in Nat

ASSUME TemplatesAssumption == \A t \in Templates : DOMAIN t = {"ns", "refs", "labels", "root"}

-----------------------------------------------------------------------------
(* Names: the part of the builders that reads a pod's owners and labels.    *)

\* (bug) the name of a ReplicaSet is taken as it stands
KeptHash(name) == name

HasHash(name) == Len(name) > 1 /\ Last(name) \in HashLike

\* rsHash: the hash goes if it has 8 to 10 characters.
StripHash(name) == IF HasHash(name) THEN Front(name) ELSE name

Recognised(ref) == ref.kind \in {"ReplicaSet", "StatefulSet", "DaemonSet", "Job"}

Known(p) == {i \in DOMAIN p.refs : Recognised(p.refs[i])}
owner(p) == p.refs[Min(Known(p))]

\* The first owner of a kind it knows, else a label, else the pod's own name.
workloadOf(p) ==
    IF Known(p) # {}
      THEN IF owner(p).kind = "ReplicaSet" THEN StripHash(owner(p).name) ELSE owner(p).name
    ELSE IF "app" \in DOMAIN p.labels THEN p.labels["app"]
    ELSE IF "app.kubernetes.io/name" \in DOMAIN p.labels THEN p.labels["app.kubernetes.io/name"]
    ELSE <<p.pod>>

\* What makes a pod, in truth: its owner; the Deployment whose ReplicaSet owns it; or,
\* if nobody does, its label.
ASSUME RootAssumption == \A t \in Templates :
    IF Known(t) = {}
      THEN \A l \in {"app", "app.kubernetes.io/name"} \cap DOMAIN t.labels :
             l = "app" \/ "app" \notin DOMAIN t.labels => t.root = t.labels[l]
    ELSE \/ t.root = owner(t).name
         \/ /\ owner(t).kind = "ReplicaSet"
            /\ t.root = Front(owner(t).name) /\ t.root # owner(t).name

\* A pod that nobody owns or labels stands for itself.
Root(p, t) ==
    IF Known(t) = {} /\ {"app", "app.kubernetes.io/name"} \cap DOMAIN t.labels = {}
      THEN <<p>> ELSE t.root

-----------------------------------------------------------------------------

VARIABLES
    pods,         \* the pods of the cluster: a partial function from Pods
    nodes,        \* its nodes, and whether each is ready
    deployments,  \* its Deployments, and status.readyReplicas of each
    hpas,         \* the targets of its HorizontalPodAutoscalers
    stage,        \* the list collect takes next
    listed,       \* what the poll has listed
    touched       \* what has changed since it began: nodes, workloads, number of changes

cluster == <<pods, nodes, deployments, hpas>>
vars == <<cluster, stage, listed, touched>>

Nothing == [x \in {} |-> x]
NothingListed ==
    [pods |-> Nothing, nodes |-> Nothing, deployments |-> Nothing, hpas |-> {}, hpaErr |-> FALSE]
Untouched == [keys |-> {}, nodes |-> {}, changes |-> 0]

Init ==
    /\ pods = Nothing /\ nodes = Nothing /\ deployments = Nothing /\ hpas = {}
    /\ stage = "nodes" /\ listed = NothingListed /\ touched = Untouched

Without(f, x) == [y \in DOMAIN f \ {x} |-> f[y]]
With(f, x, v) == [y \in DOMAIN f \cup {x} |-> IF y = x THEN v ELSE f[y]]

-----------------------------------------------------------------------------
(* The cluster.  A workload is touched under the key it truly has.          *)

RootKey(p) == [ns |-> p.ns, name |-> p.root]

Touch(K, N) ==
    /\ touched.changes < MaxChanges
    /\ touched' = [keys |-> touched.keys \cup K, nodes |-> touched.nodes \cup N,
                   changes |-> touched.changes + 1]
    /\ UNCHANGED <<stage, listed>>

SetPod(p, q) ==
    /\ pods' = With(pods, p, q)
    /\ Touch({RootKey(q)}, {q.node})
    /\ UNCHANGED <<nodes, deployments, hpas>>

Made(p, t, node, phase, restarts) ==
    [pod |-> p, ns |-> t.ns, refs |-> t.refs, labels |-> t.labels, root |-> Root(p, t),
     node |-> node, phase |-> phase, restarts |-> restarts]

Create(p, t) ==
    /\ p \notin DOMAIN pods
    /\ SetPod(p, Made(p, t, Unset, Unset, 0))

\* A pod may be bound to a node that is gone: its eviction takes minutes.
Bind(p, n) ==
    /\ p \in DOMAIN pods /\ pods[p].node = Unset
    /\ SetPod(p, [pods[p] EXCEPT !.node = n, !.phase = "Pending"])

Run(p) ==
    /\ p \in DOMAIN pods /\ pods[p].phase = "Pending"
    /\ SetPod(p, [pods[p] EXCEPT !.phase = "Running"])

Restart(p) ==
    /\ p \in DOMAIN pods /\ pods[p].phase = "Running" /\ pods[p].restarts < MaxRestarts
    /\ SetPod(p, [pods[p] EXCEPT !.restarts = @ + 1])

Delete(p) ==
    /\ p \in DOMAIN pods
    /\ pods' = Without(pods, p)
    /\ Touch({RootKey(pods[p])}, {pods[p].node})
    /\ UNCHANGED <<nodes, deployments, hpas>>

NodeChanges(n) ==
    /\ \/ \E r \in BOOLEAN : nodes' = With(nodes, n, r)
       \/ nodes' = Without(nodes, n)
    /\ nodes' # nodes
    /\ Touch({}, {n})
    /\ UNCHANGED <<pods, deployments, hpas>>

DeploymentChanges(d) ==
    /\ \/ \E r \in 0..Desired : deployments' = With(deployments, d, r)
       \/ deployments' = Without(deployments, d)
    /\ deployments' # deployments
    /\ Touch({d}, {})
    /\ UNCHANGED <<pods, nodes, hpas>>

HpaChanges(d) ==
    /\ hpas' = IF d \in hpas THEN hpas \ {d} ELSE hpas \cup {d}
    /\ Touch({d}, {})
    /\ UNCHANGED <<pods, nodes, deployments>>

ClusterChanges ==
    \/ \E p \in Pods :
         \/ \E t \in Templates : Create(p, t)
         \/ \E n \in NodeNames : Bind(p, n)
         \/ Run(p) \/ Restart(p) \/ Delete(p)
    \/ \E n \in NodeNames : NodeChanges(n)
    \/ \E d \in Deployments : DeploymentChanges(d) \/ HpaChanges(d)

-----------------------------------------------------------------------------
(* collect: the lists of one poll, each a state of the cluster of its own.  *)

ListNodes ==
    /\ stage = "nodes"
    /\ stage' = "pods"
    /\ listed' = [NothingListed EXCEPT !.nodes = nodes]
    /\ touched' = Untouched
    /\ UNCHANGED cluster

ListPods ==
    /\ stage = "pods"
    /\ stage' = "deployments"
    /\ listed' = [listed EXCEPT !.pods = pods]
    /\ UNCHANGED <<cluster, touched>>

ListDeployments ==
    /\ stage = "deployments"
    /\ stage' = "hpas"
    /\ listed' = [listed EXCEPT !.deployments = deployments]
    /\ UNCHANGED <<cluster, touched>>

\* The error of this list is dropped; the poll goes on with what it has.
ListHPAs ==
    /\ stage = "hpas"
    /\ stage' = "listed"
    /\ \E err \in BOOLEAN :
         listed' = [listed EXCEPT !.hpas = IF err THEN {} ELSE hpas, !.hpaErr = err]
    /\ UNCHANGED <<cluster, touched>>

\* The snapshot is published; the next poll starts over.
Publish ==
    /\ stage = "listed"
    /\ stage' = "nodes"
    /\ listed' = NothingListed
    /\ touched' = Untouched
    /\ UNCHANGED cluster

Next == ClusterChanges \/ ListNodes \/ ListPods \/ ListDeployments \/ ListHPAs \/ Publish

Spec == Init /\ [][Next]_vars

-----------------------------------------------------------------------------
(* The builders.                                                            *)

KeyOf(p) == [ns |-> p.ns, name |-> workloadOf(p)]

\* buildPods
podList == {listed.pods[p] : p \in DOMAIN listed.pods}
byNode(n) == {p \in podList : p.node # Unset /\ p.node = n}
byMS(k) == {p \in podList : KeyOf(p) = k}

Restarts(P) == SumFunction([p \in P |-> p.restarts])
RunningIn(P) == Cardinality({p \in P : p.phase = "Running"})

msEntry(kind, want, ready, P, hpa) ==
    [kind |-> kind, desired |-> want, running |-> RunningIn(P), restarts |-> Restarts(P),
     ready |-> IF ready = 0 THEN RunningIn(P) ELSE ready,
     nodes |-> {p.node : p \in P} \ {Unset}, hpa |-> hpa]

Keys == DOMAIN listed.deployments \cup {KeyOf(p) : p \in podList}

buildMicroservices ==
    [k \in Keys |->
       IF k \in DOMAIN listed.deployments
         THEN msEntry("Deployment", Desired, listed.deployments[k], byMS(k), k \in listed.hpas)
         ELSE msEntry("Other", Cardinality(byMS(k)), 0, byMS(k), k \in listed.hpas)]

buildNodes ==
    [n \in DOMAIN listed.nodes |->
       [ready |-> listed.nodes[n], podCount |-> Cardinality(byNode(n)),
        workloads |-> {workloadOf(p) : p \in byNode(n)}]]

PhaseOf(p) == IF p.phase = Unset THEN "Unknown" ELSE p.phase

buildCluster ==
    [nodes |-> Cardinality(DOMAIN buildNodes),
     ready |-> Cardinality({n \in DOMAIN buildNodes : buildNodes[n].ready}),
     workloads |-> Cardinality(DOMAIN buildMicroservices),
     pods |-> Cardinality(podList),
     byPhase |-> [ph \in {PhaseOf(p) : p \in podList} |->
                    Cardinality({p \in podList : PhaseOf(p) = ph})]]
-----------------------------------------------------------------------------
(* The detail page of a workload: microserviceDetail (internal/api/server.go). *)

\* (bug) the namespace is forgotten
DetailOfAnyNamespace(k) == {p \in podList : workloadOf(p) = k.name}

DetailPods(k) == {p \in podList : p.ns = k.ns /\ workloadOf(p) = k.name}

-----------------------------------------------------------------------------
(* Properties.                                                              *)

\* A name misleads when a ReplicaSet of a Deployment has a hash that is shorter than
\* the pattern, or one of nobody's has a name that ends like a hash.
Misleads(p) ==
    /\ Known(p) # {} /\ owner(p).kind = "ReplicaSet"
    /\ HasHash(owner(p).name) # (owner(p).name # p.root)

\* Such a pod blurs the workloads it may be taken for.
Blurred(k) ==
    \E p \in podList : Misleads(p) /\ p.ns = k.ns
      /\ k.name \in {p.root, owner(p).name, Front(owner(p).name)}

PodsOf(k) == {p \in {pods[x] : x \in DOMAIN pods} : RootKey(p) = k}

\* A node that has not changed since the poll began is published as it is.
UntouchedNodes ==
    \A n \in NodeNames \ touched.nodes :
      /\ n \in DOMAIN buildNodes <=> n \in DOMAIN nodes
      /\ n \in DOMAIN nodes =>
           /\ buildNodes[n].ready = nodes[n]
           /\ buildNodes[n].podCount = Cardinality({x \in DOMAIN pods : pods[x].node = n})

\* The lists of a poll are states of the cluster at different moments, and names are
\* all that joins them (collector.go:126-153, 246-324, 410-429).  Whatever else changes
\* meanwhile, a workload that has not changed since the poll began is published as
\* it is: its kind, its pods, their nodes and sums, its replicas and its autoscaler.
UntouchedIsExact ==
    stage = "listed" => UntouchedNodes /\ \A k \in Deployments \cup Keys :
      k \notin touched.keys /\ ~Blurred(k) =>
        /\ k \in DOMAIN buildMicroservices <=> k \in DOMAIN deployments \/ PodsOf(k) # {}
        /\ k \in DOMAIN buildMicroservices =>
             LET e == buildMicroservices[k]
                 own == PodsOf(k) IN
               /\ DetailPods(k) = own
               /\ e.restarts = Restarts(own) /\ e.running = RunningIn(own)
               /\ e.nodes = {p.node : p \in own} \ {Unset}
               /\ IF k \in DOMAIN deployments
                    THEN e.kind = "Deployment" /\ e.desired = Desired
                           /\ deployments[k] > 0 => e.ready = deployments[k]
                    ELSE e.kind = "Other" /\ e.desired = Cardinality(own)
               /\ ~listed.hpaErr => (e.hpa <=> k \in hpas)

\* However torn the lists are, no pod is lost or counted twice between the pages: the
\* detail pages (server.go:193-198) split the pods that the entries, the phases and
\* the totals count; a pod is missing under the nodes only if its node was not
\* listed (collector.go:148-155, 263-266, 384-398).
TotalsAgree ==
    stage = "listed" =>
      LET ms == buildMicroservices
          cl == buildCluster IN
        /\ \A k \in DOMAIN ms : ms[k].restarts = Restarts(DetailPods(k))
        /\ SumFunction([k \in DOMAIN ms |-> Cardinality(DetailPods(k))]) = cl.pods
        /\ SumFunction([k \in DOMAIN ms |-> ms[k].restarts]) = Restarts(podList)
        /\ SumFunction(cl.byPhase) = cl.pods
        /\ SumFunction([n \in DOMAIN buildNodes |-> buildNodes[n].podCount])
             = cl.pods - Cardinality({p \in podList : p.node \notin DOMAIN listed.nodes})
=============================================================================
