-------------------------- MODULE NodeChangesProofs --------------------------
(***************************************************************************)
(* What changes of the nodes of a cluster promise.                         *)
(*                                                                         *)
(* Rollouts, for clusters of any size: at most one node is out of service  *)
(* because of them, etcd keeps its quorum, a node left drained is left by  *)
(* a rollout that reads interrupted, and one that reads succeeded has done *)
(* its work.  The invariant follows the node in work.  Before it is        *)
(* cordoned no node is drained, because Preflight saw every node           *)
(* schedulable; from then to the end of its turn no other is; and what a   *)
(* refused or failed step or a crash leaves behind is at most that node,   *)
(* still cordoned, which the Preflight of every later rollout finds.  That *)
(* a reboot is still to come cannot be seen, so the invariant carries it   *)
(* over: a node with a commanded reboot is drained, or an operator made it *)
(* schedulable, and the job itself does so only after the reboot.          *)
(*                                                                         *)
(* A configuration change, for any configurations, any number of revisions *)
(* and any number of failures: a reviewed plan is applied once, only       *)
(* proved revisions read as applied, and an apply replaces what was        *)
(* reviewed.  The invariant ties the place of the job to the durable       *)
(* status of its revision.                                                 *)
(***************************************************************************)
EXTENDS Rollout, Integers, FiniteSetTheorems, TLAPS

CONSTANTS Configs, Revs, ConfigFaults
VARIABLES revs, expired, draft, active, pending, applies, accepted, ran, drift

Conf == INSTANCE ConfigRevisions WITH MaxFaults <- ConfigFaults

-----------------------------------------------------------------------------
(* Rollouts. *)

\* Every cluster has finitely many nodes and a control plane.
Clusters == \A l \in Layouts : IsFiniteSet(DOMAIN l) /\ \E n \in DOMAIN l : l[n] = "cp"

Turn == {"evict", "command", "reboot", "wait", "uncordon"}
PerNode == {"node", "drain"} \cup Turn
Whole == {"upgrade-k8s", "apply-k8s", "wait-k8s", "finish"}
OneSpare == Cardinality(CPs) = 1 \/ Cardinality(CPs) - 1 >= Cardinality(CPs) \div 2 + 1

\* The layout is one of the clusters, and reboots and cordons are of its nodes.
Shapes == /\ role \in Layouts /\ IsFiniteSet(Nodes) /\ (\E n \in Nodes : role[n] = "cp")
          /\ booting = [n \in Nodes |-> booting[n]]
          /\ cordoned \subseteq Nodes /\ drained \subseteq cordoned

\* A job has its fields; the per-node steps are of reboots and Talos upgrades only.
JobShape ==
    job # Idle =>
      /\ job = [pc |-> job.pc, req |-> job.req, plan |-> job.plan, todo |-> job.todo,
                i |-> job.i, found |-> job.found]
      /\ job.pc \in {"preflight", "backup"} \cup PerNode \cup Whole
      /\ job.todo \subseteq Nodes
      /\ job.pc \in PerNode => job.req.kind # "kubernetes-upgrade"
      /\ job.pc \in {"drain"} \cup Turn => Node \in Nodes

\* A node that is still to reboot is drained, or an operator made it schedulable; the job does so
\* only after the reboot.
Pending == /\ \A n \in Nodes : booting[n] # 0 => n \in drained \cup unsettled
           /\ job.pc \in {"wait", "uncordon"} => booting[Node] = 0

\* Who is drained: nobody before the drain, the node in work during its turn, and at any other
\* time at most one node, left by a step that failed or was refused.
OneOut ==
    /\ \E x : drained \subseteq {x}
    /\ job.pc = "drain" => drained = {}
    /\ job.pc \in Turn => drained = {Node}

\* A node reboots only in a cluster that can miss a control plane, or has only one.
Spared == (job.pc \in {"drain"} \cup Turn \/ \E n \in Nodes : booting[n] # 0) => OneSpare

\* A rollout has drained nothing but the node in work since it found the cluster.
FoundSo == job # Idle => drained \subseteq job.found \cup (IF job.pc \in Turn THEN {Node} ELSE {})

\* After a confirmed upgrade of Kubernetes everything runs the target.
Upgraded == job.pc \in {"wait-k8s", "finish"} => api = job.req.target /\ \A n \in Nodes : kver[n] = job.req.target

Inv == Shapes /\ JobShape /\ Pending /\ OneOut /\ Spared /\ FoundSo /\ Upgraded

-----------------------------------------------------------------------------
\* At the start nothing is cordoned or rebooting.
LEMMA RolloutInit == ASSUME Clusters, Init PROVE Inv
<1>1. role \in Layouts /\ IsFiniteSet(Nodes) /\ (\E n \in Nodes : role[n] = "cp")
  BY DEF Clusters, Init, Nodes
<1>2. booting = [n \in Nodes |-> 0] /\ cordoned = {} /\ drained = {} /\ job = Idle BY DEF Init
<1>3. Shapes BY <1>1, <1>2 DEF Shapes
<1>4. job.pc = "idle" /\ \A n \in Nodes : booting[n] = 0 BY <1>2 DEF Idle
<1>5. JobShape /\ Pending /\ OneOut /\ Spared /\ FoundSo /\ Upgraded
  BY <1>2, <1>4 DEF JobShape, Pending, OneOut, Spared, FoundSo, Upgraded, Turn
<1> QED BY <1>3, <1>5 DEF Inv

\* A Preflight that passes has seen no node of an earlier rollout drained, and a control plane to
\* spare when nodes are to be rebooted.
LEMMA PreflightSees ==
    ASSUME Shapes, NEW r, Preflight(r)
    PROVE  drained = {} /\ (r.kind # "kubernetes-upgrade" => OneSpare)
<1>1. \A n \in Nodes : n \notin cordoned BY DEF Preflight, NodeFit
<1>2. drained = {} BY <1>1 DEF Shapes
<1>3. r.kind # "kubernetes-upgrade" => OneSpare
  BY DEF Preflight, QuorumSpares, OneSpare
<1> QED BY <1>2, <1>3

\* A step that leaves the cluster alone keeps what is said of it.
LEMMA ClusterStays ==
    ASSUME Inv, UNCHANGED <<role, cluster>>
    PROVE  Shapes' /\ OneSpare' = OneSpare /\ Nodes' = Nodes
<1> USE DEF cluster
<1>1. Nodes' = Nodes /\ CPs' = CPs BY DEF Nodes, CPs
<1>2. OneSpare' = OneSpare BY <1>1 DEF OneSpare
<1>3. Shapes' BY <1>1 DEF Inv, Shapes
<1> QED BY <1>1, <1>2, <1>3

\* So does a step that ends the job.
LEMMA JobEnds ==
    ASSUME Inv, UNCHANGED <<role, cluster>>, job' = Idle
    PROVE  Inv'
<1>1. Shapes' /\ OneSpare' = OneSpare /\ Nodes' = Nodes BY ClusterStays
<1>2. job'.pc = "idle" BY DEF Idle
<1>3. JobShape' /\ FoundSo' BY DEF JobShape, FoundSo, Idle
<1>4. OneOut' /\ Pending' BY <1>1, <1>2 DEF Inv, OneOut, Pending, Turn, cluster
<1>5. Spared' BY <1>1, <1>2 DEF Inv, Spared, Turn, cluster
<1>6. Upgraded' BY <1>2 DEF Upgraded
<1> QED BY <1>1, <1>3, <1>4, <1>5, <1>6 DEF Inv

\* And a step that moves the job on, when the place it moves to is entered as the code enters it.
LEMMA JobMoves ==
    ASSUME Inv, UNCHANGED <<role, cluster>>, job # Idle, NEW p, NEW q, NEW T, NEW k,
           job' = [pc |-> p, req |-> job.req, plan |-> q, todo |-> T, i |-> k, found |-> job.found],
           p \in {"backup", "node", "drain", "command", "wait", "uncordon", "upgrade-k8s", "apply-k8s",
                  "finish"},
           T \subseteq Nodes,
           p \in PerNode => job.req.kind # "kubernetes-upgrade",
           p = "drain" => drained = {} /\ OneSpare /\ q[k] \in Nodes,
           p \in Turn => job.pc \in Turn /\ q = job.plan /\ k = job.i,
           p \notin Turn => job.pc \notin Turn,
           p \in {"wait", "uncordon"} => booting[Node] = 0,
           p = "finish" => job.pc = "wait-k8s"
    PROVE  Inv'
<1>1. Shapes' /\ OneSpare' = OneSpare /\ Nodes' = Nodes BY ClusterStays
<1>2. job'.pc = p /\ job'.req = job.req /\ job'.plan = q /\ job'.todo = T /\ job'.i = k /\ job'.found = job.found
  OBVIOUS
<1>3. p \in Turn => Node' = Node BY <1>2 DEF Node
<1>4. JobShape'
  <2>1. p \in {"drain"} \cup Turn => Node' \in Nodes BY <1>2, <1>3 DEF Inv, JobShape, Node
  <2> QED BY <1>1, <1>2, <2>1 DEF JobShape, PerNode, Whole, Turn
<1>5. OneOut' BY <1>1, <1>2, <1>3 DEF Inv, OneOut, Turn, cluster
<1>6. Pending' BY <1>1, <1>2, <1>3 DEF Inv, Pending, Turn, cluster
<1>7. Spared' BY <1>1, <1>2 DEF Inv, Spared, cluster
<1>8. FoundSo' BY <1>1, <1>2, <1>3 DEF Inv, FoundSo, cluster
<1>9. Upgraded' BY <1>1, <1>2 DEF Inv, Upgraded, cluster
<1> QED BY <1>1, <1>4, <1>5, <1>6, <1>7, <1>8, <1>9 DEF Inv

\* What a job is when it is at one of its steps.
LEMMA AtWork ==
    ASSUME Inv, job.pc # "idle"
    PROVE  /\ job # Idle
           /\ job = [pc |-> job.pc, req |-> job.req, plan |-> job.plan, todo |-> job.todo,
                     i |-> job.i, found |-> job.found]
           /\ job.todo \subseteq Nodes
           /\ \A p : [job EXCEPT !.pc = p] = [pc |-> p, req |-> job.req, plan |-> job.plan,
                                              todo |-> job.todo, i |-> job.i, found |-> job.found]
<1>1. job # Idle BY DEF Idle
<1>2. /\ job = [pc |-> job.pc, req |-> job.req, plan |-> job.plan, todo |-> job.todo,
                i |-> job.i, found |-> job.found]
      /\ job.todo \subseteq Nodes
  BY <1>1 DEF Inv, JobShape
<1>3. ASSUME NEW p
      PROVE  [job EXCEPT !.pc = p] = [pc |-> p, req |-> job.req, plan |-> job.plan,
                                      todo |-> job.todo, i |-> job.i, found |-> job.found]
  BY <1>2
<1> QED BY <1>1, <1>2, <1>3

-----------------------------------------------------------------------------
\* Requests, checks and the steps that only move the job.
LEMMA SubmitKeeps == ASSUME Inv, NEW r \in Request, Submit(r) PROVE Inv'
<1>1. UNCHANGED <<role, cluster>> BY DEF Submit
<1>2. Shapes' /\ OneSpare' = OneSpare /\ Nodes' = Nodes BY <1>1, ClusterStays
<1>3. job' = [pc |-> "preflight", req |-> r, plan |-> <<>>, todo |-> {}, i |-> 1, found |-> drained]
  BY DEF Submit
<1>4. job'.pc = "preflight" /\ job'.found = drained /\ job'.todo = {} BY <1>3
<1>5. JobShape' BY <1>2, <1>3 DEF JobShape, PerNode, Whole, Turn
<1>6. OneOut' /\ Pending' BY <1>1, <1>2, <1>4 DEF Inv, OneOut, Pending, Turn, cluster
<1>7. Spared' BY <1>1, <1>2, <1>4 DEF Inv, Spared, Turn, cluster
<1>8. FoundSo' BY <1>1, <1>4 DEF FoundSo, cluster, Turn
<1>9. Upgraded' BY <1>4 DEF Upgraded
<1> QED BY <1>2, <1>5, <1>6, <1>7, <1>8, <1>9 DEF Inv

LEMMA JobStays == ASSUME Inv, UNCHANGED <<role, cluster, job>> PROVE Inv'
<1>1. Shapes' /\ OneSpare' = OneSpare /\ Nodes' = Nodes BY ClusterStays
<1>2. JobShape' BY <1>1 DEF Inv, JobShape, Node
<1>3. OneOut' /\ Pending' BY <1>1 DEF Inv, OneOut, Pending, Node, cluster
<1>4. Spared' BY <1>1 DEF Inv, Spared, cluster
<1>5. FoundSo' BY DEF Inv, FoundSo, Node, cluster
<1>6. Upgraded' BY <1>1 DEF Inv, Upgraded, cluster
<1> QED BY <1>1, <1>2, <1>3, <1>4, <1>5, <1>6 DEF Inv

LEMMA PreflightStepKeeps == ASSUME Inv, PreflightStep PROVE Inv'
<1>1. UNCHANGED <<role, cluster>> /\ job.pc = "preflight" BY DEF PreflightStep, At
<1>2. CASE job' = Idle BY <1>1, <1>2, JobEnds
<1>3. CASE job' = [job EXCEPT !.pc = "backup", !.plan = Order(Req.kind),
                              !.todo = {n \in Nodes : ~Skip(n, Req)}]
  <2> DEFINE q == Order(Req.kind)
             T == {n \in Nodes : ~Skip(n, Req)}
  <2>1. T \subseteq Nodes OBVIOUS
  <2>2. job' = [job EXCEPT !.pc = "backup", !.plan = q, !.todo = T] BY <1>3
  <2> HIDE DEF q, T
  <2>3. job # Idle BY <1>1, AtWork
  <2>4. job' = [pc |-> "backup", req |-> job.req, plan |-> q, todo |-> T, i |-> job.i, found |-> job.found]
    BY <1>1, <2>2, AtWork
  <2> QED BY <1>1, <2>1, <2>3, <2>4, JobMoves DEF PerNode, Turn
<1> QED BY <1>2, <1>3 DEF PreflightStep, Ends

LEMMA BackupKeeps == ASSUME Inv, Backup PROVE Inv'
<1>1. UNCHANGED <<role, cluster>> /\ job.pc = "backup" BY DEF Backup, At
<1>2. CASE job' = Idle BY <1>1, <1>2, JobEnds
<1>3. CASE job' = [job EXCEPT !.pc = IF Req.kind = "kubernetes-upgrade" THEN "upgrade-k8s" ELSE "node"]
  <2>1. PICK p \in {"upgrade-k8s", "node"} : /\ job' = [job EXCEPT !.pc = p]
                                             /\ p = "node" => job.req.kind # "kubernetes-upgrade"
    BY <1>3 DEF Req
  <2>2. /\ job # Idle /\ job.todo \subseteq Nodes
        /\ job' = [pc |-> p, req |-> job.req, plan |-> job.plan, todo |-> job.todo,
                   i |-> job.i, found |-> job.found]
    BY <1>1, <2>1, AtWork
  <2> QED BY <1>1, <2>1, <2>2, JobMoves DEF PerNode, Turn
<1> QED BY <1>2, <1>3 DEF Backup, Checkpoint, Goto, Ends

LEMMA NodeStartKeeps == ASSUME Inv, NodeStart PROVE Inv'
<1>1. UNCHANGED <<role, cluster>> /\ job.pc = "node" BY DEF NodeStart, At
<1>2. /\ job # Idle /\ job.todo \subseteq Nodes
      /\ job = [pc |-> job.pc, req |-> job.req, plan |-> job.plan, todo |-> job.todo,
                i |-> job.i, found |-> job.found]
  BY <1>1, AtWork
<1>3. job.req.kind # "kubernetes-upgrade" BY <1>1, <1>2 DEF Inv, JobShape, PerNode
<1>4. CASE job' = Idle BY <1>1, <1>4, JobEnds
<1>5. CASE Node \notin job.todo /\ job' = [job EXCEPT !.i = @ + 1]
  <2>1. job' = [pc |-> "node", req |-> job.req, plan |-> job.plan, todo |-> job.todo,
                i |-> job.i + 1, found |-> job.found]
    BY <1>1, <1>2, <1>5
  <2> QED BY <1>1, <1>2, <1>3, <2>1, JobMoves DEF PerNode, Turn
<1>6. CASE Node \in job.todo /\ Preflight(Req) /\ job' = [job EXCEPT !.pc = "drain"]
  <2>1. job' = [pc |-> "drain", req |-> job.req, plan |-> job.plan, todo |-> job.todo,
                i |-> job.i, found |-> job.found]
    BY <1>1, <1>6, AtWork
  <2>2. drained = {} /\ OneSpare BY <1>3, <1>6, PreflightSees DEF Inv, Req
  <2>3. job.plan[job.i] \in Nodes BY <1>2, <1>6 DEF Node
  <2> QED BY <1>1, <1>2, <1>3, <2>1, <2>2, <2>3, JobMoves DEF PerNode, Turn
<1> QED BY <1>4, <1>5, <1>6 DEF NodeStart, Checkpoint, Goto, Ends

\* The steps of a node's turn that only wait for something.
LEMMA TurnKeeps == ASSUME Inv, Evict \/ Rebooted \/ Wait PROVE Inv'
<1>1. UNCHANGED <<role, cluster>> /\ job.pc \in {"evict", "reboot", "wait"}
  BY DEF Evict, Rebooted, Wait, At
<1>2. CASE job' = Idle BY <1>1, <1>2, JobEnds
<1>3. ASSUME NEW p \in {"command", "wait", "uncordon"}, job' = [job EXCEPT !.pc = p],
             p \in {"wait", "uncordon"} => booting[Node] = 0
      PROVE  Inv'
  <2>1. /\ job # Idle /\ job.todo \subseteq Nodes
        /\ job' = [pc |-> p, req |-> job.req, plan |-> job.plan, todo |-> job.todo,
                   i |-> job.i, found |-> job.found]
    BY <1>1, <1>3, AtWork
  <2>2. job.req.kind # "kubernetes-upgrade" BY <1>1, <2>1 DEF Inv, JobShape, PerNode, Turn
  <2>3. job.pc \in Turn /\ p \in Turn BY <1>1 DEF Turn
  <2> QED BY <1>1, <1>3, <2>1, <2>2, <2>3, JobMoves
<1>4. CASE Evict BY <1>2, <1>3, <1>4 DEF Evict, Goto, Ends, Refused
<1>5. CASE Rebooted BY <1>2, <1>3, <1>5 DEF Rebooted, Goto, Ends
<1>6. CASE Wait
  <2>1. booting[Node] = 0 BY <1>6 DEF Wait, At, Inv, Pending
  <2> QED BY <1>2, <1>3, <1>6, <2>1 DEF Wait, Goto, Ends
<1> QED BY <1>4, <1>5, <1>6

LEMMA UpgradeK8sKeeps == ASSUME Inv, UpgradeK8s PROVE Inv'
<1>1. UNCHANGED <<role, cluster>> /\ job.pc = "upgrade-k8s" BY DEF UpgradeK8s, At
<1>2. CASE job' = Idle BY <1>1, <1>2, JobEnds
<1>3. CASE job' = [job EXCEPT !.pc = "apply-k8s"]
  <2>1. /\ job # Idle /\ job.todo \subseteq Nodes
        /\ job' = [pc |-> "apply-k8s", req |-> job.req, plan |-> job.plan, todo |-> job.todo,
                   i |-> job.i, found |-> job.found]
    BY <1>1, <1>3, AtWork
  <2> QED BY <1>1, <2>1, JobMoves DEF PerNode, Turn
<1> QED BY <1>2, <1>3 DEF UpgradeK8s, Checkpoint, Goto, Ends

LEMMA WaitK8sKeeps == ASSUME Inv, WaitK8s PROVE Inv'
<1>1. UNCHANGED <<role, cluster>> /\ job.pc = "wait-k8s" BY DEF WaitK8s, At
<1>2. CASE job' = Idle BY <1>1, <1>2, JobEnds
<1>3. CASE job' = [job EXCEPT !.pc = "finish"]
  <2>1. /\ job # Idle /\ job.todo \subseteq Nodes
        /\ job' = [pc |-> "finish", req |-> job.req, plan |-> job.plan, todo |-> job.todo,
                   i |-> job.i, found |-> job.found]
    BY <1>1, <1>3, AtWork
  <2> QED BY <1>1, <2>1, JobMoves DEF PerNode, Turn
<1> QED BY <1>2, <1>3 DEF WaitK8s, Goto, Ends

-----------------------------------------------------------------------------
\* The steps of the node in work.
\* A step in a node's turn that touches the node itself, when it keeps what is said of the cluster.
LEMMA NodeInWork ==
    ASSUME Inv, UNCHANGED <<role, kver, api>>, job # Idle, Shapes', Node \in Nodes, OneSpare,
           job.req.kind # "kubernetes-upgrade",
           drained' = {Node}, \A n \in Nodes : booting'[n] # 0 => n \in drained' \cup unsettled',
           NEW p \in {"evict", "reboot"},
           job' = Idle \/ job' = [job EXCEPT !.pc = p]
    PROVE  Inv'
<1>1. Nodes' = Nodes /\ CPs' = CPs /\ OneSpare' BY DEF Nodes, CPs, OneSpare
<1>3. CASE job' = Idle
  <2>1. job'.pc = "idle" BY <1>3 DEF Idle
  <2>2. JobShape' /\ Pending' /\ OneOut' /\ Spared' /\ FoundSo' /\ Upgraded'
    BY <1>1, <1>3, <2>1 DEF JobShape, Pending, OneOut, Spared, FoundSo, Upgraded, Turn
  <2> QED BY <2>2 DEF Inv
<1>4. CASE job' = [job EXCEPT !.pc = p]
  <2>1. job.todo \subseteq Nodes /\ job = [pc |-> job.pc, req |-> job.req, plan |-> job.plan,
                                           todo |-> job.todo, i |-> job.i, found |-> job.found]
    BY DEF Inv, JobShape
  <2>2. job' = [pc |-> p, req |-> job.req, plan |-> job.plan, todo |-> job.todo,
                i |-> job.i, found |-> job.found]
    BY <1>4, <2>1
  <2>3. /\ job'.pc = p /\ job'.req = job.req /\ job'.found = job.found
        /\ job'.todo = job.todo /\ Node' = Node
    BY <2>2 DEF Node
  <2>4. JobShape' BY <1>1, <2>1, <2>2, <2>3 DEF JobShape, PerNode, Turn
  <2>5. OneOut' BY <2>3 DEF OneOut
  <2>6. Pending' BY <1>1, <2>3 DEF Pending
  <2>7. Spared' BY <1>1 DEF Spared
  <2>8. FoundSo' BY <2>3 DEF FoundSo, Turn
  <2>9. Upgraded' BY <2>3 DEF Upgraded
  <2> QED BY <2>4, <2>5, <2>6, <2>7, <2>8, <2>9 DEF Inv
<1> QED BY <1>3, <1>4

LEMMA CordonKeeps == ASSUME Inv, Cordon PROVE Inv'
<1>1. UNCHANGED <<role, ver, kver, api, up, booting, down>> /\ job.pc = "drain" BY DEF Cordon, At
<1>2. job # Idle BY <1>1, AtWork
<1>3. Node \in Nodes /\ job.req.kind # "kubernetes-upgrade" BY <1>1, <1>2 DEF Inv, JobShape, PerNode
<1>4. drained = {} /\ OneSpare BY <1>1 DEF Inv, OneOut, Spared
<1>5. CASE UNCHANGED <<cordoned, drained, unsettled>> /\ job' = Idle
  BY <1>1, <1>5, JobEnds DEF cluster
<1>6. CASE /\ cordoned' = cordoned \cup {Node} /\ drained' = drained \cup {Node}
           /\ unsettled' = unsettled \ {Node}
           /\ job' = Idle \/ job' = [job EXCEPT !.pc = "evict"]
  <2>1. Nodes' = Nodes BY <1>1 DEF Nodes
  <2>2. Shapes' BY <1>1, <1>3, <1>6, <2>1 DEF Inv, Shapes
  <2>3. \A n \in Nodes : booting'[n] # 0 => n \in drained' \cup unsettled'
    BY <1>1, <1>6 DEF Inv, Pending
  <2> QED BY <1>1, <1>2, <1>3, <1>4, <1>6, <2>2, <2>3, NodeInWork
<1> QED BY <1>5, <1>6 DEF Cordon, Goto, Ends, Refused

LEMMA CommandKeeps == ASSUME Inv, Command PROVE Inv'
<1>1. UNCHANGED <<role, ver, kver, api, up, cordoned, down, drained, unsettled>> /\ job.pc = "command"
  BY DEF Command, At
<1>2. job # Idle BY <1>1, AtWork
<1>3. Node \in Nodes /\ job.req.kind # "kubernetes-upgrade" BY <1>1, <1>2 DEF Inv, JobShape, PerNode, Turn
<1>4. drained = {Node} /\ OneSpare BY <1>1 DEF Inv, OneOut, Spared, Turn
<1>5. CASE booting' = booting /\ job' = Idle BY <1>1, <1>5, JobEnds DEF cluster
<1>6. ASSUME NEW v, booting' = [booting EXCEPT ![Node] = v],
             job' = Idle \/ job' = [job EXCEPT !.pc = "reboot"]
      PROVE  Inv'
  <2>1. Nodes' = Nodes BY <1>1 DEF Nodes
  <2>2. booting' = [n \in Nodes |-> booting'[n]] /\ \A n \in Nodes \ {Node} : booting'[n] = booting[n]
    BY <1>6 DEF Inv, Shapes
  <2>3. Shapes' BY <1>1, <2>1, <2>2 DEF Inv, Shapes
  <2>4. \A n \in Nodes : booting'[n] # 0 => n \in drained' \cup unsettled'
    BY <1>1, <1>4, <1>6, <2>2 DEF Inv, Pending
  <2> QED BY <1>1, <1>2, <1>3, <1>4, <1>6, <2>3, <2>4, NodeInWork
<1> QED BY <1>5, <1>6 DEF Command, Goto, Ends, Refused

LEMMA UncordonKeeps == ASSUME Inv, Uncordon PROVE Inv'
<1>1. UNCHANGED <<role, ver, kver, api, up, booting, down, unsettled>> /\ job.pc = "uncordon"
  BY DEF Uncordon, At
<1>2. /\ job # Idle /\ job.todo \subseteq Nodes
      /\ job = [pc |-> job.pc, req |-> job.req, plan |-> job.plan, todo |-> job.todo,
                i |-> job.i, found |-> job.found]
  BY <1>1, AtWork
<1>3. CASE UNCHANGED <<cordoned, drained>> /\ job' = Idle
  BY <1>1, <1>3, JobEnds DEF cluster
<1>4. CASE /\ Schedule(Node)
           /\ job' = Idle \/ job' = [job EXCEPT !.pc = "node", !.i = @ + 1]
  <2>1. job.req.kind # "kubernetes-upgrade" BY <1>1, <1>2 DEF Inv, JobShape, PerNode, Turn
  <2>2. Nodes' = Nodes /\ CPs' = CPs /\ OneSpare' = OneSpare BY <1>1 DEF Nodes, CPs, OneSpare
  <2>3. cordoned' = cordoned \ {Node} /\ drained' = drained \ {Node} BY <1>4 DEF Schedule
  <2>4. Shapes' BY <1>1, <2>2, <2>3 DEF Inv, Shapes
  <2>5. booting[Node] = 0 /\ \A n \in Nodes : booting'[n] # 0 => n \in drained' \cup unsettled'
    BY <1>1, <2>3 DEF Inv, Pending
  <2>6. drained' \subseteq job.found BY <1>1, <1>2, <2>3 DEF Inv, FoundSo, Turn
  <2>7. CASE job' = Idle
    <3>1. job'.pc = "idle" BY <2>7 DEF Idle
    <3>2. JobShape' /\ Pending' /\ OneOut' /\ Spared' /\ FoundSo' /\ Upgraded'
      BY <1>1, <2>2, <2>3, <2>5, <2>7, <3>1
      DEF Inv, JobShape, Pending, OneOut, Spared, FoundSo, Upgraded, Turn
    <3> QED BY <2>4, <3>2 DEF Inv
  <2>8. CASE job' = [job EXCEPT !.pc = "node", !.i = @ + 1]
    <3>1. job' = [pc |-> "node", req |-> job.req, plan |-> job.plan, todo |-> job.todo,
                  i |-> job.i + 1, found |-> job.found]
      BY <1>2, <2>8
    <3>2. job'.pc = "node" /\ job'.req = job.req /\ job'.found = job.found /\ job'.todo = job.todo
      BY <3>1
    <3>3. JobShape' BY <1>2, <2>1, <2>2, <3>1, <3>2 DEF JobShape, PerNode, Turn
    <3>4. OneOut' BY <2>3, <3>2 DEF Inv, OneOut, Turn
    <3>5. Pending' BY <2>2, <2>5, <3>2 DEF Pending
    <3>6. Spared' BY <1>1, <2>2, <3>2 DEF Inv, Spared, Turn
    <3>7. FoundSo' BY <2>6, <3>2 DEF FoundSo, Turn
    <3>8. Upgraded' BY <3>2 DEF Upgraded
    <3> QED BY <2>4, <3>3, <3>4, <3>5, <3>6, <3>7, <3>8 DEF Inv
  <2> QED BY <1>4, <2>7, <2>8
<1> QED BY <1>3, <1>4 DEF Uncordon, Ends, Refused

LEMMA ApplyK8sKeeps == ASSUME Inv, ApplyK8s PROVE Inv'
<1>1. UNCHANGED <<role, ver, up, cordoned, booting, down, drained, unsettled>> /\ job.pc = "apply-k8s"
  BY DEF ApplyK8s, At
<1>2. /\ job # Idle /\ job.todo \subseteq Nodes
      /\ job = [pc |-> job.pc, req |-> job.req, plan |-> job.plan, todo |-> job.todo,
                i |-> job.i, found |-> job.found]
  BY <1>1, AtWork
<1>3. Nodes' = Nodes /\ CPs' = CPs /\ OneSpare' = OneSpare BY <1>1 DEF Nodes, CPs, OneSpare
<1>4. Shapes' BY <1>1, <1>3 DEF Inv, Shapes
<1>5. CASE job' = Idle
  <2>1. job'.pc = "idle" BY <1>5 DEF Idle
  <2>2. JobShape' /\ Pending' /\ OneOut' /\ FoundSo' /\ Upgraded'
    BY <1>1, <1>3, <1>5, <2>1 DEF Inv, JobShape, Pending, OneOut, FoundSo, Upgraded, Turn
  <2>3. Spared' BY <1>1, <1>3, <2>1 DEF Inv, Spared, Turn
  <2> QED BY <1>4, <2>2, <2>3 DEF Inv
<1>6. CASE /\ job' = [job EXCEPT !.pc = "wait-k8s"]
           /\ api' = Req.target /\ kver' = [n \in Nodes |-> Req.target]
  <2>1. job' = [pc |-> "wait-k8s", req |-> job.req, plan |-> job.plan, todo |-> job.todo,
                i |-> job.i, found |-> job.found]
    BY <1>1, <1>6, AtWork
  <2>2. job'.pc = "wait-k8s" /\ job'.req = job.req /\ job'.found = job.found /\ job'.todo = job.todo
    BY <2>1
  <2>3. JobShape' BY <1>2, <1>3, <2>1, <2>2 DEF JobShape, PerNode, Whole, Turn
  <2>4. OneOut' /\ Pending' BY <1>1, <1>3, <2>2 DEF Inv, OneOut, Pending, Turn
  <2>5. Spared' BY <1>1, <1>3, <2>2 DEF Inv, Spared, Turn
  <2>6. FoundSo' BY <1>1, <1>2, <2>2 DEF Inv, FoundSo, Turn
  <2>7. Upgraded' BY <1>3, <1>6, <2>2 DEF Upgraded, Req
  <2> QED BY <1>4, <2>3, <2>4, <2>5, <2>6, <2>7 DEF Inv
<1> QED BY <1>5, <1>6 DEF ApplyK8s, Goto, Ends, Refused

-----------------------------------------------------------------------------
\* What happens to nodes takes none of them out of service for a rollout.
LEMMA NodesKeep ==
    ASSUME Inv, UNCHANGED <<role, kver, api, job>>, Shapes',
           \A n \in Nodes : booting'[n] # 0 => booting[n] # 0 /\ n \in drained' \cup unsettled',
           drained' = drained \/ (job = Idle /\ drained' \subseteq drained)
    PROVE  Inv'
<1>1. Nodes' = Nodes /\ CPs' = CPs /\ OneSpare' = OneSpare /\ Node' = Node BY DEF Nodes, CPs, OneSpare, Node
<1>2. job = Idle => job.pc = "idle" BY DEF Idle
<1>3. JobShape' BY <1>1 DEF Inv, JobShape
<1>4. OneOut' BY <1>1, <1>2 DEF Inv, OneOut, Turn
<1>5. Pending'
  <2>1. job.pc \in {"wait", "uncordon"} => booting'[Node] = 0
    <3>1. job.pc \in {"wait", "uncordon"} => Node \in Nodes BY AtWork DEF Inv, JobShape, Turn
    <3> QED BY <3>1 DEF Inv, Pending
  <2> QED BY <1>1, <2>1 DEF Pending
<1>6. Spared' BY <1>1 DEF Inv, Spared
<1>7. FoundSo' BY <1>1 DEF Inv, FoundSo
<1>8. Upgraded' BY <1>1 DEF Inv, Upgraded
<1> QED BY <1>3, <1>4, <1>5, <1>6, <1>7, <1>8 DEF Inv

LEMMA BootDoneKeeps == ASSUME Inv, NEW n \in Nodes, BootDone(n) PROVE Inv'
<1>1. /\ UNCHANGED <<role, kver, api, job, cordoned, drained>> /\ booting' = [booting EXCEPT ![n] = 0]
      /\ unsettled' = unsettled \ {n}
  BY DEF BootDone
<1>2. Nodes' = Nodes BY <1>1 DEF Nodes
<1>3. booting' = [m \in Nodes |-> booting'[m]] BY <1>1 DEF Inv, Shapes
<1>4. \A m \in Nodes : booting'[m] # 0 => m # n /\ booting[m] # 0 BY <1>1 DEF Inv, Shapes
<1>5. Shapes' BY <1>1, <1>2, <1>3 DEF Inv, Shapes
<1>6. \A m \in Nodes : booting'[m] # 0 => m \in drained' \cup unsettled' BY <1>1, <1>4 DEF Inv, Pending
<1> QED BY <1>1, <1>4, <1>5, <1>6, NodesKeep

LEMMA UpChangeKeeps == ASSUME Inv, NEW n \in Nodes, RebootStarts(n) \/ NodeFails(n) \/ NodeRecovers(n) PROVE Inv'
<1>1. UNCHANGED <<role, kver, api, job, cordoned, drained, booting, unsettled>>
  BY DEF RebootStarts, NodeFails, NodeRecovers
<1>2. Nodes' = Nodes BY <1>1 DEF Nodes
<1>3. Shapes' BY <1>1, <1>2 DEF Inv, Shapes
<1>4. \A m \in Nodes : booting'[m] # 0 => booting[m] # 0 /\ m \in drained' \cup unsettled'
  BY <1>1 DEF Inv, Pending
<1> QED BY <1>1, <1>3, <1>4, NodesKeep

LEMMA MaintenanceKeeps == ASSUME Inv, NEW n \in Nodes, SetNodeMaintenance(n) PROVE Inv'
<1>1. /\ UNCHANGED <<role, kver, api, job, booting>> /\ job = Idle
      /\ \/ /\ cordoned' = cordoned \ {n} /\ drained' = drained \ {n}
            /\ unsettled' = unsettled \cup (IF booting[n] = 0 THEN {} ELSE {n})
         \/ cordoned' = cordoned \cup {n} /\ drained' = drained /\ unsettled' = unsettled
  BY DEF SetNodeMaintenance, Schedule
<1>2. Nodes' = Nodes BY <1>1 DEF Nodes
<1>3. drained' \subseteq drained BY <1>1
<1>4. Shapes' BY <1>1, <1>2 DEF Inv, Shapes
<1>5. \A m \in Nodes : booting'[m] # 0 => booting[m] # 0 /\ m \in drained' \cup unsettled'
  BY <1>1 DEF Inv, Pending
<1> QED BY <1>1, <1>3, <1>4, <1>5, NodesKeep

\* Every step keeps the invariant.
LEMMA RolloutNext == ASSUME Inv, [Next]_vars PROVE Inv'
<1>1. ASSUME NEW r \in Request, Submit(r) PROVE Inv' BY <1>1, SubmitKeeps
<1>2. CASE RequestStop BY <1>2, JobStays DEF RequestStop
<1>3. CASE Finish BY <1>3, JobEnds DEF Finish, Ends
<1>4. CASE Crash BY <1>4, JobEnds DEF Crash, Ends
<1>5. CASE UNCHANGED vars BY <1>5, JobStays DEF vars
<1>6. CASE PreflightStep BY <1>6, PreflightStepKeeps
<1>7. CASE Backup BY <1>7, BackupKeeps
<1>8. CASE NodeStart BY <1>8, NodeStartKeeps
<1>9. CASE Cordon BY <1>9, CordonKeeps
<1>10. CASE Command BY <1>10, CommandKeeps
<1>11. CASE Evict \/ Rebooted \/ Wait BY <1>11, TurnKeeps
<1>12. CASE Uncordon BY <1>12, UncordonKeeps
<1>13. CASE UpgradeK8s BY <1>13, UpgradeK8sKeeps
<1>14. CASE WaitK8s BY <1>14, WaitK8sKeeps
<1>15. ASSUME NEW n \in Nodes, BootDone(n) PROVE Inv' BY <1>15, BootDoneKeeps
<1>16. ASSUME NEW n \in Nodes, RebootStarts(n) \/ NodeFails(n) \/ NodeRecovers(n) PROVE Inv'
  BY <1>16, UpChangeKeeps
<1>17. CASE ApplyK8s BY <1>17, ApplyK8sKeeps
<1>18. ASSUME NEW n \in Nodes, SetNodeMaintenance(n) PROVE Inv' BY <1>18, MaintenanceKeeps
<1> QED BY <1>1, <1>2, <1>3, <1>4, <1>5, <1>6, <1>7, <1>8, <1>9, <1>10, <1>11, <1>12, <1>13,
           <1>14, <1>15, <1>16, <1>17, <1>18 DEF Next

-----------------------------------------------------------------------------
\* What the invariant says of the cluster.
LEMMA RolloutSafe == ASSUME Inv PROVE OneNodeAtATime /\ QuorumSurvives
<1> DEFINE Out == (drained \cup {n \in Nodes : booting[n] # 0}) \ unsettled
<1>1. PICK x : Out \subseteq {x} BY DEF Inv, OneOut, Pending
<1>2. OneNodeAtATime
  <2>1. IsFiniteSet({x}) /\ Cardinality({x}) = 1 BY FS_Singleton
  <2>2. Cardinality(Out) <= 1 BY <1>1, <2>1, FS_Subset
  <2> QED BY <2>2 DEF OneNodeAtATime
<1>3. QuorumSurvives
  <2> DEFINE c == Cardinality(CPs)
             kept == {n \in CPs : booting[n] = 0 \/ n \in unsettled}
  <2>1. IsFiniteSet(CPs) BY FS_Subset DEF Inv, Shapes, CPs
  <2>2. c \in Nat BY <2>1, FS_CardinalityType
  <2>3. c # 0 BY <2>1, FS_EmptySet DEF Inv, Shapes, CPs
  <2>4. IsFiniteSet(kept) BY <2>1, FS_Subset
  <2>5. CASE \A n \in CPs : booting[n] = 0 \/ n \in unsettled
    <3>1. kept = CPs BY <2>5
    <3> HIDE DEF c
    <3>2. c >= c \div 2 + 1 BY <2>2, <2>3
    <3> QED BY <3>1, <3>2 DEF QuorumSurvives, Quorum, c
  <2>6. CASE \E n \in CPs : booting[n] # 0 /\ n \notin unsettled
    <3>1. OneSpare BY <2>6 DEF Inv, Spared, CPs
    <3>2. CPs \ {x} \subseteq kept BY <1>1 DEF CPs
    <3>3. x \in CPs BY <1>1, <2>6 DEF CPs
    <3>4. Cardinality(CPs \ {x}) = c - 1 BY <2>1, <3>3, FS_RemoveElement
    <3>5. Cardinality(CPs \ {x}) <= Cardinality(kept) BY <2>4, <3>2, FS_Subset
    <3>6. Cardinality(kept) \in Nat BY <2>4, FS_CardinalityType
    <3> HIDE DEF kept
    <3>7. c = 1 \/ Cardinality(kept) >= c \div 2 + 1
      BY <2>2, <3>1, <3>4, <3>5, <3>6 DEF OneSpare
    <3> QED BY <3>7 DEF QuorumSurvives, Quorum, kept
  <2> QED BY <2>5, <2>6
<1> QED BY <1>2, <1>3

\* A job that moves is not at rest.
LEMMA JobsMoveOn ==
    ASSUME JobShape, job # Idle
    PROVE  /\ \A p : [job EXCEPT !.pc = p].pc = p
           /\ [job EXCEPT !.pc = "node", !.i = @ + 1].pc = "node"
<1>1. job = [pc |-> job.pc, req |-> job.req, plan |-> job.plan, todo |-> job.todo,
             i |-> job.i, found |-> job.found]
  BY DEF JobShape
<1> QED BY <1>1

\* What it says of a step that ends a rollout.
LEMMA RolloutEnds == ASSUME Inv, [Next]_vars PROVE StrandedIsReviewed /\ RolloutIsDone
<1>1. StrandedIsReviewed
  <2> SUFFICES ASSUME job # Idle, job' = Idle, result' # "interrupted" PROVE drained' \subseteq job.found
    BY DEF StrandedIsReviewed
  <2>1. job'.pc = "idle" BY DEF Idle
  <2>2. PreflightStep \/ Backup \/ NodeStart \/ UpgradeK8s \/ Finish
    <3>1. \A r \in Request : ~Submit(r) BY <2>1 DEF Submit
    <3>2. ~RequestStop /\ ~UNCHANGED vars BY DEF RequestStop, vars
    <3>3. ~(Cordon \/ Evict \/ Command \/ Rebooted \/ Wait \/ Uncordon \/ ApplyK8s \/ WaitK8s \/ Crash)
      <4>1. \A p : p # "idle" => job' # [job EXCEPT !.pc = p]
        BY <2>1, JobsMoveOn DEF Inv
      <4>2. job' # [job EXCEPT !.pc = "node", !.i = @ + 1] BY <2>1, JobsMoveOn DEF Inv
      <4> QED BY <4>1, <4>2 DEF Cordon, Evict, Command, Rebooted, Wait, Uncordon, ApplyK8s, WaitK8s, Crash,
                                Goto, Ends, Refused
    <3>4. \A n \in Nodes : ~(BootDone(n) \/ NodeFails(n) \/ NodeRecovers(n) \/ RebootStarts(n) \/ SetNodeMaintenance(n))
      BY DEF BootDone, NodeFails, NodeRecovers, RebootStarts, SetNodeMaintenance
    <3> QED BY <3>1, <3>2, <3>3, <3>4 DEF Next
  <2>3. job.pc \in {"preflight", "backup", "node", "upgrade-k8s", "finish"} /\ drained' = drained
    BY <2>2 DEF PreflightStep, Backup, NodeStart, UpgradeK8s, Finish, At, cluster
  <2> QED BY <2>3 DEF Inv, FoundSo, Turn
<1>2. RolloutIsDone
  <2> SUFFICES ASSUME result' = "succeeded", result # "succeeded"
               PROVE  /\ drained = {} /\ \A n \in Nodes : booting[n] = 0 \/ n \in unsettled
                      /\ Req.kind = "talos-upgrade" => \A n \in Nodes : ver[n] = Req.target
                      /\ Req.kind = "kubernetes-upgrade" => api = Req.target /\ \A n \in Nodes : kver[n] = Req.target
    BY DEF RolloutIsDone
  <2>1. Finish
    <3>1. \A r \in Request : ~Submit(r) BY DEF Submit
    <3>2. ~(RequestStop \/ UNCHANGED vars \/ PreflightStep \/ Backup \/ NodeStart \/ UpgradeK8s)
      BY DEF RequestStop, vars, PreflightStep, Backup, NodeStart, UpgradeK8s, Checkpoint, Ends
    <3>3. ~(Cordon \/ Evict \/ Command \/ Rebooted \/ Wait \/ Uncordon \/ ApplyK8s \/ WaitK8s \/ Crash)
      BY DEF Cordon, Evict, Command, Rebooted, Wait, Uncordon, ApplyK8s, WaitK8s, Crash, Ends, Refused
    <3>4. \A n \in Nodes : ~(BootDone(n) \/ NodeFails(n) \/ NodeRecovers(n) \/ RebootStarts(n) \/ SetNodeMaintenance(n))
      BY DEF BootDone, NodeFails, NodeRecovers, RebootStarts, SetNodeMaintenance
    <3> QED BY <3>1, <3>2, <3>3, <3>4 DEF Next
  <2>2. Schedulable /\ \A n \in Nodes : AtTarget(n) BY <2>1 DEF Finish, Ends
  <2>3. \A n \in Nodes : n \notin cordoned BY <2>2 DEF Schedulable
  <2>4. drained = {} BY <2>3 DEF Inv, Shapes
  <2>5. \A n \in Nodes : booting[n] = 0 \/ n \in unsettled BY <2>4 DEF Inv, Pending
  <2>6. Req.kind = "talos-upgrade" => \A n \in Nodes : ver[n] = Req.target BY <2>2 DEF AtTarget
  <2>7. job.pc \in {"finish", "node"} /\ job # Idle BY <2>1 DEF Finish, At, Idle
  <2>8. Req.kind = "kubernetes-upgrade" => api = Req.target /\ \A n \in Nodes : kver[n] = Req.target
    BY <2>7 DEF Inv, JobShape, PerNode, Upgraded, Req
  <2> QED BY <2>4, <2>5, <2>6, <2>8
<1> QED BY <1>1, <1>2

-----------------------------------------------------------------------------
\* The invariant holds in every reachable state.
THEOREM RolloutInvariant == ASSUME Clusters PROVE Spec => []Inv
<1>1. Init => Inv BY RolloutInit
<1>2. Inv /\ [Next]_vars => Inv' BY RolloutNext
<1> QED BY <1>1, <1>2, PTL DEF Spec

\* At most one node is drained or about to reboot because of rollouts, unless an operator made it
\* schedulable before its reboot, across failed and refused steps, crashes and rollouts started
\* after them, in a cluster of any size (Preflight, Run).
THEOREM OneNodeOut == ASSUME Clusters PROVE Spec => []OneNodeAtATime
<1>1. Inv => OneNodeAtATime BY RolloutSafe
<1> QED BY <1>1, RolloutInvariant, PTL

\* The control planes that are rebooting leave etcd its quorum, unless there is only one
\* (the quorum check of Preflight, repeated before every node).
THEOREM QuorumIsKept == ASSUME Clusters PROVE Spec => []QuorumSurvives
<1>1. Inv => QuorumSurvives BY RolloutSafe
<1> QED BY <1>1, RolloutInvariant, PTL

\* A rollout that does not read interrupted leaves no node drained that it did not find so, and one
\* that reads succeeded has every node at its target and in service (ErrUncertain around the steps
\* of a node in Run, and its final checks).
THEOREM EndsClean == ASSUME Clusters PROVE Spec => [][StrandedIsReviewed /\ RolloutIsDone]_vars
<1>1. Inv /\ [Next]_vars => [StrandedIsReviewed /\ RolloutIsDone]_vars BY RolloutEnds
<1> QED BY <1>1, RolloutInvariant, PTL DEF Spec

-----------------------------------------------------------------------------
(* The configuration of a node. *)

\* Revisions are numbered from 1.
Numbered == \E n \in Nat : Revs = 1..n

DraftPlan == [cfg : Configs, before : Configs, mode : Conf!Modes]
Job == [pc : {"check", "mark", "apply", "verify", "log", "end"}, rev : Revs,
        err : {"none", "uncertain", "failed"}]

\* The shapes of the state.  Revisions are saved without gaps.
ConfigShapes ==
    /\ revs \in [Revs -> Conf!Revision \cup {Conf!NoRev}]
    /\ \E c \in Nat : Conf!Saved = 1..c
    /\ draft \in DraftPlan \cup {Conf!NoDraft}
    /\ job \in Job \cup {Conf!Idle}
    /\ active \in Configs /\ pending \in [cfg : Configs, booting : BOOLEAN] \cup {Conf!NoPending}
    /\ applies \in [Revs -> Nat] /\ drift \in BOOLEAN

\* The job has marked its revision and not yet recorded what came of it.
Marked == {"apply", "verify", "log", "end"}

\* Where the job is, what it knows of its revision, and which revisions were applied: the
\* status tells, durably and before the request leaves.
Once ==
    /\ \A r \in Revs : applies[r] # 0 => /\ applies[r] = 1 /\ revs[r] # Conf!NoRev
                                         /\ revs[r].status # "planned"
    /\ job # Conf!Idle => revs[job.rev] # Conf!NoRev
    /\ job.pc = "mark" => revs[job.rev].status = "planned"
    /\ job.pc \in Marked => revs[job.rev].status = "running"
    /\ job.pc = "apply" => applies[job.rev] = 0
    /\ job.pc \in {"verify", "log", "end"} => applies[job.rev] # 0

\* What was applied and is running has run; what the job is about to report is so.
Ranks ==
    /\ \A r \in Revs : applies[r] # 0 /\ revs[r].after = active => r \in ran
    /\ job.pc \in {"check", "mark", "apply", "verify", "log"} => job.err = "none"
    /\ job.pc \in {"log", "end"} /\ job.err = "none" =>
          IF revs[job.rev].mode = "staged" THEN job.rev \in accepted ELSE job.rev \in ran
    /\ job.pc = "verify" => revs[job.rev].mode # "staged"

\* Since the comparison either the node is what was reviewed or somebody else changed it.
Reviewed == job.pc \in {"mark", "apply"} => active = revs[job.rev].before \/ drift

\* The inductive invariant.
ConfigInv == Numbered /\ ConfigShapes /\ Once /\ Ranks /\ Reviewed /\ Conf!AppliedIsProved

\* A saved revision is complete.
LEMMA SavedRevision ==
  ASSUME ConfigShapes, NEW r \in Revs, revs[r] # Conf!NoRev
  PROVE  revs[r] \in Conf!Revision /\ revs[r].status # "none"
  BY DEF ConfigShapes, Conf!Revision, Conf!Statuses

LEMMA RevisionIsSaved == \A rev \in Conf!Revision : rev # Conf!NoRev
  BY DEF Conf!Revision, Conf!Statuses, Conf!NoRev

\* The job is one of two things, and its place tells which.
LEMMA Places == ASSUME ConfigShapes PROVE (job = Conf!Idle <=> job.pc = "idle") /\ (job # Conf!Idle <=> job \in Job)
  BY DEF ConfigShapes, Job, Conf!Idle

LEMMA ConfigInit == ASSUME Numbered, Conf!Init PROVE ConfigInv
  <1>1. job = Conf!Idle /\ job.pc = "idle"
    BY DEF Conf!Init, Conf!Idle
  <1>2. Conf!Saved = {}
    BY DEF Conf!Init, Conf!Saved
  <1>3. ConfigShapes
    <2>1. Conf!Saved = 1..0
      BY <1>2
    <2> QED BY <2>1 DEF Conf!Init, ConfigShapes
  <1>4. Once
    BY <1>1 DEF Conf!Init, Once, Marked
  <1>5. Ranks /\ Reviewed
    BY <1>1 DEF Conf!Init, Ranks, Reviewed
  <1> QED BY <1>2, <1>3, <1>4, <1>5 DEF ConfigInv, Conf!AppliedIsProved

-----------------------------------------------------------------------------
(* Plans. *)

\* Steps before the job: nothing that was saved or applied changes.
LEMMA ConfigDraft ==
  ASSUME ConfigInv, draft' \in DraftPlan \cup {Conf!NoDraft}, UNCHANGED <<revs, job, Conf!node, Conf!history>>
  PROVE  ConfigInv'
  <1>1. ConfigShapes'
    BY DEF ConfigInv, ConfigShapes, Conf!Saved, Conf!node, Conf!history
  <1>2. Once' /\ Ranks' /\ Reviewed' /\ Conf!AppliedIsProved'
    BY DEF ConfigInv, Once, Ranks, Reviewed, Conf!AppliedIsProved, Conf!Saved, Conf!node, Conf!history, Marked
  <1> QED BY <1>1, <1>2 DEF ConfigInv, Numbered

LEMMA ConfigPlan ==
  ASSUME ConfigInv, NEW m \in Conf!Modes,
         \/ \E c \in Configs : Conf!Plan(c, m)
         \/ \E r \in Revs : Conf!RestorePlan(r, m)
  PROVE  ConfigInv'
  <1>1. ASSUME NEW c \in Configs, Conf!Plan(c, m) PROVE ConfigInv'
    <2>1. draft' \in DraftPlan
      BY <1>1 DEF Conf!Plan, DraftPlan, ConfigInv, ConfigShapes
    <2> QED BY <1>1, <2>1, ConfigDraft DEF Conf!Plan
  <1>2. ASSUME NEW r \in Revs, Conf!RestorePlan(r, m) PROVE ConfigInv'
    <2>1. revs[r].after \in Configs
      BY <1>2, SavedRevision DEF Conf!RestorePlan, Conf!Revision, ConfigInv
    <2>2. draft' \in DraftPlan
      BY <1>2, <2>1 DEF Conf!RestorePlan, DraftPlan, ConfigInv, ConfigShapes
    <2> QED BY <1>2, <2>2, ConfigDraft DEF Conf!RestorePlan
  <1> QED BY <1>1, <1>2

\* Cardinality in both modules.
LEMMA SameCardinality == \A S : Conf!Cardinality(S) = Cardinality(S)
BY DEF Conf!Cardinality, Cardinality

\* Add fills the first free number.
LEMMA Adds ==
  ASSUME NEW fs \in [Revs -> Conf!Revision \cup {Conf!NoRev}], NEW rev \in Conf!Revision,
         NEW c \in Nat, {r \in Revs : fs[r] # Conf!NoRev} = 1..c, c + 1 \in Revs
  PROVE  /\ Conf!Add(fs, rev) \in [Revs -> Conf!Revision \cup {Conf!NoRev}]
         /\ fs[c + 1] = Conf!NoRev /\ Conf!Add(fs, rev)[c + 1] = rev
         /\ \A r \in Revs : r # c + 1 => Conf!Add(fs, rev)[r] = fs[r]
         /\ {r \in Revs : Conf!Add(fs, rev)[r] # Conf!NoRev} = 1..(c + 1)
  <1>1. Cardinality(1..c) = c
    BY FS_Interval
  <1> DEFINE new == [fs EXCEPT ![c + 1] = rev]
  <1>2. Conf!Add(fs, rev) = new
    BY <1>1, SameCardinality DEF Conf!Add
  <1>3. fs[c + 1] = Conf!NoRev
    <2>1. c + 1 \notin 1..c
      OBVIOUS
    <2> QED BY <2>1
  <1>4. /\ new \in [Revs -> Conf!Revision \cup {Conf!NoRev}] /\ new[c + 1] = rev
        /\ \A r \in Revs : r # c + 1 => new[r] = fs[r]
    OBVIOUS
  <1> HIDE DEF new
  <1>5. rev # Conf!NoRev
    BY RevisionIsSaved
  <1>6. \A r \in Revs : new[r] # Conf!NoRev <=> r \in 1..(c + 1)
    <2> SUFFICES ASSUME NEW r \in Revs PROVE new[r] # Conf!NoRev <=> r \in 1..(c + 1)
      OBVIOUS
    <2>1. CASE r = c + 1
      BY <1>4, <1>5, <2>1
    <2>2. CASE r # c + 1
      <3>1. fs[r] # Conf!NoRev <=> r \in 1..c
        OBVIOUS
      <3>2. r \in 1..c <=> r \in 1..(c + 1)
        BY <2>2
      <3> QED BY <1>4, <2>2, <3>1, <3>2
    <2> QED BY <2>1, <2>2
  <1>7. 1..(c + 1) \subseteq Revs
    <2>1. 1..c \subseteq Revs
      OBVIOUS
    <2>2. 1..(c + 1) = (1..c) \cup {c + 1}
      OBVIOUS
    <2> QED BY <2>1, <2>2
  <1>8. {r \in Revs : new[r] # Conf!NoRev} = 1..(c + 1)
    BY <1>6, <1>7
  <1> QED BY <1>2, <1>3, <1>4, <1>8

\* What a plan leaves of each revision: it only fills free numbers, with a plan that waits or
\* with the baseline of the node.
Filled(r) ==
    \/ revs'[r] = revs[r] /\ (revs[r] # Conf!NoRev => ran' = ran)
    \/ /\ revs[r] = Conf!NoRev /\ revs'[r] \in Conf!Revision
       /\ revs'[r].status = "planned" \/ (revs'[r].status = "succeeded" /\ r \in ran')

LEMMA PlanFills ==
  ASSUME ConfigInv, Conf!MakePlan
  PROVE  /\ revs' \in [Revs -> Conf!Revision \cup {Conf!NoRev}] /\ \A r \in Revs : Filled(r)
         /\ \E c \in Nat : Conf!Saved' = 1..c
  <1>1. PICK c \in Nat : Conf!Saved = 1..c
    BY DEF ConfigInv, ConfigShapes
  <1>2. revs \in [Revs -> Conf!Revision \cup {Conf!NoRev}] /\ Cardinality(Conf!Saved) = c
    BY <1>1, FS_Interval DEF ConfigInv, ConfigShapes
  <1>3. Conf!Baseline \in Conf!Revision /\ Conf!Baseline.status = "succeeded"
    BY DEF Conf!MakePlan, ConfigInv, ConfigShapes, DraftPlan, Conf!Baseline, Conf!Revision, Conf!Statuses, Conf!Modes
  <1>4. Conf!Planned \in Conf!Revision /\ Conf!Planned.status = "planned"
    BY DEF Conf!MakePlan, ConfigInv, ConfigShapes, DraftPlan, Conf!Planned, Conf!Revision, Conf!Statuses, Conf!Modes
  <1>5. PICK done \in {0, 1, 2} :
          /\ c + 1 + (IF Conf!Saved = {} THEN 1 ELSE 0) \in Revs
          /\ LET based == IF Conf!Saved = {} /\ done > 0 THEN Conf!Add(revs, Conf!Baseline) ELSE revs
             IN  revs' = IF done = 2 THEN Conf!Add(based, Conf!Planned) ELSE based
          /\ ran' = IF Conf!Saved = {} /\ done > 0 THEN {1} ELSE ran
          /\ Conf!Saved # {} => done # 1
    BY <1>2, SameCardinality DEF Conf!MakePlan, Conf!NextRev
  <1>6. Conf!Saved' = {r \in Revs : revs'[r] # Conf!NoRev} /\ {r \in Revs : revs[r] # Conf!NoRev} = 1..c
    BY <1>1 DEF Conf!Saved
  <1>7. CASE done = 0
    BY <1>1, <1>2, <1>5, <1>6, <1>7 DEF Filled
  <1>8. CASE done # 0 /\ Conf!Saved # {}
    <2>1. revs' = Conf!Add(revs, Conf!Planned) /\ ran' = ran /\ c + 1 \in Revs
      BY <1>5, <1>8
    <2>2. /\ Conf!Add(revs, Conf!Planned) \in [Revs -> Conf!Revision \cup {Conf!NoRev}]
          /\ revs[c + 1] = Conf!NoRev /\ Conf!Add(revs, Conf!Planned)[c + 1] = Conf!Planned
          /\ \A r \in Revs : r # c + 1 => Conf!Add(revs, Conf!Planned)[r] = revs[r]
          /\ {r \in Revs : Conf!Add(revs, Conf!Planned)[r] # Conf!NoRev} = 1..(c + 1)
      BY <1>2, <1>4, <1>6, <2>1, Adds
    <2>3. Conf!Saved' = 1..(c + 1) /\ c + 1 \in Nat
      BY <1>6, <2>1, <2>2
    <2> QED BY <1>4, <2>1, <2>2, <2>3 DEF Filled
  <1>9. CASE done # 0 /\ Conf!Saved = {}
    <2> DEFINE based == Conf!Add(revs, Conf!Baseline)
    <2>1. c = 0
      BY <1>1, <1>9
    <2>2. revs' = (IF done = 2 THEN Conf!Add(based, Conf!Planned) ELSE based) /\ ran' = {1} /\ 2 \in Revs
      BY <1>5, <1>9, <2>1
    <2>3. 1 \in Revs
      BY <2>2 DEF ConfigInv, Numbered
    <2>4. {r \in Revs : revs[r] # Conf!NoRev} = 1..0
      BY <1>6, <2>1
    <2>5. /\ based \in [Revs -> Conf!Revision \cup {Conf!NoRev}] /\ based[1] = Conf!Baseline
          /\ \A r \in Revs : revs[r] = Conf!NoRev /\ (r # 1 => based[r] = Conf!NoRev)
          /\ {r \in Revs : based[r] # Conf!NoRev} = 1..1
      <3>1. /\ Conf!Add(revs, Conf!Baseline) \in [Revs -> Conf!Revision \cup {Conf!NoRev}]
            /\ revs[0 + 1] = Conf!NoRev /\ Conf!Add(revs, Conf!Baseline)[0 + 1] = Conf!Baseline
            /\ \A r \in Revs : r # 0 + 1 => Conf!Add(revs, Conf!Baseline)[r] = revs[r]
            /\ {r \in Revs : Conf!Add(revs, Conf!Baseline)[r] # Conf!NoRev} = 1..(0 + 1)
        BY <1>2, <1>3, <2>3, <2>4, Adds
      <3>2. \A r \in Revs : revs[r] = Conf!NoRev
        BY <1>9 DEF Conf!Saved
      <3> QED BY <3>1, <3>2
    <2> HIDE DEF based
    <2>6. CASE done # 2
      <3>1. revs' = based /\ Conf!Saved' = 1..1
        BY <1>6, <2>2, <2>5, <2>6
      <3> QED BY <1>3, <2>2, <2>5, <3>1 DEF Filled
    <2>7. CASE done = 2
      <3>1. /\ Conf!Add(based, Conf!Planned) \in [Revs -> Conf!Revision \cup {Conf!NoRev}]
            /\ based[1 + 1] = Conf!NoRev /\ Conf!Add(based, Conf!Planned)[1 + 1] = Conf!Planned
            /\ \A r \in Revs : r # 1 + 1 => Conf!Add(based, Conf!Planned)[r] = based[r]
            /\ {r \in Revs : Conf!Add(based, Conf!Planned)[r] # Conf!NoRev} = 1..(1 + 1)
        BY <1>4, <2>2, <2>5, Adds
      <3>2. revs' = Conf!Add(based, Conf!Planned) /\ Conf!Saved' = 1..2
        BY <1>6, <2>2, <2>7, <3>1
      <3> QED BY <1>3, <1>4, <2>2, <2>5, <3>1, <3>2 DEF Filled
    <2> QED BY <2>6, <2>7
  <1> QED BY <1>7, <1>8, <1>9

LEMMA ConfigMakePlan == ASSUME ConfigInv, Conf!MakePlan PROVE ConfigInv'
  <1>1. /\ revs' \in [Revs -> Conf!Revision \cup {Conf!NoRev}] /\ \A r \in Revs : Filled(r)
        /\ \E c \in Nat : Conf!Saved' = 1..c
    BY PlanFills
  <1>2. draft' = Conf!NoDraft /\ UNCHANGED <<job, active, pending, applies, accepted, drift>>
    BY DEF Conf!MakePlan, Conf!node
  <1>3. ConfigShapes'
    BY <1>1, <1>2 DEF ConfigInv, ConfigShapes
  <1>4. \A r \in Revs : revs[r] # Conf!NoRev => revs'[r] = revs[r] /\ ran' = ran
    BY <1>1 DEF Filled
  <1>5. \A r \in Revs : applies[r] # 0 => revs[r] # Conf!NoRev
    BY DEF ConfigInv, Once
  <1>6. job # Conf!Idle => job.rev \in Revs /\ revs[job.rev] # Conf!NoRev
    BY Places DEF ConfigInv, Once, Job
  <1>7. job = Conf!Idle => job.pc = "idle"
    BY DEF Conf!Idle
  <1>8. Once' /\ Ranks' /\ Reviewed'
    BY <1>2, <1>4, <1>5, <1>6, <1>7 DEF ConfigInv, Once, Ranks, Reviewed, Marked
  <1>9. Conf!AppliedIsProved'
    BY <1>1, <1>2, <1>4 DEF ConfigInv, Conf!AppliedIsProved, Filled, Conf!Saved
  <1> QED BY <1>3, <1>8, <1>9 DEF ConfigInv, Numbered

-----------------------------------------------------------------------------
(* The job. *)

LEMMA StatusSet ==
  ASSUME ConfigShapes, NEW r \in Revs, revs[r] # Conf!NoRev, NEW st \in Conf!Statuses, Conf!Status(r, st)
  PROVE  /\ revs' \in [Revs -> Conf!Revision \cup {Conf!NoRev}] /\ Conf!Saved' = Conf!Saved
         /\ revs'[r] # Conf!NoRev /\ revs'[r].status = st /\ revs'[r].mode = revs[r].mode
         /\ revs'[r].before = revs[r].before /\ revs'[r].after = revs[r].after
         /\ \A q \in Revs : q # r => revs'[q] = revs[q]
  <1>1. revs[r] \in Conf!Revision
    BY SavedRevision
  <1> DEFINE new == [revs[r] EXCEPT !.status = st]
  <1>2. /\ new \in Conf!Revision /\ new.status = st /\ new.mode = revs[r].mode
        /\ new.before = revs[r].before /\ new.after = revs[r].after
    BY <1>1 DEF Conf!Revision
  <1>3. revs' = [revs EXCEPT ![r] = new]
    BY DEF Conf!Status
  <1> HIDE DEF new
  <1>4. /\ revs' \in [Revs -> Conf!Revision \cup {Conf!NoRev}] /\ revs'[r] = new
        /\ \A q \in Revs : q # r => revs'[q] = revs[q]
    BY <1>2, <1>3 DEF ConfigShapes
  <1>5. new # Conf!NoRev
    BY <1>2, RevisionIsSaved
  <1>6. Conf!Saved' = Conf!Saved
    BY <1>4, <1>5 DEF Conf!Saved
  <1> QED BY <1>2, <1>4, <1>5, <1>6

LEMMA ConfigRequest == ASSUME ConfigInv, NEW r \in Revs, Conf!Request(r) PROVE ConfigInv'
  <1>1. /\ job' \in Job /\ job'.pc = "check" /\ job'.rev = r /\ job'.err = "none"
        /\ revs[r] # Conf!NoRev
    BY DEF Conf!Request, Conf!Fresh, Job
  <1>2. UNCHANGED <<revs, draft, active, pending, applies, accepted, ran, drift>>
    BY DEF Conf!Request, Conf!node, Conf!history
  <1>3. ConfigShapes'
    BY <1>1, <1>2 DEF ConfigInv, ConfigShapes, Conf!Saved
  <1>4. Once' /\ Ranks' /\ Reviewed' /\ Conf!AppliedIsProved'
    BY <1>1, <1>2 DEF ConfigInv, Once, Ranks, Reviewed, Conf!AppliedIsProved, Conf!Saved, Marked
  <1> QED BY <1>3, <1>4 DEF ConfigInv, Numbered

\* The job ends without a trace of its own: nothing it knew matters any more.
LEMMA ConfigIdle ==
  ASSUME ConfigInv, job' = Conf!Idle, drift' \in BOOLEAN, draft' \in {draft, Conf!NoDraft},
         UNCHANGED <<revs, active, pending, applies, accepted, ran>>
  PROVE  ConfigInv'
  <1>1. job'.pc = "idle"
    BY DEF Conf!Idle
  <1>2. ConfigShapes'
    BY DEF ConfigInv, ConfigShapes, Conf!Saved
  <1>3. Once' /\ Ranks' /\ Reviewed' /\ Conf!AppliedIsProved'
    BY <1>1 DEF ConfigInv, Once, Ranks, Reviewed, Conf!AppliedIsProved, Conf!Saved, Marked
  <1> QED BY <1>2, <1>3 DEF ConfigInv, Numbered

LEMMA ConfigCheck == ASSUME ConfigInv, Conf!Check PROVE ConfigInv'
  <1>1. UNCHANGED <<revs, draft, active, pending, applies, accepted, ran>> /\ drift' = FALSE
    BY DEF Conf!Check, Conf!node
  <1>2. CASE job' = Conf!Idle
    BY <1>1, <1>2, ConfigIdle
  <1>3. CASE Conf!Fresh(job.rev) /\ active = Conf!Rev.before /\ Conf!Goto("mark")
    <2>1. job \in Job /\ job # Conf!Idle /\ job.err = "none"
      BY Places DEF ConfigInv, Conf!Check, Conf!At, Ranks
    <2>2. job' \in Job /\ job' # Conf!Idle /\ job'.pc = "mark" /\ job'.err = "none" /\ job'.rev = job.rev
      BY <1>3, <2>1 DEF Conf!Goto, Job, Conf!Idle
    <2>3. /\ revs[job.rev] # Conf!NoRev /\ revs[job.rev].status = "planned"
          /\ active = revs[job.rev].before
      BY <1>3 DEF Conf!Fresh, Conf!Rev
    <2>4. ConfigShapes'
      BY <1>1, <2>2 DEF ConfigInv, ConfigShapes, Conf!Saved
    <2>5. Once' /\ Ranks' /\ Reviewed' /\ Conf!AppliedIsProved'
      BY <1>1, <2>2, <2>3 DEF ConfigInv, Once, Ranks, Reviewed, Conf!AppliedIsProved, Conf!Saved, Marked
    <2> QED BY <2>4, <2>5 DEF ConfigInv, Numbered
  <1> QED BY <1>2, <1>3 DEF Conf!Check

LEMMA ConfigMark == ASSUME ConfigInv, Conf!MarkRunning PROVE ConfigInv'
  <1>1. UNCHANGED <<draft, active, pending, applies, accepted, ran, drift>>
    BY DEF Conf!MarkRunning, Conf!node, Conf!history
  <1>2. CASE job' = Conf!Idle /\ UNCHANGED revs
    BY <1>1, <1>2, ConfigIdle DEF ConfigInv, ConfigShapes
  <1>3. CASE Conf!Status(job.rev, "running") /\ Conf!Goto("apply")
    <2> DEFINE r == job.rev
    <2>1. /\ job \in Job /\ job # Conf!Idle /\ job.err = "none" /\ r \in Revs /\ revs[r] # Conf!NoRev
          /\ revs[r].status = "planned" /\ job.pc = "mark"
      BY Places DEF ConfigInv, Conf!MarkRunning, Conf!At, Once, Ranks, Job
    <2>2. job' \in Job /\ job' # Conf!Idle /\ job'.pc = "apply" /\ job'.err = "none" /\ job'.rev = r
      BY <1>3, <2>1 DEF Conf!Goto, Job, Conf!Idle
    <2>3. /\ revs' \in [Revs -> Conf!Revision \cup {Conf!NoRev}] /\ Conf!Saved' = Conf!Saved
          /\ revs'[r] # Conf!NoRev /\ revs'[r].status = "running" /\ revs'[r].mode = revs[r].mode
          /\ revs'[r].before = revs[r].before /\ revs'[r].after = revs[r].after
          /\ \A q \in Revs : q # r => revs'[q] = revs[q]
      BY <1>3, <2>1, StatusSet DEF ConfigInv, Conf!Statuses
    <2>4. applies[r] = 0
      BY <2>1 DEF ConfigInv, Once
    <2>5. ConfigShapes'
      BY <1>1, <2>2, <2>3 DEF ConfigInv, ConfigShapes
    <2> HIDE DEF r
    <2>6. Once'
      BY <1>1, <2>2, <2>3, <2>4 DEF ConfigInv, Once, Marked
    <2>7. Ranks'
      BY <1>1, <2>2, <2>3, <2>4 DEF ConfigInv, Ranks
    <2>8. Reviewed'
      BY <1>1, <2>1, <2>2, <2>3 DEF ConfigInv, Reviewed, r
    <2>9. Conf!AppliedIsProved'
      BY <1>1, <2>3 DEF ConfigInv, Conf!AppliedIsProved, Conf!Saved
    <2> QED BY <2>5, <2>6, <2>7, <2>8, <2>9 DEF ConfigInv, Numbered
  <1> QED BY <1>2, <1>3 DEF Conf!MarkRunning

LEMMA ConfigApply == ASSUME ConfigInv, Conf!ApplyNodeConfig PROVE ConfigInv'
  <1> DEFINE r == job.rev
  <1>1. /\ job \in Job /\ job # Conf!Idle /\ job.err = "none" /\ r \in Revs /\ revs[r] # Conf!NoRev
        /\ revs[r].status = "running" /\ job.pc = "apply" /\ applies[r] = 0
    BY Places DEF ConfigInv, Conf!ApplyNodeConfig, Conf!At, Once, Ranks, Job, Marked
  <1>2. revs[r] \in Conf!Revision /\ revs[r].after \in Configs
    BY <1>1, SavedRevision DEF ConfigInv, Conf!Revision
  <1>3. /\ UNCHANGED <<revs, draft, active, drift>>
        /\ applies' = [applies EXCEPT ![r] = @ + 1]
        /\ ran' = IF active = revs[r].after THEN ran \cup {r} ELSE ran
    BY DEF Conf!ApplyNodeConfig, Conf!Rev
  <1>p. pending' \in [cfg : Configs, booting : BOOLEAN] \cup {Conf!NoPending}
    <2>1. pending \in [cfg : Configs, booting : BOOLEAN] \cup {Conf!NoPending}
      BY DEF ConfigInv, ConfigShapes
    <2> DEFINE boots == revs[r].mode # "staged"
               auto == revs[r].mode = "auto"
    <2>2. \/ pending' = pending
          \/ pending' = [cfg |-> revs[r].after, booting |-> boots]
          \/ pending' = [cfg |-> revs[r].after, booting |-> auto]
      BY DEF Conf!ApplyNodeConfig, Conf!Rev
    <2>3. boots \in BOOLEAN /\ auto \in BOOLEAN
      OBVIOUS
    <2> HIDE DEF boots, auto
    <2> QED BY <1>2, <2>1, <2>2, <2>3
  <1>4. /\ applies' \in [Revs -> Nat] /\ applies'[r] = 1
        /\ \A q \in Revs : q # r => applies'[q] = applies[q]
    BY <1>1, <1>3 DEF ConfigInv, ConfigShapes
  <1>5. \/ /\ job' \in Job /\ job' # Conf!Idle /\ job'.rev = r /\ job'.err = "none"
           /\ job'.pc = IF revs[r].mode = "staged" THEN "log" ELSE "verify"
           /\ accepted' = accepted \cup {r}
        \/ /\ job' \in Job /\ job' # Conf!Idle /\ job'.rev = r /\ job'.err = "uncertain"
           /\ job'.pc = "end" /\ accepted' = accepted
    <2>1. CASE Conf!Goto(IF Conf!Rev.mode = "staged" THEN "log" ELSE "verify") /\ accepted' = accepted \cup {r}
      <3> DEFINE pc == IF revs[r].mode = "staged" THEN "log" ELSE "verify"
      <3>1. job' = [job EXCEPT !.pc = pc] /\ pc \in {"log", "verify"}
        BY <2>1 DEF Conf!Goto, Conf!Rev
      <3> HIDE DEF pc
      <3>2. job' \in Job /\ job' # Conf!Idle /\ job'.rev = r /\ job'.err = "none" /\ job'.pc = pc
        BY <1>1, <3>1 DEF Job, Conf!Idle
      <3> QED BY <2>1, <3>2 DEF pc
    <2>2. CASE job' = [job EXCEPT !.pc = "end", !.err = "uncertain"] /\ accepted' = accepted
      BY <1>1, <2>2 DEF Job, Conf!Idle
    <2> QED BY <2>1, <2>2 DEF Conf!ApplyNodeConfig
  <1>6. ConfigShapes'
    BY <1>3, <1>4, <1>5, <1>p DEF ConfigInv, ConfigShapes, Conf!Saved
  <1> HIDE DEF r
  <1>7. Once'
    BY <1>1, <1>3, <1>4, <1>5 DEF ConfigInv, Once, Marked
  <1>8. Ranks'
    BY <1>1, <1>3, <1>4, <1>5 DEF ConfigInv, Ranks
  <1>9. Reviewed' /\ Conf!AppliedIsProved'
    BY <1>3, <1>5 DEF ConfigInv, Reviewed, Conf!AppliedIsProved, Conf!Saved
  <1> QED BY <1>6, <1>7, <1>8, <1>9 DEF ConfigInv, Numbered

\* Verify and LogComplete.
LEMMA ConfigReport == ASSUME ConfigInv, Conf!Verify \/ Conf!LogComplete PROVE ConfigInv'
  <1> DEFINE r == job.rev
  <1>1. UNCHANGED <<revs, draft, active, pending, applies, accepted, ran, drift>>
    BY DEF Conf!Verify, Conf!LogComplete, Conf!node, Conf!history
  <1>2. job \in Job /\ job # Conf!Idle /\ job.err = "none" /\ job.pc \in {"verify", "log"} /\ r \in Revs
    BY Places DEF ConfigInv, Conf!Verify, Conf!LogComplete, Conf!At, Ranks, Job
  <1>3. /\ job' \in Job /\ job' # Conf!Idle /\ job'.rev = r
        /\ \/ job'.pc = "log" /\ job'.err = "none" /\ job.pc = "verify" /\ active = revs[r].after
           \/ job'.pc = "end" /\ job'.err = "none" /\ job.pc = "log"
           \/ job'.pc = "end" /\ job'.err # "none"
    BY <1>2 DEF Conf!Verify, Conf!LogComplete, Conf!Goto, Conf!Rev, Job, Conf!Idle, Conf!At
  <1>4. ConfigShapes'
    BY <1>1, <1>3 DEF ConfigInv, ConfigShapes, Conf!Saved
  <1>5. Once' /\ Reviewed' /\ Conf!AppliedIsProved'
    BY <1>1, <1>2, <1>3 DEF ConfigInv, Once, Reviewed, Conf!AppliedIsProved, Conf!Saved, Marked
  <1>6. job.pc = "verify" /\ active = revs[r].after => r \in ran
    BY <1>2 DEF ConfigInv, Once, Ranks
  <1>7. Ranks'
    BY <1>1, <1>2, <1>3, <1>6 DEF ConfigInv, Ranks
  <1> QED BY <1>4, <1>5, <1>7 DEF ConfigInv, Numbered

LEMMA ConfigFinish == ASSUME ConfigInv, Conf!Finish PROVE ConfigInv'
  <1> DEFINE r == job.rev
  <1>1. /\ UNCHANGED <<draft, active, pending, applies, accepted, ran, drift>>
        /\ job' = Conf!Idle /\ job'.pc = "idle"
    BY DEF Conf!Finish, Conf!node, Conf!history, Conf!Idle
  <1>2. CASE UNCHANGED revs
    BY <1>1, <1>2, ConfigIdle DEF ConfigInv, ConfigShapes
  <1>3. CASE Conf!Status(r, Conf!Outcome)
    <2>1. job \in Job /\ job # Conf!Idle /\ r \in Revs /\ revs[r] # Conf!NoRev /\ job.pc = "end"
      BY Places DEF ConfigInv, Conf!Finish, Conf!At, Once, Job
    <2>2. Conf!Outcome \in Conf!Statuses /\ Conf!Outcome # "planned"
      BY <2>1 DEF Conf!Outcome, Conf!Statuses, Job
    <2>3. /\ revs' \in [Revs -> Conf!Revision \cup {Conf!NoRev}] /\ Conf!Saved' = Conf!Saved
          /\ revs'[r] # Conf!NoRev /\ revs'[r].status = Conf!Outcome
          /\ revs'[r].after = revs[r].after
          /\ \A q \in Revs : q # r => revs'[q] = revs[q]
      BY <1>3, <2>1, <2>2, StatusSet DEF ConfigInv
    <2>4. /\ Conf!Outcome = "succeeded" => r \in ran
          /\ Conf!Outcome = "staged" => r \in accepted
      BY <2>1 DEF Conf!Outcome, Conf!Rev, ConfigInv, Ranks, Job
    <2>5. ConfigShapes'
      BY <1>1, <2>3 DEF ConfigInv, ConfigShapes
    <2> HIDE DEF r
    <2>6. Once' /\ Ranks' /\ Reviewed'
      BY <1>1, <2>2, <2>3 DEF ConfigInv, Once, Ranks, Reviewed, Marked
    <2>7. Conf!AppliedIsProved'
      BY <1>1, <2>3, <2>4 DEF ConfigInv, Conf!AppliedIsProved, Conf!Saved
    <2> QED BY <2>5, <2>6, <2>7 DEF ConfigInv, Numbered
  <1> QED BY <1>2, <1>3 DEF Conf!Finish

-----------------------------------------------------------------------------
(* Conf!Restart, and the Conf!node. *)

LEMMA ConfigRestart == ASSUME ConfigInv, Conf!Restart PROVE ConfigInv'
  <1>1. /\ UNCHANGED <<active, pending, applies, accepted, ran, drift>>
        /\ job' = Conf!Idle /\ job'.pc = "idle" /\ draft' = Conf!NoDraft /\ revs' = Conf!InterruptRevisions
    BY DEF Conf!Restart, Conf!node, Conf!history, Conf!Idle
  <1>2. ASSUME NEW r \in Revs
        PROVE  /\ Conf!InterruptRevisions[r] \in Conf!Revision \cup {Conf!NoRev}
               /\ Conf!InterruptRevisions[r] # Conf!NoRev <=> revs[r] # Conf!NoRev
               /\ Conf!InterruptRevisions[r].status # revs[r].status
                     => Conf!InterruptRevisions[r].status = "interrupted"
               /\ revs[r] # Conf!NoRev => Conf!InterruptRevisions[r].after = revs[r].after
    <2>1. CASE revs[r] # Conf!NoRev /\ revs[r].status = "running"
      <3>1. revs[r] \in Conf!Revision
        BY <2>1, SavedRevision DEF ConfigInv
      <3> DEFINE new == [revs[r] EXCEPT !.status = "interrupted"]
      <3>2. new \in Conf!Revision /\ new.status = "interrupted" /\ new.after = revs[r].after
        BY <3>1 DEF Conf!Revision, Conf!Statuses
      <3>3. Conf!InterruptRevisions[r] = new
        BY <2>1 DEF Conf!InterruptRevisions
      <3> HIDE DEF new
      <3> QED BY <2>1, <3>2, <3>3, RevisionIsSaved
    <2>2. CASE ~(revs[r] # Conf!NoRev /\ revs[r].status = "running")
      BY <2>2 DEF Conf!InterruptRevisions, ConfigInv, ConfigShapes
    <2> QED BY <2>1, <2>2
  <1>3. revs' \in [Revs -> Conf!Revision \cup {Conf!NoRev}]
    <2>1. revs' = [r \in Revs |-> Conf!InterruptRevisions[r]]
      BY <1>1 DEF Conf!InterruptRevisions
    <2> QED BY <1>2, <2>1
  <1>4. Conf!Saved' = Conf!Saved
    BY <1>1, <1>2 DEF Conf!Saved
  <1>5. ConfigShapes'
    BY <1>1, <1>3, <1>4 DEF ConfigInv, ConfigShapes
  <1>6. Once' /\ Ranks' /\ Reviewed'
    BY <1>1, <1>2 DEF ConfigInv, Once, Ranks, Reviewed, Marked
  <1>7. Conf!AppliedIsProved'
    BY <1>1, <1>2, <1>4 DEF ConfigInv, Conf!AppliedIsProved, Conf!Saved
  <1> QED BY <1>5, <1>6, <1>7 DEF ConfigInv, Numbered

\* The node changes, by itself or by another hand: what was applied and runs now has run.
LEMMA ConfigNode ==
  ASSUME ConfigInv, active' \in Configs, ran' = ran \cup Conf!Ran(active'), drift' \in BOOLEAN,
         drift' = (drift \/ active' # active),
         pending' \in [cfg : Configs, booting : BOOLEAN] \cup {Conf!NoPending},
         UNCHANGED <<revs, draft, job, applies, accepted>>
  PROVE  ConfigInv'
  <1>1. ConfigShapes'
    BY DEF ConfigInv, ConfigShapes, Conf!Saved
  <1>2. Once' /\ Conf!AppliedIsProved'
    BY DEF ConfigInv, Once, Conf!AppliedIsProved, Conf!Saved, Marked
  <1>3. Reviewed'
    BY DEF ConfigInv, Reviewed
  <1>4. ASSUME NEW r \in Revs, applies[r] # 0, revs[r].after = active' PROVE r \in ran'
    BY <1>4 DEF Conf!Ran, Conf!Saved, ConfigInv, Once, ConfigShapes
  <1>5. Ranks'
    BY <1>4 DEF ConfigInv, Ranks
  <1> QED BY <1>1, <1>2, <1>3, <1>5 DEF ConfigInv, Numbered

LEMMA ConfigEnvironment ==
  ASSUME ConfigInv, Conf!Activate \/ Conf!Reboot \/ \E c \in Configs : Conf!EditNode(c)
  PROVE  ConfigInv'
  <1>1. CASE Conf!Activate
    <2>1. pending.cfg \in Configs
      BY <1>1 DEF Conf!Activate, ConfigInv, ConfigShapes, Conf!NoPending
    <2>2. drift' \in BOOLEAN /\ drift' = (drift \/ active' # active)
      BY <1>1 DEF Conf!Activate
    <2> QED BY <1>1, <2>1, <2>2, ConfigNode DEF Conf!Activate
  <1>2. CASE Conf!Reboot
    <2>1. pending' \in [cfg : Configs, booting : BOOLEAN]
      BY <1>2 DEF Conf!Reboot, ConfigInv, ConfigShapes
    <2>2. UNCHANGED <<revs, draft, job, active, applies, accepted, ran, drift>>
      BY <1>2 DEF Conf!Reboot, Conf!history
    <2>3. ConfigShapes'
      BY <2>1, <2>2 DEF ConfigInv, ConfigShapes, Conf!Saved
    <2>4. Once' /\ Ranks' /\ Reviewed' /\ Conf!AppliedIsProved'
      BY <2>2 DEF ConfigInv, Once, Ranks, Reviewed, Conf!AppliedIsProved, Conf!Saved, Marked
    <2> QED BY <2>3, <2>4 DEF ConfigInv, Numbered
  <1>3. ASSUME NEW c \in Configs, Conf!EditNode(c) PROVE ConfigInv'
    <2>1. drift' \in BOOLEAN /\ drift' = (drift \/ active' # active)
      BY <1>3 DEF Conf!EditNode
    <2>2. pending' \in [cfg : Configs, booting : BOOLEAN] \cup {Conf!NoPending}
      BY <1>3 DEF Conf!EditNode, ConfigInv, ConfigShapes
    <2> QED BY <1>3, <2>1, <2>2, ConfigNode DEF Conf!EditNode
  <1> QED BY <1>1, <1>2, <1>3

\* Every step keeps the invariant.
LEMMA ConfigNext == ASSUME ConfigInv, [Conf!Next]_(Conf!vars) PROVE ConfigInv'
  <1>1. CASE UNCHANGED Conf!vars
    BY <1>1, ConfigDraft DEF Conf!vars, ConfigInv, ConfigShapes
  <1>2. CASE \E r \in Revs : Conf!Expire(r)
    BY <1>2, ConfigDraft DEF Conf!Expire, ConfigInv, ConfigShapes
  <1> QED BY <1>1, <1>2, ConfigPlan, ConfigMakePlan, ConfigRequest, ConfigCheck, ConfigMark,
             ConfigApply, ConfigReport, ConfigFinish, ConfigRestart, ConfigEnvironment DEF Conf!Next

\* Only the apply sends anything, from the place where the plan was compared.
LEMMA ConfigReplaces == ASSUME ConfigInv, [Conf!Next]_(Conf!vars) PROVE Conf!ReplacesReviewed
  <1>1. CASE Conf!ApplyNodeConfig
    BY <1>1 DEF ConfigInv, Reviewed, Conf!ReplacesReviewed, Conf!ApplyNodeConfig, Conf!At, Conf!Rev
  <1>2. CASE ~Conf!ApplyNodeConfig
    <2>1. applies' = applies
      BY <1>2 DEF Conf!Next, Conf!Plan, Conf!RestorePlan, Conf!MakePlan, Conf!Expire, Conf!Request,
                  Conf!Check, Conf!MarkRunning, Conf!Verify, Conf!LogComplete, Conf!Finish, Conf!Restart,
                  Conf!Activate, Conf!Reboot, Conf!EditNode, Conf!history, Conf!vars
    <2> QED BY <2>1 DEF Conf!ReplacesReviewed
  <1> QED BY <1>1, <1>2

-----------------------------------------------------------------------------
(* Theorems. *)

\* The inductive invariant holds in every state.
THEOREM ConfigInvariant == ASSUME Numbered PROVE Conf!Spec => []ConfigInv
  <1>1. Conf!Init => ConfigInv
    BY ConfigInit
  <1>2. ConfigInv /\ [Conf!Next]_(Conf!vars) => ConfigInv'
    BY ConfigNext
  <1> QED BY <1>1, <1>2, PTL DEF Conf!Spec

\* A reviewed plan is applied at most once (Run marks it before it applies).
THEOREM PlanAppliedOnce == ASSUME Numbered PROVE Conf!Spec => []Conf!AppliedOnce
  <1>1. ConfigInv => Conf!AppliedOnce
    BY DEF ConfigInv, Once, Conf!AppliedOnce, ConfigShapes
  <1> QED BY <1>1, ConfigInvariant, PTL

\* Only what the node ran, or took, reads as applied: RestorePlan goes back to nothing else.
THEOREM AppliedWasProved == ASSUME Numbered PROVE Conf!Spec => []Conf!AppliedIsProved
  <1>1. ConfigInv => Conf!AppliedIsProved
    BY DEF ConfigInv
  <1> QED BY <1>1, ConfigInvariant, PTL

\* An apply replaces what was reviewed, except in the window after the comparison.
THEOREM ApplyReplacesReviewed == ASSUME Numbered PROVE Conf!Spec => [][Conf!ReplacesReviewed]_(Conf!vars)
  <1>1. ConfigInv /\ [Conf!Next]_(Conf!vars) => [Conf!ReplacesReviewed]_(Conf!vars)
    BY ConfigReplaces
  <1> QED BY <1>1, ConfigInvariant, PTL DEF Conf!Spec
=============================================================================
