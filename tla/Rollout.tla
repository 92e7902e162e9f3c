------------------------------- MODULE Rollout ------------------------------
(***************************************************************************)
(* Rolling Talos upgrades and reboots, and Kubernetes upgrades, of one     *)
(* cluster (internal/operations/service.go and runner.go,                  *)
(* internal/k8s/upgrades.go, internal/talos/upgrade_disk.go).              *)
(*                                                                         *)
(* Versions are numbers; one more is the next minor release.  A node that  *)
(* was told to reboot first pulls its image and works as before, then goes *)
(* down, in its own time.  Failing calls and commands, nodes that fail or  *)
(* boot their old version, foreign cordons and crashes draw on MaxFaults.  *)
(* The job journal runs one job at a time; it honours a stop request at    *)
(* its checkpoints and refuses every mutation after one (JobManager), the  *)
(* patches of the node, the evictions and the commands of talosctl alike.  *)
(* A refusal in the middle of a node is returned as ErrUncertain, and the  *)
(* job reads interrupted: an operator must look before the next one.       *)
(***************************************************************************)
EXTENDS Naturals, FiniteSets, Sequences

CONSTANTS Layouts,     \* clusters: functions from nodes (numbers) to "cp" or "worker"
          Targets,     \* versions a request may name
          MaxRuns,
          MaxFaults

VARIABLES role,        \* the cluster's layout
          ver, kver,   \* [nodes -> Talos version, kubelet version]
          api,         \* version of the control-plane components
          up,          \* [nodes -> the machine answers and is Ready]
          cordoned,    \* unschedulable nodes
          booting,     \* [nodes -> the version a commanded reboot will start, or 0]
          down,        \* nodes whose commanded reboot has begun
          drained,     \* history: nodes a rollout cordoned and nobody uncordoned since
          unsettled,   \* history: nodes an operator uncordoned while their reboot was outstanding
          job,         \* the running job, or Idle
          stop,        \* a stop was requested
          result,      \* how the last job ended
          runs, faults

cluster == <<ver, kver, api, up, cordoned, booting, down, drained, unsettled>>
vars == <<role, cluster, job, stop, result, runs, faults>>

Nodes == DOMAIN role
CPs == {n \in Nodes : role[n] = "cp"}
Quorum == Cardinality(CPs) \div 2 + 1
Idle == [pc |-> "idle"]
Kinds == {"talos-upgrade", "rolling-reboot", "kubernetes-upgrade"}
Request == [kind : Kinds, target : Targets, downtime : BOOLEAN]

Init == /\ role \in Layouts
        /\ ver = [n \in Nodes |-> 1] /\ kver = [n \in Nodes |-> 1] /\ api = 1
        /\ up = [n \in Nodes |-> TRUE] /\ cordoned = {} /\ drained = {}
        /\ booting = [n \in Nodes |-> 0] /\ down = {} /\ unsettled = {}
        /\ job = Idle /\ stop = FALSE /\ result = "none" /\ runs = 0 /\ faults = 0

Fault == faults < MaxFaults /\ faults' = faults + 1
NoFault == UNCHANGED faults

-----------------------------------------------------------------------------
(* Preflight. *)

\* What UpgradeInventory and ListNodes see: a node that will reboot, but has not begun to, is Ready.
Ready(n) == up[n] /\ n \notin down
EtcdHealthy == \A n \in CPs : Ready(n)
Step(from, to) == to \in {from, from + 1}
Current(n, kind) == IF kind = "kubernetes-upgrade" THEN kver[n] ELSE ver[n]
Skip(n, r) == r.kind # "rolling-reboot" /\ Current(n, r.kind) = r.target

\* Mutant: two control planes are taken for a quorum with one to spare.
QuorumSparesOneOff(r) == Cardinality(CPs) > 1 => Cardinality(CPs) - 1 >= Cardinality(CPs) \div 2

\* One control plane can be missed, or the operator accepts the downtime of the only one.
QuorumSpares(r) == IF Cardinality(CPs) = 1 THEN r.downtime
                   ELSE Cardinality(CPs) - 1 >= Cardinality(CPs) \div 2 + 1

\* Mutant: a cordoned node does not stand in the way.
NodeFitCordoned(n, r) == Ready(n) /\ (r.kind # "rolling-reboot" => Step(Current(n, r.kind), r.target))

\* Every node is Ready and schedulable, and one release at most behind the target.
NodeFit(n, r) == /\ Ready(n) /\ n \notin cordoned
                 /\ r.kind # "rolling-reboot" => Step(Current(n, r.kind), r.target)

\* Preflight: nodes, versions, quorum and etcd; something must be left to change.
Preflight(r) ==
    /\ \A n \in Nodes : NodeFit(n, r)
    /\ r.kind = "kubernetes-upgrade" => Step(api, r.target)
    /\ r.kind # "kubernetes-upgrade" => QuorumSpares(r)
    /\ EtcdHealthy
    /\ \/ r.kind = "rolling-reboot"
       \/ \E n \in Nodes : ~Skip(n, r)
       \/ r.kind = "kubernetes-upgrade" /\ api # r.target

\* Control planes first, but last when they are only rebooted; then by address.
Before(a, b, kind) ==
    IF role[a] = role[b] THEN a < b
    ELSE role[a] = (IF kind = "rolling-reboot" THEN "worker" ELSE "cp")
Order(kind) == CHOOSE s \in [1..Cardinality(Nodes) -> Nodes] :
                  \A i, j \in 1..Cardinality(Nodes) : i < j => Before(s[i], s[j], kind)

-----------------------------------------------------------------------------
(* The job. *)

At(pc) == job.pc = pc
Goto(pc) == job' = [job EXCEPT !.pc = pc]
Ends(how) == job' = Idle /\ result' = how
Req == job.req
Node == job.plan[job.i]

Submit(r) ==
    /\ job = Idle /\ runs < MaxRuns
    /\ r.kind = "rolling-reboot" => \A t \in Targets : r.target <= t
    /\ job' = [pc |-> "preflight", req |-> r, plan |-> <<>>, todo |-> {}, i |-> 1, found |-> drained]
    /\ stop' = FALSE /\ result' = "none" /\ runs' = runs + 1
    /\ UNCHANGED <<role, cluster, faults>>

RequestStop ==
    /\ job # Idle /\ ~stop /\ stop' = TRUE
    /\ UNCHANGED <<role, cluster, job, result, runs, faults>>

\* A mutation after a stop is refused by BeginIntent, and Run makes ErrUncertain of it.
Refused == stop /\ Ends("interrupted") /\ NoFault

\* A checkpoint honours a stop, otherwise goes on.
Checkpoint(next) == IF stop THEN Ends("stopped") ELSE next /\ UNCHANGED result

PreflightStep ==
    /\ At("preflight")
    /\ IF stop THEN Ends("stopped")
       ELSE IF ~Preflight(Req) THEN Ends("failed")
       ELSE /\ job' = [job EXCEPT !.pc = "backup", !.plan = Order(Req.kind),
                                  !.todo = {n \in Nodes : ~Skip(n, Req)}]
            /\ UNCHANGED result
    /\ UNCHANGED <<role, cluster, stop, runs, faults>>

\* The dry run of a Kubernetes upgrade, the snapshot and its verification.
Backup ==
    /\ At("backup")
    /\ \/ /\ NoFault
          /\ Checkpoint(Goto(IF Req.kind = "kubernetes-upgrade" THEN "upgrade-k8s" ELSE "node"))
       \/ Fault /\ Ends("failed")
    /\ UNCHANGED <<role, cluster, stop, runs>>

\* Per node: skip what has the version, check everything again, then a checkpoint.
NodeStart ==
    /\ At("node") /\ job.i <= Len(job.plan)
    /\ IF Node \notin job.todo THEN job' = [job EXCEPT !.i = @ + 1] /\ UNCHANGED result
       ELSE IF Preflight(Req) THEN Checkpoint(Goto("drain"))
       ELSE Ends("failed")
    /\ UNCHANGED <<role, cluster, stop, runs, faults>>

\* CordonAndDrainNode: first the node is cordoned; when the patch fails it may be.
Cordon ==
    LET patched == /\ cordoned' = cordoned \cup {Node} /\ drained' = drained \cup {Node}
                   /\ unsettled' = unsettled \ {Node}
        kept == UNCHANGED <<cordoned, drained, unsettled>>
    IN /\ At("drain")
       /\ \/ Refused /\ kept
          \/ ~stop /\ patched /\ Goto("evict") /\ NoFault /\ UNCHANGED result
          \/ ~stop /\ (patched \/ kept) /\ Fault /\ Ends("interrupted")
       /\ UNCHANGED <<role, ver, kver, api, up, booting, down, stop, runs>>

\* Then its Pods are evicted, and the drain waits until they left; it is left cordoned when an
\* eviction fails or is refused. A node without Pods needs no eviction.
Evict ==
    /\ At("evict")
    /\ \/ Refused
       \/ Goto("command") /\ NoFault /\ UNCHANGED result
       \/ Fault /\ Ends("interrupted")
    /\ UNCHANGED <<role, cluster, stop, runs>>

\* talosctl reboot or upgrade is sent; a failing command may have been obeyed.
Command ==
    LET boots == [booting EXCEPT ![Node] = IF Req.kind = "talos-upgrade" THEN Req.target ELSE ver[Node]]
    IN /\ At("command")
       /\ \/ Refused /\ UNCHANGED booting
          \/ ~stop /\ booting' = boots /\ Goto("reboot") /\ NoFault /\ UNCHANGED result
          \/ ~stop /\ booting' \in {boots, booting} /\ Fault /\ Ends("interrupted")
       /\ UNCHANGED <<role, ver, kver, api, up, cordoned, down, drained, unsettled, stop, runs>>

\* It returns when the node has rebooted (--wait), or fails.
Rebooted ==
    /\ At("reboot")
    /\ \/ booting[Node] = 0 /\ Goto("wait") /\ NoFault /\ UNCHANGED result
       \/ Fault /\ Ends("interrupted")
    /\ UNCHANGED <<role, cluster, stop, runs>>

\* Mutant: the version is not looked at.
AtTargetAny(n) == TRUE

AtTarget(n) == Req.kind = "talos-upgrade" => ver[n] = Req.target

\* The wait: the node is back at the target version, and etcd is healthy; or 20 minutes pass.
Wait ==
    /\ At("wait")
    /\ \/ Ready(Node) /\ EtcdHealthy /\ AtTarget(Node) /\ Goto("uncordon") /\ NoFault /\ UNCHANGED result
       \/ Fault /\ Ends("interrupted")
    /\ UNCHANGED <<role, cluster, stop, runs>>

Schedule(n) == cordoned' = cordoned \ {n} /\ drained' = drained \ {n}

\* Mutant: the refusal is returned as it is, and the job reads stopped.
UncordonStops ==
    /\ At("uncordon")
    /\ IF stop THEN Ends("stopped") /\ UNCHANGED <<cordoned, drained>>
       ELSE Schedule(Node) /\ job' = [job EXCEPT !.pc = "node", !.i = @ + 1] /\ UNCHANGED result
    /\ NoFault /\ UNCHANGED <<role, ver, kver, api, up, booting, down, unsettled, stop, runs>>

\* SetNodeMaintenance(false): refused after a stop as every mutation is; a failing patch may
\* have been obeyed.
Uncordon ==
    /\ At("uncordon")
    /\ \/ Refused /\ UNCHANGED <<cordoned, drained>>
       \/ /\ ~stop /\ Schedule(Node)
          /\ job' = [job EXCEPT !.pc = "node", !.i = @ + 1] /\ NoFault /\ UNCHANGED result
       \/ ~stop /\ (Schedule(Node) \/ UNCHANGED <<cordoned, drained>>) /\ Fault /\ Ends("interrupted")
    /\ UNCHANGED <<role, ver, kver, api, up, booting, down, unsettled, stop, runs>>

\* Preflight again and a checkpoint before talosctl upgrade-k8s.
UpgradeK8s ==
    /\ At("upgrade-k8s")
    /\ IF Preflight(Req) THEN Checkpoint(Goto("apply-k8s")) ELSE Ends("failed")
    /\ UNCHANGED <<role, cluster, stop, runs, faults>>

\* The command, which may stop half way.
ApplyK8s ==
    /\ At("apply-k8s")
    /\ \/ Refused /\ UNCHANGED <<kver, api>>
       \/ /\ ~stop /\ api' = Req.target /\ kver' = [n \in Nodes |-> Req.target]
          /\ Goto("wait-k8s") /\ NoFault /\ UNCHANGED result
       \/ /\ ~stop /\ Fault /\ Ends("interrupted") /\ api' \in {api, Req.target}
          /\ \E part \in SUBSET Nodes :
                kver' = [n \in Nodes |-> IF n \in part THEN Req.target ELSE kver[n]]
    /\ UNCHANGED <<role, ver, up, cordoned, booting, down, drained, unsettled, stop, runs>>

Schedulable == \A n \in Nodes : Ready(n) /\ n \notin cordoned

WaitK8s ==
    /\ At("wait-k8s")
    /\ \/ /\ Schedulable /\ api = Req.target /\ \A n \in Nodes : kver[n] = Req.target
          /\ Goto("finish") /\ NoFault /\ UNCHANGED result
       \/ Fault /\ Ends("interrupted")
    /\ UNCHANGED <<role, cluster, stop, runs>>

\* The checks after the last node or the upgrade of Kubernetes: etcd, every Kubernetes node,
\* every Talos node and version.
Finish ==
    /\ At("finish") \/ (At("node") /\ job.i > Len(job.plan))
    /\ Ends(IF EtcdHealthy /\ Schedulable /\ \A n \in Nodes : AtTarget(n) THEN "succeeded" ELSE "failed")
    /\ UNCHANGED <<role, cluster, stop, runs, faults>>

-----------------------------------------------------------------------------
(* Nodes, operators and crashes. *)

\* The node stops its services to reboot.
RebootStarts(n) ==
    /\ booting[n] # 0 /\ n \notin down /\ down' = down \cup {n}
    /\ UNCHANGED <<role, ver, kver, api, up, cordoned, booting, drained, unsettled, job, stop, result,
                   runs, faults>>

\* The commanded reboot ends; the machine may fall back to what it ran.
BootDone(n) ==
    /\ n \in down /\ down' = down \ {n} /\ booting' = [booting EXCEPT ![n] = 0]
    /\ unsettled' = unsettled \ {n}
    /\ \/ ver' = [ver EXCEPT ![n] = booting[n]] /\ NoFault
       \/ booting[n] # ver[n] /\ Fault /\ UNCHANGED ver
    /\ UNCHANGED <<role, kver, api, up, cordoned, drained, job, stop, result, runs>>

NodeFails(n) ==
    /\ up[n] /\ Fault /\ up' = [up EXCEPT ![n] = FALSE]
    /\ UNCHANGED <<role, ver, kver, api, cordoned, booting, down, drained, unsettled, job, stop, result, runs>>

NodeRecovers(n) ==
    /\ ~up[n] /\ up' = [up EXCEPT ![n] = TRUE]
    /\ UNCHANGED <<role, ver, kver, api, cordoned, booting, down, drained, unsettled, job, stop, result,
                   runs, faults>>

\* POST /nodes/:node/maintenance, which needs the journal idle; nothing tells it of a reboot
\* that is still to come.
SetNodeMaintenance(n) ==
    /\ job = Idle
    /\ \/ /\ n \in cordoned /\ Schedule(n) /\ NoFault
          /\ unsettled' = unsettled \cup (IF booting[n] = 0 THEN {} ELSE {n})
       \/ n \notin cordoned /\ cordoned' = cordoned \cup {n} /\ UNCHANGED <<drained, unsettled>> /\ Fault
    /\ UNCHANGED <<role, ver, kver, api, up, booting, down, job, stop, result, runs>>

Crash ==
    /\ job # Idle /\ Fault /\ Ends("interrupted")
    /\ UNCHANGED <<role, cluster, stop, runs>>

Next == \/ \E r \in Request : Submit(r)
        \/ RequestStop \/ PreflightStep \/ Backup \/ NodeStart \/ Cordon \/ Evict \/ Command
        \/ Rebooted \/ Wait \/ Uncordon \/ UpgradeK8s \/ ApplyK8s \/ WaitK8s \/ Finish \/ Crash
        \/ \E n \in Nodes : RebootStarts(n)
        \/ \E n \in Nodes : BootDone(n)
        \/ \E n \in Nodes : NodeFails(n)
        \/ \E n \in Nodes : NodeRecovers(n)
        \/ \E n \in Nodes : SetNodeMaintenance(n)

Spec == Init /\ [][Next]_vars

-----------------------------------------------------------------------------
(* Properties. *)

\* Well-typed states: positions lie in the plan and reboots lead to known versions.
TypeOK ==
    /\ DOMAIN ver = Nodes /\ cordoned \subseteq Nodes /\ drained \subseteq cordoned
    /\ down \cup unsettled \subseteq {n \in Nodes : booting[n] # 0}
    /\ \A n \in Nodes : ver[n] \in Nat \ {0} /\ booting[n] \in Nat /\ up[n] \in BOOLEAN
    /\ job = Idle \/ (job.i \in 1..(Cardinality(Nodes) + 1) /\ job.todo \subseteq Nodes)
    /\ runs \in 0..MaxRuns /\ faults \in 0..MaxFaults

\* At most one node at a time is out of service because of rollouts, drained or with a commanded
\* reboot still to come, across failed steps, lost answers, crashes and rollouts started after
\* them: Preflight sees the node of an unfinished rollout as long as it is cordoned, also while it
\* does not reboot yet. A node that an operator makes schedulable before its reboot is the
\* operator's; Preflight cannot see that it will go.
OneNodeAtATime == Cardinality((drained \cup {n \in Nodes : booting[n] # 0}) \ unsettled) <= 1

\* The control planes that rollouts are rebooting leave etcd a quorum, unless there is only one
\* (then the operator accepted the downtime in this request).
QuorumSurvives ==
    \/ Cardinality({n \in CPs : booting[n] = 0 \/ n \in unsettled}) >= Quorum
    \/ Cardinality(CPs) = 1

\* A rollout leaves a node drained only when it reads interrupted, so that no job starts before an
\* operator has looked: however it was stopped, failed or was refused, and although it may have
\* found the node of an earlier one.
StrandedIsReviewed ==
    job # Idle /\ job' = Idle /\ result' # "interrupted" => drained' \subseteq job.found

\* service.go:512: a stop requested during the drain "must not strand it cordoned after verified
\* recovery": a rollout that ends at the uncordon step without a failing call leaves the node
\* schedulable.
StopStrandsNothing == At("uncordon") /\ job' = Idle /\ faults' = faults => Node \notin cordoned'

\* An upgrade that reads succeeded has brought every node to its target, and no node is left out
\* of service by it, or about to go (the checks after the last node).
RolloutIsDone ==
    result' = "succeeded" /\ result # "succeeded" =>
      /\ drained = {} /\ \A n \in Nodes : booting[n] = 0 \/ n \in unsettled
      /\ Req.kind = "talos-upgrade" => \A n \in Nodes : ver[n] = Req.target
      /\ Req.kind = "kubernetes-upgrade" => api = Req.target /\ \A n \in Nodes : kver[n] = Req.target
=============================================================================
