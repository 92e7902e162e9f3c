--------------------------- MODULE NodeEvacuation ---------------------------
(***************************************************************************)
(* What lives on a worker that is about to be destroyed: the inventory an  *)
(* operator reviews, the drain, the second look before the destruction and *)
(* the recovery of the workloads (internal/k8s/replacement.go,             *)
(* replacement_workloads.go, the drain of internal/k8s/client.go and       *)
(* replacementImpactSubset of internal/operations).                        *)
(*                                                                         *)
(* The inventory reads attachments, Pods and volumes one after the other   *)
(* while Pods come and go and volumes are attached.  A Pod name stands for *)
(* its workload and for the one volume it mounts; the UID tells its        *)
(* instances apart.                                                        *)
(***************************************************************************)
EXTENDS Naturals, FiniteSets

CONSTANTS Pods,      \* names of Pods, each with one volume
          Layouts,   \* what the names are: functions from Pods to a kind and a volume
          MaxUid,    \* Pod instances of one name
          Ack        \* the operator acknowledged the loss of emptyDir data

VARIABLES layout,    \* [Pods -> [kind, volume]], chosen once
          uid,       \* [Pods -> 0..MaxUid]: instance on the node, 0 when none is
          born,      \* [Pods -> 0..MaxUid]: instances created so far
          away,      \* names with a Ready Pod on another node
          attached,  \* names whose volume is attached to the node
          sick,      \* names whose claim or volume cannot be identified
          cordoned,
          pc,        \* the workflow's place
          seen,      \* attachments listed by the running inventory
          report,    \* the inventory so far
          reviewed,  \* the report the operator approved
          todo,      \* Pod instances the drain listed and still has to evict
          listed,    \* Pod instances the drain listed and checked
          evicted,   \* Pod instances whose eviction was accepted; they leave later
          always     \* what has held volumes here ever since the running inventory started

clusterVars == <<layout, uid, born, away, attached, sick, cordoned>>
vars == <<clusterVars, pc, seen, report, reviewed, todo, listed, evicted, always>>

Empty == [pods |-> {}, volumes |-> {}, unknown |-> FALSE]
\* kind: deployment, daemonset, static or bare; volume: pv, local, emptyDir, projected or csi.
Kind == [n \in Pods |-> layout[n].kind]
Volume == [n \in Pods |-> layout[n].volume]
HasPV(n) == Volume[n] \in {"pv", "local"}

\* What holds a volume to the node: a Pod instance, an attachment, or the node's own disk.
Holds(us, at) == {<<n, "pod">> : n \in {m \in Pods : HasPV(m) /\ us[m] # 0}}
                 \cup {<<n, "attachment">> : n \in at}
                 \cup {<<n, "disk">> : n \in {m \in Pods : Volume[m] = "local"}}

Init == /\ layout \in Layouts
        /\ uid = [n \in Pods |-> 1] /\ born = uid /\ away = {}
        /\ attached = {n \in Pods : Volume[n] = "pv"} /\ sick = {} /\ cordoned = FALSE
        /\ pc = "new" /\ seen = {} /\ report = Empty /\ reviewed = Empty
        /\ todo = {} /\ listed = {} /\ evicted = {} /\ always = {}

-----------------------------------------------------------------------------
(* ReplacementImpact: three lists, then the Node's identity once more. *)

\* replacementPVC: everything between claim, volume, class and driver must agree, and a
\* volume that does always needs review.
VolumeState(n) ==
    CASE HasPV(n) -> IF n \in sick THEN "unknown" ELSE "requires_review"
      [] Volume[n] = "emptyDir" -> "requires_review"
      [] Volume[n] = "projected" -> "portable"
      [] OTHER -> "unknown"

StartInventory(from, to) ==
    /\ pc = from /\ pc' = to
    /\ report' = Empty /\ always' = Holds(uid, attached)
    /\ seen' = attached
    /\ UNCHANGED <<clusterVars, reviewed, todo, listed, evicted>>

ListPods(from, to) ==
    LET here == {n \in Pods : uid[n] # 0}
    IN /\ pc = from /\ pc' = to
       /\ report' = [pods |-> {<<n, uid[n]>> : n \in here},
                     volumes |-> {n \in here : VolumeState(n) # "portable"},
                     unknown |-> \E n \in here : VolumeState(n) = "unknown"]
       /\ UNCHANGED <<clusterVars, seen, reviewed, todo, listed, evicted, always>>

\* replacementAffinity: a local volume belongs to this node, or nobody can tell.
Bound(n) == Volume[n] = "local"

\* Mutant: only what a Pod mounts is looked at.
UnmountedNone == {}

\* Volumes that no listed Pod mounts, but that are attached here or live on the node.
Unmounted == {n \in Pods : HasPV(n) /\ n \notin report.volumes /\ (n \in seen \/ Bound(n))}

ListVolumes(from) ==
    /\ pc = from
    /\ report' = [report EXCEPT !.volumes = @ \cup Unmounted,
                                !.unknown = @ \/ \E n \in Unmounted : n \in sick]
    /\ UNCHANGED <<clusterVars, seen, reviewed, todo, listed, evicted, always>>

\* validateReplacementOriginalImpact: every Pod has a controller whose recovery can be checked.
Verifiable(r) == \A q \in r.pods : Kind[q[1]] \in {"deployment", "daemonset"}

-----------------------------------------------------------------------------
(* Review, drain, second look, destruction. *)

ReviewStart == StartInventory("new", "reviewPods")
ReviewPods  == ListPods("reviewPods", "reviewVolumes")
Review ==
    /\ ListVolumes("reviewVolumes")
    /\ pc' = IF report'.unknown \/ ~Verifiable(report') THEN "new" ELSE "reviewed"

Approve == /\ pc = "reviewed" /\ pc' = "cordon" /\ reviewed' = report
           /\ UNCHANGED <<clusterVars, seen, report, todo, listed, evicted, always>>

\* CordonAndDrainReplacement: the patch is tied to the Node's UID.
Cordon == /\ pc = "cordon" /\ cordoned' = TRUE /\ pc' = "list"
          /\ UNCHANGED <<layout, uid, born, away, attached, sick, seen, report, reviewed, todo, listed, evicted, always>>

\* skipPodDuringDrain
Skipped(n) == Kind[n] \in {"daemonset", "static"}
Drainable == {n \in Pods : uid[n] # 0 /\ ~Skipped(n)}

\* A Pod nobody would recreate, or one whose emptyDir was not acknowledged, stops the drain
\* before the first eviction.
DrainList ==
    /\ pc = "list"
    /\ IF \E n \in Drainable : Kind[n] = "bare" \/ (Volume[n] = "emptyDir" /\ ~Ack)
       THEN pc' = "stopped" /\ UNCHANGED <<todo, listed>>
       ELSE pc' = "evict" /\ todo' = {<<n, uid[n]>> : n \in Drainable} /\ listed' = todo'
    /\ UNCHANGED <<clusterVars, seen, report, reviewed, evicted, always>>

\* Mutant: the eviction names the Pod and not its UID.
EvictPodByName ==
    \E q \in todo :
        /\ pc = "evict" /\ todo' = todo \ {q}
        /\ evicted' = evicted \cup ({<<q[1], uid[q[1]]>>} \ {<<q[1], 0>>})
        /\ UNCHANGED <<clusterVars, pc, seen, report, reviewed, listed, always>>

\* evictPodChecked: the precondition is the UID that was listed; a Pod that is gone is done.
EvictPod ==
    \E q \in todo :
        /\ pc = "evict" /\ todo' = todo \ {q}
        /\ evicted' = IF uid[q[1]] = q[2] THEN evicted \cup {q} ELSE evicted
        /\ UNCHANGED <<clusterVars, pc, seen, report, reviewed, listed, always>>

Evicted == /\ pc = "evict" /\ todo = {} /\ pc' = "wait"
           /\ UNCHANGED <<clusterVars, seen, report, reviewed, todo, listed, evicted, always>>

\* Mutant: the drain ends with the last accepted eviction.
DrainWaitNot == /\ pc = "wait" /\ pc' = "drained"
                /\ UNCHANGED <<clusterVars, seen, report, reviewed, todo, listed, evicted, always>>

\* The drain polls until no drainable Pod is left, or its context ends.
DrainWait == /\ pc = "wait" /\ pc' \in (IF Drainable = {} THEN {"drained"} ELSE {"stopped"})
             /\ UNCHANGED <<clusterVars, seen, report, reviewed, todo, listed, evicted, always>>

ObserveStart == StartInventory("drained", "observePods")
ObservePods  == ListPods("observePods", "observeVolumes")

\* replacementImpactSubset: Pods by their UID, volumes by the volume whoever mounts it now.
Subset(now, before) == ~now.unknown /\ now.pods \subseteq before.pods /\ now.volumes \subseteq before.volumes

Observe == /\ ListVolumes("observeVolumes")
           /\ pc' = IF Subset(report', reviewed) THEN "accepted" ELSE "stopped"

\* The VM is destroyed: every Pod on the node is gone.
Destroy == /\ pc = "accepted" /\ pc' = "destroyed"
           /\ uid' = [n \in Pods |-> 0]
           /\ UNCHANGED <<layout, born, away, attached, sick, cordoned, seen, report, reviewed, todo, listed, evicted, always>>

\* VerifyReplacementWorkloads: the pinned controllers have their Ready Pods elsewhere.
VerifyReplacementWorkloads ==
    /\ pc = "destroyed" /\ pc' = "verified"
    /\ \A q \in reviewed.pods : q[1] \in away
    /\ UNCHANGED <<clusterVars, seen, report, reviewed, todo, listed, evicted, always>>

-----------------------------------------------------------------------------
(* The cluster. *)

\* What lets go of a volume in between is no longer owed to the running inventory.
Kept == always' = always \cap Holds(uid', attached')

\* The scheduler leaves a cordoned node alone, except for DaemonSets and static Pods.
PodArrives(n) ==
    /\ uid[n] = 0 /\ born[n] < MaxUid /\ pc \notin {"destroyed", "verified"}
    /\ ~cordoned \/ Skipped(n)
    /\ born' = [born EXCEPT ![n] = @ + 1] /\ uid' = [uid EXCEPT ![n] = born'[n]]
    /\ UNCHANGED <<layout, away, attached, sick, cordoned, pc, seen, report, reviewed, todo, listed, evicted>> /\ Kept

PodLeaves(n) ==
    /\ uid[n] # 0 /\ uid' = [uid EXCEPT ![n] = 0]
    /\ UNCHANGED <<layout, born, away, attached, sick, cordoned, pc, seen, report, reviewed, todo, listed, evicted>> /\ Kept

PodRecovers(n) ==
    /\ Kind[n] \in {"deployment", "daemonset"} /\ n \notin away /\ away' = away \cup {n}
    /\ pc = "destroyed"
    /\ UNCHANGED <<layout, uid, born, attached, sick, cordoned, pc, seen, report, reviewed, todo, listed, evicted, always>>

VolumeMoves(n) ==
    /\ Volume[n] = "pv"
    /\ attached' = IF n \in attached THEN attached \ {n} ELSE attached \cup {n}
    /\ n \in attached => uid[n] = 0
    /\ n \notin attached => uid[n] # 0
    /\ UNCHANGED <<layout, uid, born, away, sick, cordoned, pc, seen, report, reviewed, todo, listed, evicted>> /\ Kept

\* One claim of the behaviour may stop being identifiable.
ClaimBreaks(n) ==
    /\ HasPV(n) /\ sick = {} /\ sick' = {n}
    /\ UNCHANGED <<layout, uid, born, away, attached, cordoned, pc, seen, report, reviewed, todo, listed, evicted, always>>

Uncordon == /\ cordoned /\ cordoned' = FALSE
            /\ UNCHANGED <<layout, uid, born, away, attached, sick, pc, seen, report, reviewed, todo, listed, evicted, always>>

Next ==
    \/ ReviewStart \/ ReviewPods \/ Review \/ Approve \/ Cordon \/ DrainList \/ EvictPod \/ Evicted
    \/ DrainWait \/ ObserveStart \/ ObservePods \/ Observe \/ Destroy \/ VerifyReplacementWorkloads
    \/ \E n \in Pods : PodArrives(n) \/ PodLeaves(n) \/ PodRecovers(n) \/ VolumeMoves(n) \/ ClaimBreaks(n)
    \/ Uncordon

Spec == Init /\ [][Next]_vars

-----------------------------------------------------------------------------
(* Properties. *)

\* Reports name Pods and volumes, and the workflow is at one of its places.
TypeOK ==
    /\ uid \in [Pods -> 0..MaxUid] /\ born \in [Pods -> 0..MaxUid]
    /\ away \subseteq Pods /\ attached \subseteq Pods /\ sick \subseteq Pods /\ cordoned \in BOOLEAN
    /\ seen \subseteq Pods /\ always \subseteq Pods \X {"pod", "attachment", "disk"}
    /\ \A r \in {report, reviewed} : /\ r.pods \subseteq Pods \X (1..MaxUid) /\ r.volumes \subseteq Pods
                                     /\ r.unknown \in BOOLEAN
    /\ todo \subseteq listed /\ listed \subseteq Pods \X (1..MaxUid) /\ evicted \subseteq Pods \X (1..MaxUid)

\* The old VM is destroyed only when every volume that one and the same Pod, attachment or disk held
\* to the node during the whole second inventory is one the operator reviewed, although the three
\* lists are read at different moments.
DestroyedWasReviewed == pc = "accepted" => {h[1] : h \in always} \subseteq reviewed.volumes

\* Only Pod instances that passed the drain's checks are evicted: a Pod that took a listed name
\* later, with data of its own, is not (the UID precondition of evictPodChecked).
EvictedWasChecked == evicted \subseteq listed

\* From the end of the drain to the destruction no drainable Pod is on the node, unless somebody
\* made it schedulable again; evictions only announce that a Pod will leave.
DrainedIsEmpty ==
    pc \in {"drained", "observePods", "observeVolumes", "accepted"} /\ cordoned => Drainable = {}
=============================================================================
