-------------------------- MODULE ReplacementProofs --------------------------
(***************************************************************************)
(* What the replacement of a worker promises.                              *)
(*                                                                         *)
(* The evacuation of its node, for any Pods, volumes and number of Pod     *)
(* instances: only what was checked is evicted, the drained node is empty, *)
(* and nothing is destroyed that held a volume throughout the second       *)
(* inventory and was not reviewed.  The invariant follows what has held a  *)
(* volume all along through the three lists: an attachment is in the first *)
(* one, the volume of a Pod in the second, and what neither shows is found *)
(* by the third, because it is attached or local.                          *)
(*                                                                         *)
(* The replacement itself, for any number of plans and faults: a plan and  *)
(* its continuations destroy once, what was done is recorded, what reads   *)
(* succeeded is done, and the Node outlives its VM.  The invariant keeps a *)
(* ledger of the records: the plans of one child form a line with one head *)
(* that can still act, itself or through the continuation waiting in it,   *)
(* and the head of a child that was destroyed for says that it was tried.  *)
(***************************************************************************)
EXTENDS Integers, FiniteSets, TLAPS

CONSTANTS Pods, Layouts, MaxUid, Ack,    \* the evacuation
          Plans, MaxFaults               \* the replacement

VARIABLES layout, uid, born, away, attached, sick, cordoned,
          pc, seen, report, reviewed, todo, listed, evicted, always,
          plans, successor, child, queued, ran, run, vm, task, destroys, reused, back, node,
          ready, impact, record, overlooked, faults

Evac == INSTANCE NodeEvacuation
Work == INSTANCE WorkerReplacement

\* A Pod is there before the first inventory.
Populated == MaxUid \in Nat \ {0}

Report == [pods : SUBSET (Pods \X (0..MaxUid)), volumes : SUBSET Pods, unknown : BOOLEAN]

\* The shapes of the state; only persistent volumes are attached.
Shapes ==
    /\ uid \in [Pods -> 0..MaxUid] /\ born \in [Pods -> 0..MaxUid]
    /\ report \in Report /\ todo \subseteq listed
    /\ \A n \in attached : n \in Pods /\ Evac!Volume[n] = "pv"

\* Nothing is evicted before the drain has made its list.
NotYetEvicted ==
    pc \in {"new", "reviewPods", "reviewVolumes", "reviewed", "cordon", "list"} => evicted = {}

\* Up to the second list, what has held a volume all along holds it now.
StillHeld == pc = "observePods" => always \subseteq Evac!Holds(uid, attached)

\* It is an attachment that the first list shows, the node's own disk, or a Pod whose volume
\* the second list shows.
Covered(h) ==
    /\ h[1] \in Pods /\ Evac!HasPV(h[1])
    /\ \/ h[2] = "attachment" /\ h[1] \in seen
       \/ h[2] = "disk" /\ Evac!Bound(h[1])
       \/ h[2] = "pod" /\ (pc = "observeVolumes" => h[1] \in report.volumes)
ListsCover == pc \in {"observePods", "observeVolumes"} => \A h \in always : Covered(h)

EvacInv ==
    /\ Populated /\ Shapes /\ NotYetEvicted /\ StillHeld /\ ListsCover
    /\ Evac!DestroyedWasReviewed /\ Evac!EvictedWasChecked /\ Evac!DrainedIsEmpty

-----------------------------------------------------------------------------
\* At the start nothing has been listed.
LEMMA EvacInit == ASSUME Populated, Evac!Init PROVE EvacInv
<1>1. Shapes BY DEF Populated, Evac!Init, Shapes, Report, Evac!Empty
<1>2. NotYetEvicted /\ StillHeld /\ ListsCover
  BY DEF Evac!Init, NotYetEvicted, StillHeld, ListsCover
<1>3. Evac!DestroyedWasReviewed /\ Evac!EvictedWasChecked /\ Evac!DrainedIsEmpty
  BY DEF Evac!Init, Evac!DestroyedWasReviewed, Evac!EvictedWasChecked, Evac!DrainedIsEmpty
<1> QED BY <1>1, <1>2, <1>3 DEF EvacInv

\* What holds a volume, one by one.
LEMMA Holding ==
    ASSUME Shapes, NEW h \in Evac!Holds(uid, attached)
    PROVE  /\ h[1] \in Pods /\ Evac!HasPV(h[1])
           /\ \/ h[2] = "attachment" /\ h[1] \in attached
              \/ h[2] = "disk" /\ Evac!Bound(h[1])
              \/ h[2] = "pod" /\ uid[h[1]] # 0
BY DEF Shapes, Evac!Holds, Evac!HasPV, Evac!Bound

\* Steps that leave the Pods, the volumes and what is owed to the inventory alone keep the
\* invariant when the report is a report and the place is not one the invariant speaks of.
LEMMA Elsewhere ==
    ASSUME EvacInv, UNCHANGED <<layout, uid, born, attached, cordoned, todo, listed, evicted>>,
           report' \in Report,
           pc' \in {"new", "reviewPods", "reviewVolumes", "reviewed", "cordon", "list"} => evicted = {},
           pc' \notin {"drained", "observePods", "observeVolumes", "accepted"}
    PROVE  EvacInv'
BY DEF EvacInv, Populated, Shapes, NotYetEvicted, StillHeld, ListsCover, Evac!DestroyedWasReviewed,
       Evac!EvictedWasChecked, Evac!DrainedIsEmpty, Evac!Volume

\* The first inventory and its review.
LEMMA EvacReview ==
    ASSUME EvacInv, Evac!ReviewStart \/ Evac!ReviewPods \/ Evac!Review \/ Evac!Approve
    PROVE  EvacInv'
<1> USE DEF EvacInv, Evac!clusterVars, NotYetEvicted
<1>1. CASE Evac!ReviewStart
  <2>1. report' \in Report BY <1>1 DEF Evac!ReviewStart, Evac!StartInventory, Evac!Empty, Report
  <2> QED BY <1>1, <2>1, Elsewhere DEF Evac!ReviewStart, Evac!StartInventory
<1>2. CASE Evac!ReviewPods
  <2>1. report' \in Report BY <1>2 DEF Evac!ReviewPods, Evac!ListPods, Report, Shapes
  <2> QED BY <1>2, <2>1, Elsewhere DEF Evac!ReviewPods, Evac!ListPods
<1>3. CASE Evac!Review
  <2>1. report' \in Report BY <1>3 DEF Evac!Review, Evac!ListVolumes, Evac!Unmounted, Report, Shapes
  <2> QED BY <1>3, <2>1, Elsewhere DEF Evac!Review, Evac!ListVolumes
<1>4. CASE Evac!Approve BY <1>4, Elsewhere DEF Evac!Approve, Shapes
<1> QED BY <1>1, <1>2, <1>3, <1>4

\* The drain: evictions name instances of the list, and its end has seen the node empty.
LEMMA EvacDrain ==
    ASSUME EvacInv,
           Evac!Cordon \/ Evac!DrainList \/ Evac!EvictPod \/ Evac!Evicted \/ Evac!DrainWait
    PROVE  EvacInv'
<1> USE DEF EvacInv, Evac!clusterVars, Populated, Shapes, NotYetEvicted, StillHeld, ListsCover,
            Evac!DestroyedWasReviewed, Evac!EvictedWasChecked, Evac!DrainedIsEmpty, Evac!Volume
<1>1. CASE Evac!Cordon BY <1>1 DEF Evac!Cordon
<1>2. CASE Evac!DrainList BY <1>2 DEF Evac!DrainList
<1>3. CASE Evac!EvictPod BY <1>3 DEF Evac!EvictPod
<1>4. CASE Evac!Evicted BY <1>4 DEF Evac!Evicted
<1>5. CASE Evac!DrainWait
  BY <1>5 DEF Evac!DrainWait, Evac!Drainable, Evac!Skipped, Evac!Kind
<1> QED BY <1>1, <1>2, <1>3, <1>4, <1>5

\* The second inventory.
LEMMA EvacObserve ==
    ASSUME EvacInv, Evac!ObserveStart \/ Evac!ObservePods \/ Evac!Observe
    PROVE  EvacInv'
<1> USE DEF EvacInv, Evac!clusterVars
<1>1. CASE Evac!ObserveStart
  <2>1. /\ pc' = "observePods" /\ always' = Evac!Holds(uid, attached) /\ seen' = attached
        /\ UNCHANGED <<layout, uid, born, attached, cordoned, todo, listed, evicted>>
        /\ pc = "drained" /\ report' \in Report
    BY <1>1 DEF Evac!ObserveStart, Evac!StartInventory, Evac!Empty, Report
  <2>2. ListsCover'
    BY <2>1, Holding DEF ListsCover, Covered, Evac!HasPV, Evac!Bound, Evac!Volume
  <2>3. StillHeld' BY <2>1 DEF StillHeld, Evac!Holds, Evac!HasPV, Evac!Volume
  <2> QED BY <2>1, <2>2, <2>3 DEF Populated, Shapes, NotYetEvicted, Evac!DestroyedWasReviewed,
        Evac!EvictedWasChecked, Evac!DrainedIsEmpty, Evac!Drainable, Evac!Skipped, Evac!Kind, Evac!Volume
<1>2. CASE Evac!ObservePods
  <2>1. /\ pc = "observePods" /\ pc' = "observeVolumes"
        /\ UNCHANGED <<layout, uid, born, attached, cordoned, seen, todo, listed, evicted, always>>
        /\ report'.volumes = {n \in {m \in Pods : uid[m] # 0} : Evac!VolumeState(n) # "portable"}
    BY <1>2 DEF Evac!ObservePods, Evac!ListPods
  <2>2. report' \in Report BY <1>2 DEF Evac!ObservePods, Evac!ListPods, Report, Shapes
  <2>3. ASSUME NEW n \in Pods, Evac!HasPV(n), uid[n] # 0 PROVE n \in report'.volumes
    BY <2>1, <2>3 DEF Evac!VolumeState, Evac!HasPV
  <2>4. ASSUME NEW h \in always, h[2] = "pod" PROVE uid[h[1]] # 0
    BY <2>1, <2>4, Holding DEF StillHeld
  <2>5. ListsCover'
    BY <2>1, <2>3, <2>4 DEF ListsCover, Covered, Evac!HasPV, Evac!Bound, Evac!Volume
  <2> QED BY <2>1, <2>2, <2>5 DEF Populated, Shapes, NotYetEvicted, StillHeld, Evac!DestroyedWasReviewed,
        Evac!EvictedWasChecked, Evac!DrainedIsEmpty, Evac!Drainable, Evac!Skipped, Evac!Kind, Evac!Volume
<1>3. CASE Evac!Observe
  <2>1. /\ pc = "observeVolumes" /\ pc' \in {"accepted", "stopped"}
        /\ UNCHANGED <<layout, uid, born, attached, cordoned, todo, listed, evicted, always>>
        /\ report'.volumes = report.volumes \cup Evac!Unmounted
        /\ pc' = "accepted" => report'.volumes \subseteq reviewed'.volumes
    BY <1>3 DEF Evac!Observe, Evac!ListVolumes, Evac!Subset, Shapes, Report
  <2>2. report' \in Report
    BY <1>3 DEF Evac!Observe, Evac!ListVolumes, Evac!Unmounted, Report, Shapes
  <2>3. ASSUME NEW h \in always PROVE h[1] \in report'.volumes
    BY <2>1 DEF ListsCover, Covered, Evac!Unmounted
  <2>4. Evac!DestroyedWasReviewed' BY <2>1, <2>3 DEF Evac!DestroyedWasReviewed
  <2> QED BY <2>1, <2>2, <2>4 DEF Populated, Shapes, NotYetEvicted, StillHeld, ListsCover,
        Evac!EvictedWasChecked, Evac!DrainedIsEmpty, Evac!Drainable, Evac!Skipped, Evac!Kind, Evac!Volume
<1> QED BY <1>1, <1>2, <1>3

\* After the destruction nothing is claimed.
LEMMA EvacOver == ASSUME EvacInv, Evac!Destroy \/ Evac!VerifyReplacementWorkloads PROVE EvacInv'
BY DEF EvacInv, Evac!clusterVars, Evac!Destroy, Evac!VerifyReplacementWorkloads, Populated, Shapes,
       NotYetEvicted, StillHeld, ListsCover, Evac!DestroyedWasReviewed, Evac!EvictedWasChecked,
       Evac!DrainedIsEmpty, Evac!Volume

\* The cluster moves while the workflow stands still: what lets go of a volume is owed no more.
ClusterMoves ==
    /\ UNCHANGED <<layout, pc, seen, report, reviewed, todo, listed, evicted>>
    /\ always' \subseteq always
    /\ cordoned' => cordoned

LEMMA EvacCluster ==
    ASSUME EvacInv, ClusterMoves, Shapes', StillHeld',
           \A n \in Pods : cordoned /\ uid'[n] # 0 => uid[n] # 0 \/ Evac!Skipped(n)
    PROVE  EvacInv'
<1>1. Evac!DrainedIsEmpty'
  BY DEF EvacInv, ClusterMoves, Evac!DrainedIsEmpty, Evac!Drainable, Evac!Skipped, Evac!Kind
<1>2. ListsCover'
  BY DEF EvacInv, ClusterMoves, ListsCover, Covered, Evac!HasPV, Evac!Bound, Evac!Volume
<1>3. NotYetEvicted' /\ Evac!DestroyedWasReviewed' /\ Evac!EvictedWasChecked'
  BY DEF EvacInv, ClusterMoves, NotYetEvicted, Evac!DestroyedWasReviewed, Evac!EvictedWasChecked
<1> QED BY <1>1, <1>2, <1>3 DEF EvacInv, Populated

\* Every step keeps the invariant.
LEMMA EvacNext == ASSUME EvacInv, [Evac!Next]_(Evac!vars) PROVE EvacInv'
<1> USE DEF EvacInv
<1>1. ASSUME NEW n \in Pods, Evac!PodArrives(n) PROVE EvacInv'
  <2>1. ClusterMoves BY <1>1 DEF Evac!PodArrives, Evac!Kept, ClusterMoves
  <2>2. /\ uid' = [uid EXCEPT ![n] = born[n] + 1] /\ born' = [born EXCEPT ![n] = born[n] + 1]
        /\ born[n] + 1 \in 0..MaxUid /\ UNCHANGED <<layout, attached, report, todo, listed>>
    BY <1>1 DEF Evac!PodArrives, Shapes, Populated
  <2>3. Shapes' BY <2>2 DEF Shapes, Evac!Volume
  <2>4. StillHeld'
    BY <1>1 DEF Evac!PodArrives, Evac!Kept, StillHeld, Evac!Holds, Evac!HasPV, Evac!Volume
  <2>5. \A m \in Pods : cordoned /\ uid'[m] # 0 => uid[m] # 0 \/ Evac!Skipped(m)
    BY <1>1, <2>2 DEF Evac!PodArrives, Shapes
  <2> QED BY <2>1, <2>3, <2>4, <2>5, EvacCluster
<1>2. ASSUME NEW n \in Pods, Evac!PodLeaves(n) PROVE EvacInv'
  <2>1. ClusterMoves BY <1>2 DEF Evac!PodLeaves, Evac!Kept, ClusterMoves
  <2>2. /\ uid' = [uid EXCEPT ![n] = 0] /\ 0 \in 0..MaxUid
        /\ UNCHANGED <<layout, born, attached, report, todo, listed>>
    BY <1>2 DEF Evac!PodLeaves, Populated
  <2>3. Shapes' BY <2>2 DEF Shapes, Evac!Volume
  <2>4. StillHeld'
    BY <1>2 DEF Evac!PodLeaves, Evac!Kept, StillHeld, Evac!Holds, Evac!HasPV, Evac!Volume
  <2>5. \A m \in Pods : cordoned /\ uid'[m] # 0 => uid[m] # 0 \/ Evac!Skipped(m)
    BY <2>2 DEF Shapes
  <2> QED BY <2>1, <2>3, <2>4, <2>5, EvacCluster
<1>3. ASSUME NEW n \in Pods, Evac!VolumeMoves(n) PROVE EvacInv'
  <2>1. ClusterMoves BY <1>3 DEF Evac!VolumeMoves, Evac!Kept, ClusterMoves
  <2>2. /\ Evac!Volume[n] = "pv" /\ attached' \subseteq attached \cup {n}
        /\ UNCHANGED <<layout, uid, born, report, todo, listed>>
    BY <1>3 DEF Evac!VolumeMoves
  <2>3. Shapes' BY <2>2 DEF Shapes, Evac!Volume
  <2>4. StillHeld'
    BY <1>3 DEF Evac!VolumeMoves, Evac!Kept, StillHeld, Evac!Holds, Evac!HasPV, Evac!Volume
  <2> QED BY <2>1, <2>2, <2>3, <2>4, EvacCluster
<1>4. ASSUME cordoned' => cordoned, UNCHANGED <<layout, uid, born, attached, pc, seen, report,
                reviewed, todo, listed, evicted, always>>
      PROVE  EvacInv'
  <2>1. ClusterMoves BY <1>4 DEF ClusterMoves
  <2>2. Shapes' BY <1>4 DEF Shapes, Evac!Volume
  <2>3. StillHeld' BY <1>4 DEF StillHeld, Evac!Holds, Evac!HasPV, Evac!Volume
  <2> QED BY <1>4, <2>1, <2>2, <2>3, EvacCluster
<1>5. ASSUME NEW n \in Pods, Evac!PodRecovers(n) \/ Evac!ClaimBreaks(n) PROVE EvacInv'
  BY <1>4, <1>5 DEF Evac!PodRecovers, Evac!ClaimBreaks
<1>6. CASE Evac!Uncordon BY <1>4, <1>6 DEF Evac!Uncordon
<1>7. CASE UNCHANGED Evac!vars BY <1>4, <1>7 DEF Evac!vars, Evac!clusterVars
<1> QED BY <1>1, <1>2, <1>3, <1>5, <1>6, <1>7, EvacReview, EvacDrain, EvacObserve, EvacOver
        DEF Evac!Next

-----------------------------------------------------------------------------
\* The inductive invariant holds in every state.
THEOREM EvacuationInvariant == ASSUME Populated PROVE Evac!Spec => []EvacInv
<1>1. Evac!Init => EvacInv BY EvacInit
<1>2. EvacInv /\ [Evac!Next]_(Evac!vars) => EvacInv' BY EvacNext
<1> QED BY <1>1, <1>2, PTL DEF Evac!Spec

\* The VM is destroyed only when what held a volume to the node during the whole second inventory
\* was reviewed, although its three lists are read at different moments (ReplacementImpact).
THEOREM ReviewedBeforeDestroyed == ASSUME Populated PROVE Evac!Spec => []Evac!DestroyedWasReviewed
<1>1. EvacInv => Evac!DestroyedWasReviewed BY DEF EvacInv
<1> QED BY <1>1, EvacuationInvariant, PTL

\* Only checked Pod instances are evicted, and a drained node stays empty of Pods that a drain
\* would evict until somebody makes it schedulable (evictPodChecked, drainNode).
THEOREM DrainIsExact ==
    ASSUME Populated PROVE Evac!Spec => [](Evac!EvictedWasChecked /\ Evac!DrainedIsEmpty)
<1>1. EvacInv => Evac!EvictedWasChecked /\ Evac!DrainedIsEmpty BY DEF EvacInv
<1> QED BY <1>1, EvacuationInvariant, PTL

-----------------------------------------------------------------------------
(* The replacement. *)

\* Plans are numbered from 1: 0 stands for no plan.
Numbered == 0 \notin Plans

\* A continuation waits in the record of the plan it continues.
Waiting(i) == plans[i].succ # 0 /\ ~Work!Exists(plans[i].succ)
\* Superseded by a new plan, not by a continuation.
Gone(i) == plans[i].status = "superseded" /\ plans[i].succ = 0
\* The plan of its child that can still act, itself or through the continuation it holds.
Head(i) == Work!Exists(i) /\ (plans[i].status # "superseded" \/ Waiting(i))
Started(p) == p.effects \/ p.childStarted \/ p.tried \/ p.drainStarted \/ p.nodeStarted

PCs == {"check", "adopt", "drain", "draining", "create", "creating", "fence", "destroying", "waiting",
        "unfenced", "node", "deleting", "proving", "final", "verify", "workloads", "done", "failed"}

WorldTypes ==
    /\ child \in [Plans -> {"none", "planned", "created", "configured", "ready"}]
    /\ destroys \in [Plans -> Nat] /\ queued \subseteq Plans
    /\ reused \in Plans \cup {0} /\ back \in {"no", "recent", "old"}
    /\ vm \in {"running", "stopped", "deleting", "gone"}
    /\ task \in {"none", "running", "ok", "failed"}
    /\ node \in {"old", "none", "new"} /\ impact \in 0..2 /\ overlooked \in BOOLEAN

WorkShapes ==
    /\ plans \in [Plans -> Work!Plan \cup {Work!NoPlan}]
    /\ successor \in [Plans -> Work!Plan \cup {Work!NoPlan}]
    /\ run \in {Work!Idle} \cup [pc : PCs, id : Plans, p : Work!Plan]
    /\ WorldTypes

(* Each record. *)
Sound(i) ==
    LET p == plans[i]
    IN /\ p.status # "superseded" => p.succ = 0
       /\ p.nodeDeleted => p.nodeStarted
       /\ child[p.child] # "none"
       /\ Gone(i) => ~Started(p)
       /\ p.prev # 0 => plans[p.prev].status = "superseded" /\ plans[p.prev].succ = i
       /\ p.status # "superseded" /\ ~p.tried => destroys[p.child] = 0
       /\ p.status = "succeeded" => /\ task = "ok" /\ node # "old" /\ record = "deleted"
                                    /\ child[p.child] = "ready"
Kept(i) ==
    LET p == plans[i]  q == successor[i]
    IN /\ q \in Work!Plan /\ q.status = "planned" /\ q.prev = i /\ q.succ = 0
       /\ q.child = p.child /\ q.childStarted /\ p.childStarted
       /\ q.nodeDeleted => q.nodeStarted
       /\ ~q.tried => destroys[p.child] = 0
Records == \A i \in Plans : Work!Exists(i) => Sound(i) /\ (Waiting(i) => Kept(i))

(* The records of one child. *)
OneHead == \A i, j \in Plans : Head(i) /\ Head(j) /\ plans[i].child = plans[j].child => i = j
Succession == \A i, j \in Plans :
    Work!Exists(i) /\ Work!Exists(j) /\ plans[i].succ = plans[j].succ /\ plans[i].succ # 0 => i = j
Continued == \A i \in Plans : Work!Exists(i) /\ plans[i].status = "superseded" /\ plans[i].succ # 0 =>
    \E h \in Plans : Head(h) /\ plans[h].child = plans[i].child /\ plans[h].childStarted
OneLine == ~overlooked => \A i, j \in Plans :
    Work!Exists(i) /\ Work!Exists(j) /\ plans[i].child # plans[j].child => Gone(i) \/ Gone(j)

(* The run. *)
Flags(p, q) ==
    /\ q.child = p.child
    /\ p.effects => q.effects
    /\ p.tried => q.tried
    /\ p.childStarted => q.childStarted
    /\ p.nodeStarted => q.nodeStarted
Follows(p, q) == Flags(p, q) /\ q.prev = p.prev /\ q.succ = p.succ
Held(ev) == ev.fresh => task = "ok" /\ (vm = "gone" \/ back = "recent")
Runs ==
    /\ Work!Exists(run.id) /\ plans[run.id].status = "running" /\ run.p.status = "running"
    /\ Follows(plans[run.id], run.p)
    /\ run.p.nodeDeleted => run.p.nodeStarted
Place ==
    /\ run.pc = "creating" => plans[run.id].childStarted /\ child[run.p.child] = "planned"
    /\ run.pc = "destroying" => /\ plans[run.id].tried /\ plans[run.id].effects
                                /\ destroys[run.p.child] = 0 /\ node = "old"
    /\ run.pc \in {"destroying", "waiting", "unfenced", "node", "deleting", "proving"} => run.p.tried
    /\ run.pc \in {"deleting", "proving"} => run.p.nodeStarted
    /\ run.pc = "deleting" => /\ plans[run.id].nodeStarted /\ plans[run.id].tried
                              /\ Held(run.p.fence)
    /\ run.pc \in {"verify", "workloads", "done"} => node # "old"
    /\ run.pc \in {"workloads", "done"} => child[run.p.child] = "ready"
    /\ run.pc = "done" => record = "deleted"
Running == run # Work!Idle => Runs /\ Place

Fenced == node # "old" => task = "ok"

WorkInv == Numbered /\ WorkShapes /\ Records /\ OneHead /\ Succession /\ Continued /\ OneLine
           /\ Running /\ Fenced /\ Work!EffectsAreRecorded /\ Work!DestroyedOnce

-----------------------------------------------------------------------------
\* What has happened to the child plans and the world is not undone.
Forward ==
    /\ \A c \in Plans : child[c] # "none" => child'[c] # "none"
    /\ \A c \in Plans : child[c] = "ready" => child'[c] = "ready"
    /\ node # "old" => node' # "old" /\ task' = task
    /\ record = "deleted" => record' = "deleted"
    /\ UNCHANGED overlooked
Onward == Forward /\ UNCHANGED destroys

Ledger == Records /\ OneHead /\ Succession /\ Continued /\ OneLine

Rewritten(i, q) ==
    /\ q \in Work!Plan /\ q.status # "superseded"
    /\ plans' = [plans EXCEPT ![i] = q] /\ UNCHANGED successor

\* A plan is not the missing one.
LEMMA NoPlanFact == \A p \in Work!Plan : p # Work!NoPlan /\ p.status # "none"
BY DEF Work!Plan, Work!NoPlan

\* The fields of a plan.
LEMMA PlanFields ==
    ASSUME NEW p \in Work!Plan
    PROVE  /\ p.status \in {"planned", "running", "succeeded", "requires_review", "superseded"}
           /\ p.mode \in {"reachable", "dead"}
           /\ p.prev \in Plans \cup {0} /\ p.succ \in Plans \cup {0} /\ p.child \in Plans
           /\ p.effects \in BOOLEAN /\ p.tried \in BOOLEAN /\ p.childStarted \in BOOLEAN
           /\ p.nodeStarted \in BOOLEAN /\ p.nodeDeleted \in BOOLEAN /\ p.drainStarted \in BOOLEAN
           /\ p.fence \in Work!Evidence /\ p.impact \in 0..2
BY DEF Work!Plan

\* Saving a plan that is not superseded, with the same lineage and no flag lowered, keeps the ledger.
LEMMA Rewrite ==
    ASSUME Numbered, WorkShapes, Ledger, NEW i \in Plans, NEW q, Work!Exists(i),
           plans[i].status # "superseded", Rewritten(i, q), Follows(plans[i], q), Onward,
           q.nodeDeleted => q.nodeStarted,
           q.status = "succeeded" => /\ task' = "ok" /\ node' # "old" /\ record' = "deleted"
                                     /\ child'[q.child] = "ready",
           Fenced
    PROVE  /\ Ledger' /\ Work!Exists(i)' /\ plans'[i] = q
           /\ \A j \in Plans : Work!Exists(j)' <=> Work!Exists(j)
           /\ \A j \in Plans \ {i} : plans'[j] = plans[j]
<1>1. plans'[i] = q /\ \A j \in Plans \ {i} : plans'[j] = plans[j]
  BY DEF Rewritten, WorkShapes
<1>2. \A j \in Plans : Work!Exists(j)' <=> Work!Exists(j)
  BY <1>1, NoPlanFact DEF Rewritten, Work!Exists
<1>3. \A j \in Plans : Work!Exists(j) => plans[j] \in Work!Plan /\ plans[j].child \in Plans
                       /\ plans[j].succ \in Plans \cup {0} /\ plans[j].prev \in Plans \cup {0}
  BY PlanFields DEF WorkShapes, Work!Exists
<1>4. q.child = plans[i].child /\ q.succ = plans[i].succ /\ q.prev = plans[i].prev /\ plans[i].succ = 0
      /\ q.child \in Plans
  BY <1>3 DEF Follows, Flags, Ledger, Records, Sound
<1>5. \A j \in Plans : Work!Exists(j) => (Waiting(j)' <=> Waiting(j)) /\ (Gone(j)' <=> Gone(j))
                       /\ (Head(j)' <=> Head(j)) /\ plans'[j].child = plans[j].child
                       /\ plans'[j].succ = plans[j].succ /\ plans'[j].prev = plans[j].prev
                       /\ (plans[j].status = "superseded" <=> plans'[j].status = "superseded")
  BY <1>1, <1>2, <1>3, <1>4 DEF Waiting, Gone, Head, Rewritten
<1>6. OneHead' /\ Succession'
  BY <1>2, <1>5 DEF OneHead, Succession, Ledger, Head
<1>7. Continued'
  <2> SUFFICES ASSUME NEW k \in Plans, Work!Exists(k)', plans'[k].status = "superseded", plans'[k].succ # 0
               PROVE  \E h \in Plans : Head(h)' /\ plans'[h].child = plans'[k].child
                                       /\ plans'[h].childStarted
    BY DEF Continued
  <2>1. PICK h \in Plans : Head(h) /\ plans[h].child = plans[k].child /\ plans[h].childStarted
    BY <1>2, <1>5 DEF Continued, Ledger
  <2>2. plans'[h].childStarted
    BY <2>1, <1>1 DEF Follows, Flags
  <2> QED BY <2>1, <2>2, <1>2, <1>5 DEF Head
<1>8. OneLine'
  BY <1>2, <1>5 DEF OneLine, Ledger, Onward, Forward
<1>9. Records'
  <2> SUFFICES ASSUME NEW j \in Plans, Work!Exists(j)
               PROVE  Sound(j)' /\ (Waiting(j)' => Kept(j)')
    BY <1>2 DEF Records
  <2>1. Waiting(j)' => Kept(j)'
    BY <1>1, <1>3, <1>4, <1>5 DEF Records, Ledger, Kept, Rewritten, Onward, Forward, Waiting
  <2>2. plans'[j].prev # 0 => plans'[plans'[j].prev].status = "superseded" /\ plans'[plans'[j].prev].succ = j
    BY <1>1, <1>3, <1>4, <1>5 DEF Records, Ledger, Sound
  <2>3. j = i => Sound(j)'
    BY <2>2, <1>1, <1>3, <1>4, <1>5
       DEF Sound, Records, Ledger, Onward, Forward, Follows, Flags, Rewritten, Gone, Started
  <2>4. j # i => Sound(j)'
    BY <2>2, <1>1, <1>3, <1>4, <1>5 DEF Sound, Records, Ledger, Onward, Forward, Fenced
  <2> QED BY <2>1, <2>3, <2>4
<1> QED BY <1>1, <1>2, <1>6, <1>7, <1>8, <1>9 DEF Ledger, Rewritten

\* Two records that differ in nothing the ledger speaks of.
Alike(p, q) ==
    /\ Flags(p, q) /\ Flags(q, p) /\ q.prev = p.prev /\ q.succ = p.succ /\ q.status = p.status
    /\ q.drainStarted = p.drainStarted /\ q.nodeDeleted = p.nodeDeleted

\* So does a step that changes nothing in the records but what the ledger does not speak of.
LEMMA Unmoved ==
    ASSUME Numbered, WorkShapes, WorkShapes', Ledger, Fenced, Forward,
           \A j \in Plans : Work!Exists(j) /\ destroys'[plans[j].child] # destroys[plans[j].child] =>
               ~Waiting(j) /\ (plans[j].status # "superseded" => plans[j].tried),
           \A j \in Plans : Work!Exists(j)' <=> Work!Exists(j),
           \A j \in Plans : Work!Exists(j) => Alike(plans[j], plans'[j]),
           \A j \in Plans : successor[j] \in Work!Plan =>
               successor'[j] \in Work!Plan /\ Alike(successor[j], successor'[j])
    PROVE  /\ Ledger'
           /\ \A j \in Plans : Work!Exists(j) => Work!Exists(j)' /\ Flags(plans[j], plans'[j])
<1>3. \A j \in Plans : Work!Exists(j) =>
          /\ plans[j] \in Work!Plan /\ plans'[j] \in Work!Plan /\ plans[j].child \in Plans
          /\ plans[j].succ \in Plans \cup {0} /\ plans[j].prev \in Plans \cup {0}
  <2> TAKE j \in Plans
  <2> HAVE Work!Exists(j)
  <2>1. plans[j] \in Work!Plan /\ plans'[j] \in Work!Plan BY DEF WorkShapes, Work!Exists
  <2> QED BY <2>1, PlanFields
<1>4. \A j \in Plans : Work!Exists(j) =>
          /\ plans[j].effects = plans'[j].effects /\ plans[j].tried = plans'[j].tried
          /\ plans[j].childStarted = plans'[j].childStarted /\ plans[j].nodeStarted = plans'[j].nodeStarted
  <2> TAKE j \in Plans
  <2> HAVE Work!Exists(j)
  <2> QED BY <1>3, PlanFields DEF Alike, Flags
<1>5. \A j \in Plans : Work!Exists(j) => (Waiting(j)' <=> Waiting(j)) /\ (Gone(j)' <=> Gone(j))
                       /\ (Head(j)' <=> Head(j)) /\ plans'[j].child = plans[j].child
                       /\ plans'[j].succ = plans[j].succ /\ plans'[j].prev = plans[j].prev
                       /\ plans'[j].status = plans[j].status
  BY <1>3 DEF Waiting, Gone, Head, Alike, Flags
<1>6. OneHead' /\ Succession'
  BY <1>5 DEF OneHead, Succession, Ledger, Head
<1>7. Continued'
  BY <1>4, <1>5 DEF Continued, Ledger, Head
<1>8. OneLine'
  BY <1>5 DEF OneLine, Ledger, Forward
<1>9. Records'
  <2> SUFFICES ASSUME NEW j \in Plans, Work!Exists(j)
               PROVE  Sound(j)' /\ (Waiting(j)' => Kept(j)')
    BY DEF Records
  <2>1. Waiting(j) => /\ successor[j] \in Work!Plan /\ successor'[j] \in Work!Plan
                      /\ Alike(successor[j], successor'[j])
    BY DEF Records, Ledger, Kept
  <2>2. Waiting(j)' => Kept(j)'
    BY <2>1, <1>3, <1>4, <1>5, PlanFields DEF Records, Ledger, Kept, Forward, Alike, Flags
  <2>3. plans'[j].prev # 0 => plans'[plans'[j].prev].status = "superseded" /\ plans'[plans'[j].prev].succ = j
    <3> HAVE plans'[j].prev # 0
    <3>1. plans[plans[j].prev].status = "superseded" /\ plans[j].prev \in Plans
      BY <1>3, <1>5 DEF Records, Ledger, Sound
    <3>2. Work!Exists(plans[j].prev) BY <3>1 DEF Work!Exists, Work!NoPlan
    <3> QED BY <3>1, <3>2, <1>5 DEF Records, Ledger, Sound
  <2>4. Sound(j)'
    BY <2>3, <1>3, <1>4, <1>5 DEF Sound, Records, Ledger, Forward, Fenced, Gone, Started, Alike
  <2> QED BY <2>2, <2>4
<1> QED BY <1>5, <1>6, <1>7, <1>8, <1>9 DEF Ledger, Alike

Marked(c) == \E i \in Plans : Work!Exists(i) /\ plans[i].child = c /\ plans[i].tried /\ plans[i].effects
NodeMarked == \E i \in Plans : Work!Exists(i) /\ plans[i].nodeStarted /\ plans[i].tried
ChildMarked(c) == \E i \in Plans : Work!Exists(i) /\ plans[i].child = c /\ plans[i].childStarted

\* What was done stays recorded when no flag is lowered and each new effect has its record.
LEMMA Recorded ==
    ASSUME Work!EffectsAreRecorded,
           \A j \in Plans : Work!Exists(j) => Work!Exists(j)' /\ Flags(plans[j], plans'[j]),
           \A c \in Plans : destroys'[c] > 0 => destroys[c] > 0 \/ Marked(c)',
           node' # "old" => node # "old" \/ NodeMarked',
           \A c \in Plans : Work!Allocated(c)' => Work!Allocated(c) \/ ChildMarked(c)'
    PROVE  Work!EffectsAreRecorded'
<1>1. \A c \in Plans : Marked(c) => Marked(c)' BY DEF Marked, Flags
<1>2. NodeMarked => NodeMarked' BY DEF NodeMarked, Flags
<1>3. \A c \in Plans : ChildMarked(c) => ChildMarked(c)' BY DEF ChildMarked, Flags
<1>4. \A c \in Plans : destroys'[c] > 0 => Marked(c)' BY <1>1 DEF Work!EffectsAreRecorded, Marked
<1>5. node' # "old" => NodeMarked' BY <1>2 DEF Work!EffectsAreRecorded, NodeMarked
<1>6. \A c \in Plans : Work!Allocated(c)' => ChildMarked(c)'
  BY <1>3 DEF Work!EffectsAreRecorded, ChildMarked
<1> QED BY <1>4, <1>5, <1>6 DEF Work!EffectsAreRecorded, Marked, NodeMarked, ChildMarked

\* A step that leaves the records alone keeps the ledger.
LEMMA Same ==
    ASSUME WorkInv, WorkShapes', Forward, UNCHANGED <<plans, successor, destroys>>
    PROVE  Ledger' /\ \A j \in Plans : Work!Exists(j) => Work!Exists(j)' /\ Flags(plans[j], plans'[j])
<1>1. /\ \A j \in Plans : Work!Exists(j)' <=> Work!Exists(j)
      /\ \A j \in Plans : Work!Exists(j) => Alike(plans[j], plans'[j])
      /\ \A j \in Plans : successor[j] \in Work!Plan =>
              successor'[j] \in Work!Plan /\ Alike(successor[j], successor'[j])
  BY DEF Work!Exists, Alike, Flags
<1> QED BY <1>1, Unmoved DEF WorkInv, Ledger

Saved(q) == plans' \in {plans, [plans EXCEPT ![run.id] = q]} /\ UNCHANGED successor

\* A step of the run that saves its copy or nothing: the ledger, the copy and the flags.
LEMMA JobFacts ==
    ASSUME WorkInv, run # Work!Idle, NEW at \in PCs, NEW q \in Work!Plan, Work!Goto(at, q), Saved(q),
           Follows(run.p, q), q.status = "running", q.nodeDeleted => q.nodeStarted, Onward
    PROVE  /\ Ledger' /\ plans' \in [Plans -> Work!Plan \cup {Work!NoPlan}]
           /\ run' \in [pc : PCs, id : Plans, p : Work!Plan]
           /\ run' # Work!Idle /\ run'.pc = at /\ run'.p = q /\ run'.id = run.id /\ Runs'
           /\ \A j \in Plans : Work!Exists(j) => Work!Exists(j)' /\ Flags(plans[j], plans'[j])
           /\ plans' = [plans EXCEPT ![run.id] = q] => plans'[run.id] = q
           /\ Follows(plans[run.id], plans'[run.id]) /\ q.child = run.p.child
<1>1. run \in [pc : PCs, id : Plans, p : Work!Plan] BY DEF WorkInv, WorkShapes
<1>2. run' \in [pc : PCs, id : Plans, p : Work!Plan] /\ run'.pc = at /\ run'.p = q /\ run'.id = run.id
  BY <1>1 DEF Work!Goto
<1>3. run' # Work!Idle BY <1>2 DEF Work!Idle, PCs
<1>4. Runs /\ run.id \in Plans BY <1>1 DEF WorkInv, Running
<1>5. Follows(plans[run.id], q) BY <1>4 DEF Runs, Follows, Flags
<1>6. CASE plans' = plans
  <2>1. plans[run.id] \in Work!Plan /\ plans[run.id].status = "running"
    BY <1>4 DEF WorkInv, WorkShapes, Runs, Work!Exists
  <2>2. Rewritten(run.id, plans[run.id])
    BY <1>4, <1>6, <2>1 DEF Rewritten, Saved, WorkInv, WorkShapes
  <2>3. Numbered /\ WorkShapes /\ Ledger /\ Fenced BY DEF WorkInv, Ledger
  <2>4. Follows(plans[run.id], plans[run.id]) BY DEF Follows, Flags
  <2>5. plans[run.id].nodeDeleted => plans[run.id].nodeStarted
    BY <1>4, <2>3 DEF Ledger, Records, Sound, Runs
  <2>6. Ledger' /\ \A j \in Plans : Work!Exists(j)' <=> Work!Exists(j)
    <3>1. PICK i \in Plans : i = run.id BY <1>4
    <3>2. /\ Work!Exists(i) /\ plans[i].status = "running" /\ Rewritten(i, plans[i])
          /\ plans[i].nodeDeleted => plans[i].nodeStarted
      BY <3>1, <1>4, <2>1, <2>2, <2>5 DEF Runs
    <3>3. Follows(plans[i], plans[i]) BY DEF Follows, Flags
    <3>4. plans[i].status = "succeeded" =>
              /\ task' = "ok" /\ node' # "old" /\ record' = "deleted"
              /\ child'[plans[i].child] = "ready"
      BY <3>2
    <3>5. plans[i].status # "superseded" BY <3>2
    <3> HIDE <3>1
    <3> QED BY <3>2, <3>3, <3>4, <3>5, <2>3, Rewrite
  <2>7. plans' = [plans EXCEPT ![run.id] = q] => plans'[run.id] = q
    BY <1>4 DEF WorkInv, WorkShapes
  <2>8. Runs' BY <1>2, <1>4, <1>5, <1>6, <2>6 DEF Runs, Work!Exists
  <2> QED BY <1>2, <1>3, <1>6, <2>4, <2>6, <2>7, <2>8, <1>4
      DEF WorkInv, WorkShapes, Flags, Follows, Runs
<1>7. CASE plans' = [plans EXCEPT ![run.id] = q]
  <2>1. Rewritten(run.id, q) BY <1>7 DEF Rewritten, Saved
  <2>2. Numbered /\ WorkShapes /\ Ledger /\ Fenced BY DEF WorkInv, Ledger
  <2>3. plans[run.id].status # "superseded" BY <1>4 DEF Runs
  <2>4. /\ Ledger' /\ plans'[run.id] = q
        /\ \A j \in Plans : Work!Exists(j)' <=> Work!Exists(j)
        /\ \A j \in Plans \ {run.id} : plans'[j] = plans[j]
    <3>1. q.status = "succeeded" => /\ task' = "ok" /\ node' # "old" /\ record' = "deleted"
                                    /\ child'[q.child] = "ready"
      OBVIOUS
    <3>2. PICK i \in Plans : i = run.id BY <1>4
    <3>3. Work!Exists(i) /\ plans[i].status # "superseded" /\ Rewritten(i, q) /\ Follows(plans[i], q)
      BY <3>2, <1>4, <1>5, <2>1, <2>3 DEF Runs
    <3>4. /\ Ledger' /\ plans'[i] = q /\ \A j \in Plans : Work!Exists(j)' <=> Work!Exists(j)
          /\ \A j \in Plans \ {i} : plans'[j] = plans[j]
      BY <3>1, <3>3, <2>2, Rewrite
    <3> QED BY <3>2, <3>4
  <2>5. Runs' BY <1>2, <2>4, <1>5, NoPlanFact DEF Runs, Follows, Flags, Work!Exists
  <2>6. \A j \in Plans : Work!Exists(j) => Flags(plans[j], plans'[j])
    BY <1>5, <2>4 DEF Flags, Follows
  <2>7. plans' \in [Plans -> Work!Plan \cup {Work!NoPlan}] BY <1>7, <2>2 DEF WorkShapes
  <2> QED BY <1>2, <1>3, <1>5, <2>4, <2>5, <2>6, <2>7 DEF Follows, Flags, Runs
<1> QED BY <1>6, <1>7 DEF Saved

\* Such a step keeps the invariant if the run stands where it may and the world's effects are recorded.
LEMMA JobStep ==
    ASSUME WorkInv, run # Work!Idle, NEW at \in PCs, NEW q \in Work!Plan, Work!Goto(at, q), Saved(q),
           Follows(run.p, q), q.status = "running", q.nodeDeleted => q.nodeStarted, Onward,
           WorldTypes', Place', Fenced',
           node' # "old" => node # "old" \/ NodeMarked',
           \A c \in Plans : Work!Allocated(c)' => Work!Allocated(c) \/ ChildMarked(c)'
    PROVE  WorkInv'
<1>1. /\ Ledger' /\ plans' \in [Plans -> Work!Plan \cup {Work!NoPlan}]
      /\ run' \in [pc : PCs, id : Plans, p : Work!Plan]
      /\ run' # Work!Idle /\ Runs'
      /\ \A j \in Plans : Work!Exists(j) => Work!Exists(j)' /\ Flags(plans[j], plans'[j])
  BY JobFacts
<1>2. Work!EffectsAreRecorded'
  BY <1>1, Recorded DEF WorkInv, Onward, Forward
<1>3. Work!DestroyedOnce' BY DEF WorkInv, Onward, Forward, Work!DestroyedOnce
<1> QED BY <1>1, <1>2, <1>3 DEF WorkInv, WorkShapes, Ledger, Running, Saved, Numbered

-----------------------------------------------------------------------------
(* The job. *)

\* A copy the run may go on with.
Writable(q) == /\ q \in Work!Plan /\ Follows(run.p, q) /\ q.status = "running"
               /\ q.nodeDeleted => q.nodeStarted

\* What the invariant says of an executing run.
LEMMA RunFacts ==
    ASSUME WorkInv, run # Work!Idle
    PROVE  /\ run \in [pc : PCs, id : Plans, p : Work!Plan] /\ run.id \in Plans /\ run.p \in Work!Plan
           /\ run.p.child \in Plans /\ run.p.child = plans[run.id].child /\ Runs /\ Place
           /\ plans \in [Plans -> Work!Plan \cup {Work!NoPlan}] /\ WorldTypes /\ Fenced
           /\ Writable(run.p)
BY PlanFields DEF WorkInv, WorkShapes, Running, Runs, Follows, Flags, Writable

\* A run at a place of the code is executing.
LEMMA AtRuns ==
    ASSUME NEW at \in PCs, Work!At(at)
    PROVE  run # Work!Idle
BY DEF Work!At, Work!Idle, PCs

\* A step of the run that leaves the world alone.
LEMMA LocalStep ==
    ASSUME WorkInv, run # Work!Idle, NEW at \in PCs, NEW q, Writable(q), Work!Goto(at, q), Saved(q),
           Work!Local, Place'
    PROVE  WorkInv'
<1>1. Onward /\ WorldTypes' /\ Fenced'
  BY DEF Work!Local, Work!worldVars, Onward, Forward, WorkInv, WorkShapes, WorldTypes, Fenced
<1>2. node' # "old" => node # "old" \/ NodeMarked'
  BY DEF Work!Local, Work!worldVars
<1>3. \A c \in Plans : Work!Allocated(c)' => Work!Allocated(c) \/ ChildMarked(c)'
  BY DEF Work!Local, Work!Allocated
<1> QED BY <1>1, <1>2, <1>3, JobStep DEF Writable

\* Where such a step leads.
LEMMA Going ==
    ASSUME WorkInv, run # Work!Idle, NEW at \in PCs, NEW q, Work!Goto(at, q)
    PROVE  run'.pc = at /\ run'.p = q /\ run'.id = run.id
BY RunFacts DEF Work!Goto

\* A run that has failed may stand anywhere.
LEMMA Stopping ==
    ASSUME WorkInv, run # Work!Idle, NEW q, Work!Goto("failed", q)
    PROVE  Place'
BY Going DEF Place, PCs

\* The run stops, whatever it saves.
LEMMA StopStep ==
    ASSUME WorkInv, run # Work!Idle, NEW q, Writable(q), Work!Goto("failed", q), Saved(q), Work!Local
    PROVE  WorkInv'
BY LocalStep, Stopping DEF PCs

\* The run stops and saves nothing.
LEMMA GiveUpStep ==
    ASSUME WorkInv, run # Work!Idle, Work!GiveUp, Work!Local
    PROVE  WorkInv'
BY StopStep, RunFacts DEF Work!GiveUp, Saved, Work!Local

\* The run saves its copy and goes on, or stops when the save fails.
LEMMA SaveStep ==
    ASSUME WorkInv, run # Work!Idle, NEW at \in PCs, NEW q, Writable(q), Work!SaveThen(q, at), Work!Local,
           plans'[run.id] = q /\ run'.pc = at /\ run'.p = q /\ run'.id = run.id => Place'
    PROVE  WorkInv'
<1>1. CASE plans' = [plans EXCEPT ![run.id] = q] /\ Work!Goto(at, q)
  <2>1. plans'[run.id] = q BY <1>1, RunFacts
  <2>2. Place' BY <1>1, <2>1, Going
  <2> QED BY <1>1, <2>2, LocalStep DEF Saved, Work!Local
<1>2. CASE UNCHANGED plans /\ Work!Goto("failed", q)
  BY <1>2, StopStep DEF Saved, Work!Local
<1> QED BY <1>1, <1>2 DEF Work!SaveThen

\* What a revalidation may say: it changes the evidence only, and before the Node is deleted it
\* continues only when the VM is gone.
LEMMA Revalidation ==
    ASSUME NEW p \in Work!Plan, NEW lost \in BOOLEAN
    PROVE  LET v == Work!Revalidated(p, lost)
           IN /\ v.plan \in Work!Plan /\ v.plan.fence \in Work!Evidence
              /\ \E f \in Work!Evidence : v.plan = [p EXCEPT !.fence = f]
              /\ v.ok /\ ~(p.nodeDeleted /\ node = "none") => task = "ok" /\ vm = "gone" /\ reused = 0
              /\ v.ok => p.evidence
              /\ ~p.evidence => v.plan = p
<1>1. p.fence \in Work!Evidence BY PlanFields
<1>2. Work!Proved(p.fence) \in Work!Evidence /\ Work!Unproved(p.fence) \in Work!Evidence
  BY <1>1 DEF Work!Proved, Work!Unproved, Work!Evidence
<1>3. \A f \in Work!Evidence : [p EXCEPT !.fence = f] \in Work!Plan /\ [p EXCEPT !.fence = f].fence = f
  BY DEF Work!Plan
<1>4. p = [p EXCEPT !.fence = p.fence] BY DEF Work!Plan
<1>5. Work!ReusedByChild(p) => p.nodeDeleted /\ node = "none" BY DEF Work!ReusedByChild
<1>6. Work!Provable(p.fence) => task = "ok" /\ vm = "gone" /\ reused = 0 BY DEF Work!Provable
<1> QED BY <1>1, <1>2, <1>3, <1>4, <1>5, <1>6 DEF Work!Revalidated

\* The saves that only raise flags are writable.
LEMMA Raising ==
    ASSUME WorkInv, run # Work!Idle
    PROVE  /\ Writable([run.p EXCEPT !.effects = TRUE, !.drainStarted = TRUE])
           /\ Writable([run.p EXCEPT !.drained = TRUE])
           /\ Writable([run.p EXCEPT !.childStarted = TRUE, !.effects = TRUE])
           /\ Writable([run.p EXCEPT !.childDone = TRUE])
           /\ Writable([run.p EXCEPT !.effects = TRUE, !.tried = TRUE])
           /\ Writable([run.p EXCEPT !.evidence = TRUE])
           /\ Writable([run.p EXCEPT !.evidence = TRUE, !.fence.task = TRUE])
           /\ \A f \in Work!Evidence : Writable([run.p EXCEPT !.fence = f])
           /\ \A f \in Work!Evidence : Writable([[run.p EXCEPT !.fence = f] EXCEPT !.nodeStarted = TRUE])
           /\ run.p.nodeStarted => Writable([run.p EXCEPT !.nodeDeleted = TRUE])
<1>1. run.p \in Work!Plan /\ Writable(run.p) /\ run.p.fence \in Work!Evidence BY RunFacts, PlanFields
<1> DEFINE p == run.p
<1>2. p \in Work!Plan /\ p.status = "running" /\ (p.nodeDeleted => p.nodeStarted) BY <1>1 DEF Writable
<1>3. [p EXCEPT !.evidence = TRUE, !.fence.task = TRUE] \in Work!Plan
  BY <1>1, <1>2 DEF Work!Plan, Work!Evidence
<1> HIDE DEF p
<1>4. \A f \in Work!Evidence : [p EXCEPT !.fence = f] \in Work!Plan
                            /\ [[p EXCEPT !.fence = f] EXCEPT !.nodeStarted = TRUE] \in Work!Plan
  BY <1>2 DEF Work!Plan
<1>5. \A q \in Work!Plan :
          Writable(q) <=> (Follows(p, q) /\ q.status = "running" /\ (q.nodeDeleted => q.nodeStarted))
  BY DEF Writable, p
<1>6. \A f \in Work!Evidence : Writable([p EXCEPT !.fence = f])
  <2> TAKE f \in Work!Evidence
  <2> DEFINE q == [p EXCEPT !.fence = f]
  <2>1. q \in Work!Plan /\ Follows(p, q) /\ q.status = "running" /\ (q.nodeDeleted => q.nodeStarted)
    <3>1. q \in Work!Plan BY <1>4
    <3>2. /\ q.child = p.child /\ q.effects = p.effects /\ q.tried = p.tried /\ q.prev = p.prev
          /\ q.childStarted = p.childStarted /\ q.succ = p.succ /\ q.status = p.status
          /\ q.nodeDeleted = p.nodeDeleted
      BY <1>2 DEF Work!Plan
    <3>3. p.nodeStarted => q.nodeStarted BY <1>2 DEF Work!Plan
    <3> HIDE DEF q
    <3> QED BY <1>2, <3>1, <3>2, <3>3 DEF Follows, Flags
  <2> QED BY <2>1, <1>5
<1>7. \A f \in Work!Evidence : Writable([[p EXCEPT !.fence = f] EXCEPT !.nodeStarted = TRUE])
  <2> TAKE f \in Work!Evidence
  <2> DEFINE q == [[p EXCEPT !.fence = f] EXCEPT !.nodeStarted = TRUE]
  <2>1. q \in Work!Plan /\ Follows(p, q) /\ q.status = "running" /\ (q.nodeDeleted => q.nodeStarted)
    <3>1. q \in Work!Plan BY <1>4
    <3>2. /\ q.child = p.child /\ q.effects = p.effects /\ q.tried = p.tried /\ q.prev = p.prev
          /\ q.childStarted = p.childStarted /\ q.succ = p.succ /\ q.status = p.status
          /\ q.nodeDeleted = p.nodeDeleted
      BY <1>2 DEF Work!Plan
    <3>3. p.nodeStarted => q.nodeStarted BY <1>2 DEF Work!Plan
    <3> HIDE DEF q
    <3> QED BY <1>2, <3>1, <3>2, <3>3 DEF Follows, Flags
  <2> QED BY <2>1, <1>5
<1>8. Writable([p EXCEPT !.evidence = TRUE, !.fence.task = TRUE]) /\ Writable([p EXCEPT !.evidence = TRUE])
  <2> DEFINE q == [p EXCEPT !.evidence = TRUE, !.fence.task = TRUE]
  <2>1. Follows(p, q) /\ q.status = "running" /\ (q.nodeDeleted => q.nodeStarted) /\ q \in Work!Plan
    BY <1>2, <1>3 DEF Follows, Flags, Work!Plan, p
  <2>2. Writable(q) BY <2>1, <1>5
  <2> QED BY <2>2, <1>2, <1>5 DEF Follows, Flags, Work!Plan
<1>9. Writable([p EXCEPT !.effects = TRUE, !.drainStarted = TRUE])
  <2> DEFINE q == [p EXCEPT !.effects = TRUE, !.drainStarted = TRUE]
  <2>1. q \in Work!Plan /\ Follows(p, q) /\ q.status = "running" /\ (q.nodeDeleted => q.nodeStarted)
    BY <1>2 DEF Follows, Flags, Work!Plan
  <2> QED BY <2>1, <1>5
<1>10. Writable([p EXCEPT !.drained = TRUE])
  <2> DEFINE q == [p EXCEPT !.drained = TRUE]
  <2>1. q \in Work!Plan /\ Follows(p, q) /\ q.status = "running" /\ (q.nodeDeleted => q.nodeStarted)
    BY <1>2 DEF Follows, Flags, Work!Plan
  <2> QED BY <2>1, <1>5
<1>11. Writable([p EXCEPT !.childStarted = TRUE, !.effects = TRUE])
  <2> DEFINE q == [p EXCEPT !.childStarted = TRUE, !.effects = TRUE]
  <2>1. q \in Work!Plan /\ Follows(p, q) /\ q.status = "running" /\ (q.nodeDeleted => q.nodeStarted)
    BY <1>2 DEF Follows, Flags, Work!Plan
  <2> QED BY <2>1, <1>5
<1>12. Writable([p EXCEPT !.childDone = TRUE])
  <2> DEFINE q == [p EXCEPT !.childDone = TRUE]
  <2>1. q \in Work!Plan /\ Follows(p, q) /\ q.status = "running" /\ (q.nodeDeleted => q.nodeStarted)
    BY <1>2 DEF Follows, Flags, Work!Plan
  <2> QED BY <2>1, <1>5
<1>13. Writable([p EXCEPT !.effects = TRUE, !.tried = TRUE])
  <2> DEFINE q == [p EXCEPT !.effects = TRUE, !.tried = TRUE]
  <2>1. q \in Work!Plan /\ Follows(p, q) /\ q.status = "running" /\ (q.nodeDeleted => q.nodeStarted)
    BY <1>2 DEF Follows, Flags, Work!Plan
  <2> QED BY <2>1, <1>5
<1>14. p.nodeStarted => Writable([p EXCEPT !.nodeDeleted = TRUE])
  <2> HAVE p.nodeStarted
  <2> DEFINE q == [p EXCEPT !.nodeDeleted = TRUE]
  <2>1. q \in Work!Plan /\ Follows(p, q) /\ q.status = "running" /\ (q.nodeDeleted => q.nodeStarted)
    BY <1>2 DEF Follows, Flags, Work!Plan
  <2> QED BY <2>1, <1>5
<1> QED BY <1>6, <1>7, <1>8, <1>9, <1>10, <1>11, <1>12, <1>13, <1>14 DEF p

\* The checks of a fresh plan.
LEMMA CheckStep == WorkInv /\ Work!Check => WorkInv'
<1> SUFFICES ASSUME WorkInv, Work!Check PROVE WorkInv' OBVIOUS
<1>1. run # Work!Idle BY AtRuns DEF Work!Check, PCs
<1>2. CASE Work!GiveUp BY <1>1, <1>2, GiveUpStep DEF Work!Check
<1>3. CASE Work!Goto(IF run.p.mode = "reachable" THEN "drain" ELSE "fence", run.p) /\ UNCHANGED plans
  <2>1. PICK at \in {"drain", "fence"} : Work!Goto(at, run.p) BY <1>3
  <2>2. Place' BY <2>1, <1>1, Going DEF Place, PCs
  <2> QED BY <1>1, <1>3, <2>1, <2>2, LocalStep, RunFacts DEF Saved, Work!Check, Work!Local, PCs
<1> QED BY <1>2, <1>3 DEF Work!Check

\* The checks of a resumed plan.
LEMMA CheckResumeStep == WorkInv /\ Work!CheckResume => WorkInv'
<1> SUFFICES ASSUME WorkInv, NEW lost \in BOOLEAN,
                    LET v == IF run.p.tried THEN Work!Revalidated(run.p, lost)
                             ELSE [plan |-> run.p, ok |-> Work!VerifyOwned]
                    IN /\ Work!At("check") /\ run.p.resume
                       /\ plans' = IF run.p.tried /\ run.p.evidence
                                   THEN [plans EXCEPT ![run.id] = v.plan] ELSE plans
                       /\ Work!Goto(IF v.ok /\ run.p.childStarted THEN "adopt" ELSE "failed", v.plan)
                       /\ Work!Local
             PROVE  WorkInv'
  BY DEF Work!CheckResume
<1>1. run # Work!Idle BY AtRuns DEF PCs
<1> DEFINE v == IF run.p.tried THEN Work!Revalidated(run.p, lost)
                ELSE [plan |-> run.p, ok |-> Work!VerifyOwned]
<1>2. Writable(v.plan)
  <2>1. Writable(run.p) /\ run.p \in Work!Plan BY <1>1, RunFacts
  <2>2. run.p.tried => \E f \in Work!Evidence : v.plan = [run.p EXCEPT !.fence = f]
    BY <2>1, Revalidation
  <2> QED BY <1>1, <2>1, <2>2, Raising
<1>3. PICK at \in {"adopt", "failed"} : Work!Goto(at, v.plan) OBVIOUS
<1>4. Place' BY <1>1, <1>3, Going DEF Place, PCs
<1> QED BY <1>1, <1>2, <1>3, <1>4, LocalStep DEF Saved, Work!Local, PCs

\* The drain is announced.
LEMMA DrainBeginStep == WorkInv /\ Work!DrainBegin => WorkInv'
<1> SUFFICES ASSUME WorkInv, Work!DrainBegin PROVE WorkInv' OBVIOUS
<1>1. run # Work!Idle BY AtRuns DEF Work!DrainBegin, PCs
<1> DEFINE q == [run.p EXCEPT !.effects = TRUE, !.drainStarted = TRUE]
<1>2. Writable(q) BY <1>1, Raising
<1>3. Work!SaveThen(q, "draining") /\ Work!Local BY DEF Work!DrainBegin
<1> HIDE DEF q
<1>4. run'.pc = "draining" => Place' BY DEF Place
<1> QED BY <1>1, <1>2, <1>3, <1>4, SaveStep DEF PCs

\* The child plan is announced, once.
LEMMA ChildBeginStep == WorkInv /\ Work!ChildBegin => WorkInv'
<1> SUFFICES ASSUME WorkInv, Work!ChildBegin PROVE WorkInv' OBVIOUS
<1>1. run # Work!Idle BY AtRuns DEF Work!ChildBegin, PCs
<1> DEFINE q == [run.p EXCEPT !.childStarted = TRUE, !.effects = TRUE]
<1>2. q.child = run.p.child /\ q.childStarted /\ Writable(q) BY <1>1, RunFacts, Raising DEF Work!Plan
<1> HIDE DEF q
<1>3. CASE child[run.p.child] = "planned" /\ Work!SaveThen(q, "creating")
  <2>1. plans'[run.id] = q /\ run'.pc = "creating" /\ run'.p = q /\ run'.id = run.id => Place'
    BY <1>2, <1>3 DEF Place, Work!ChildBegin, Work!Local
  <2> QED BY <1>1, <1>2, <1>3, <2>1, SaveStep DEF Work!ChildBegin, PCs
<1>4. CASE Work!GiveUp BY <1>1, <1>4, GiveUpStep DEF Work!ChildBegin
<1> QED BY <1>3, <1>4 DEF Work!ChildBegin, q

\* A child that is done is not run again.
LEMMA ChildSkipStep == WorkInv /\ Work!ChildSkip => WorkInv'
<1> SUFFICES ASSUME WorkInv, Work!ChildSkip PROVE WorkInv' OBVIOUS
<1>1. run # Work!Idle BY AtRuns DEF Work!ChildSkip, PCs
<1>2. PICK at \in {"fence", "final"} : Work!Goto(at, run.p) BY DEF Work!ChildSkip, Work!AfterChild
<1>3. Place' BY <1>1, <1>2, Going DEF Place, PCs
<1> QED BY <1>1, <1>2, <1>3, LocalStep, RunFacts DEF Saved, Work!ChildSkip, Work!Local, PCs

\* The fence is announced, before anything was requested for this child.
LEMMA FenceBeginStep == WorkInv /\ Work!FenceBegin => WorkInv'
<1> SUFFICES ASSUME WorkInv, Work!FenceBegin PROVE WorkInv' OBVIOUS
<1>1. run # Work!Idle BY AtRuns DEF Work!FenceBegin, PCs
<1> DEFINE q == [run.p EXCEPT !.effects = TRUE, !.tried = TRUE]
<1>2. q.child = run.p.child /\ q.effects /\ q.tried /\ Writable(q) BY <1>1, RunFacts, Raising
   DEF Work!Plan
<1> HIDE DEF q
<1>3. CASE Work!ObservedWithin(run.p) /\ Work!SaveThen(q, "destroying")
  <2>1. destroys[run.p.child] = 0
    <3>1. Runs /\ ~run.p.tried /\ run.id \in Plans /\ run.p.child = plans[run.id].child
      BY <1>1, RunFacts DEF Work!FenceBegin
    <3>2. ~plans[run.id].tried BY <3>1 DEF Runs, Follows, Flags
    <3> QED BY <3>1, <3>2 DEF Runs, WorkInv, Records, Sound
  <2>2. plans'[run.id] = q /\ run'.pc = "destroying" /\ run'.p = q /\ run'.id = run.id => Place'
    BY <1>2, <1>3, <2>1
       DEF Place, Work!FenceBegin, Work!Local, Work!worldVars, Work!ObservedWithin, Work!Identified
  <2> QED BY <1>1, <1>2, <1>3, <2>2, SaveStep DEF Work!FenceBegin, PCs
<1>4. CASE Work!GiveUp BY <1>1, <1>4, GiveUpStep DEF Work!FenceBegin
<1> QED BY <1>3, <1>4 DEF Work!FenceBegin, q

\* A fence that was tried is looked at.
LEMMA FenceAgainStep == WorkInv /\ Work!FenceAgain => WorkInv'
<1> SUFFICES ASSUME WorkInv, NEW lost \in BOOLEAN,
                    LET v == Work!Revalidated(run.p, lost)
                    IN /\ Work!At("fence") /\ run.p.tried
                       /\ plans' = IF run.p.evidence THEN [plans EXCEPT ![run.id] = v.plan] ELSE plans
                       /\ Work!Goto(IF v.ok THEN "node" ELSE "failed", v.plan) /\ Work!Local
             PROVE  WorkInv'
  BY DEF Work!FenceAgain
<1>1. run # Work!Idle BY AtRuns DEF PCs
<1> DEFINE v == Work!Revalidated(run.p, lost)
<1>2. Writable(v.plan) /\ v.plan.tried
  <2>1. PICK f \in Work!Evidence : v.plan = [run.p EXCEPT !.fence = f]
    BY <1>1, RunFacts, Revalidation
  <2> QED BY <1>1, <2>1, Raising, RunFacts DEF Writable, Follows, Flags
<1>3. PICK at \in {"node", "failed"} : Work!Goto(at, v.plan) OBVIOUS
<1>4. Place' BY <1>1, <1>2, <1>3, Going DEF Place, PCs
<1> QED BY <1>1, <1>2, <1>3, <1>4, LocalStep DEF Saved, Work!Local, PCs

\* A fence without proof is saved and ends the run.
LEMMA FenceUnknownStep == WorkInv /\ Work!FenceUnknown => WorkInv'
<1> SUFFICES ASSUME WorkInv, Work!FenceUnknown PROVE WorkInv' OBVIOUS
<1>1. run # Work!Idle BY AtRuns DEF Work!FenceUnknown, PCs
<1>2. run'.pc = "failed" => Place' BY DEF Place
<1>3. Writable(run.p) /\ Work!SaveThen(run.p, "failed") /\ Work!Local
  BY <1>1, RunFacts DEF Work!FenceUnknown
<1> QED BY <1>1, <1>2, <1>3, SaveStep DEF PCs

\* The fence is proved.
LEMMA FenceProveStep == WorkInv /\ Work!FenceProve => WorkInv'
<1> SUFFICES ASSUME WorkInv, Work!FenceProve PROVE WorkInv' OBVIOUS
<1>1. run # Work!Idle /\ run.pc = "waiting" BY AtRuns DEF Work!FenceProve, Work!At, PCs
<1>2. run.p.tried /\ run.p \in Work!Plan /\ Writable(run.p) BY <1>1, RunFacts DEF Place
<1> DEFINE q == [run.p EXCEPT !.fence = Work!Proved(run.p.fence)]
<1>3. CASE Work!SaveThen(q, "node")
  <2>1. Work!Proved(run.p.fence) \in Work!Evidence
    BY <1>2, PlanFields DEF Work!Proved, Work!Evidence
  <2>2. Writable(q) /\ q.tried BY <1>1, <1>2, <2>1, Raising DEF Work!Plan
  <2> HIDE DEF q
  <2>3. run'.pc = "node" /\ run'.p = q => Place' BY <2>2 DEF Place
  <2> QED BY <1>1, <1>3, <2>2, <2>3, SaveStep DEF Work!FenceProve, PCs
<1>4. CASE Work!Goto("unfenced", run.p) /\ UNCHANGED plans
  <2>1. Place' BY <1>1, <1>2, <1>4, Going DEF Place, PCs
  <2> QED BY <1>1, <1>2, <1>4, <2>1, LocalStep DEF Saved, Work!FenceProve, Work!Local, PCs
<1> QED BY <1>3, <1>4 DEF Work!FenceProve

\* The same for a step that moves the world.
LEMMA WorldStep ==
    ASSUME WorkInv, run # Work!Idle, NEW at \in PCs, NEW q, Writable(q), Work!SaveThen(q, at),
           UNCHANGED successor, Onward, WorldTypes', Fenced',
           node' # "old" => node # "old" \/ NodeMarked',
           \A c \in Plans : Work!Allocated(c)' => Work!Allocated(c) \/ ChildMarked(c)',
           plans'[run.id] = q /\ run'.pc = at /\ run'.p = q /\ run'.id = run.id => Place'
    PROVE  WorkInv'
<1>1. CASE plans' = [plans EXCEPT ![run.id] = q] /\ Work!Goto(at, q)
  <2>1. plans'[run.id] = q BY <1>1, RunFacts
  <2>2. Place' BY <1>1, <2>1, Going
  <2> QED BY <1>1, <2>2, JobStep DEF Saved, Writable
<1>2. CASE UNCHANGED plans /\ Work!Goto("failed", q)
  <2>1. Place' BY <1>2, Stopping
  <2> QED BY <1>2, <2>1, JobStep DEF Saved, Writable, PCs
<1> QED BY <1>1, <1>2 DEF Work!SaveThen

\* The run stops after it moved the world.
LEMMA WorldStop ==
    ASSUME WorkInv, run # Work!Idle, Work!Goto("failed", run.p), UNCHANGED <<plans, successor>>,
                                                                             Onward,
           WorldTypes', Fenced', node' # "old" => node # "old" \/ NodeMarked',
           \A c \in Plans : Work!Allocated(c)' => Work!Allocated(c) \/ ChildMarked(c)'
    PROVE  WorkInv'
BY Stopping, JobStep, RunFacts DEF Saved, Writable, PCs

\* The deletion of the Node is announced, behind a fresh proof.
LEMMA NodeBeginStep == WorkInv /\ Work!NodeBegin => WorkInv'
<1> DEFINE v(lost) == Work!Revalidated(run.p, lost)
           q(lost) == [v(lost).plan EXCEPT !.nodeStarted = TRUE]
<1> SUFFICES ASSUME WorkInv, NEW lost \in BOOLEAN, Work!At("node"), ~run.p.nodeStarted,
                    \/ v(lost).ok /\ Work!SaveThen(q(lost), "deleting")
                    \/ ~v(lost).ok /\ Work!Goto("failed", v(lost).plan)
                       /\ plans' = [plans EXCEPT ![run.id] = v(lost).plan]
                    \/ Work!GiveUp,
                    Work!Local
             PROVE  WorkInv'
  BY DEF Work!NodeBegin
<1>1. run # Work!Idle /\ run.pc = "node" BY AtRuns DEF PCs, Work!At
<1>2. run.p \in Work!Plan /\ run.p.tried /\ ~run.p.nodeDeleted
  BY <1>1, RunFacts DEF Place, Writable
<1>3. PICK f \in Work!Evidence : v(lost).plan = [run.p EXCEPT !.fence = f]
  BY <1>2, Revalidation
<1>4. Writable(v(lost).plan) /\ Writable(q(lost))
  BY <1>1, <1>3, Raising
<1>5. v(lost).ok => task = "ok" /\ vm = "gone" BY <1>2, Revalidation
<1>6. q(lost).nodeStarted /\ q(lost).tried
  BY <1>2, <1>3 DEF Work!Plan
<1> HIDE DEF v, q
<1>7. CASE v(lost).ok /\ Work!SaveThen(q(lost), "deleting")
  <2>1. Held(q(lost).fence)' BY <1>5, <1>7 DEF Held, Work!Local, Work!worldVars
  <2>2. task' = "ok" /\ vm' = "gone" BY <1>5, <1>7 DEF Work!Local, Work!worldVars
  <2>3. plans'[run.id] = q(lost) /\ run'.pc = "deleting" /\ run'.p = q(lost) /\ run'.id = run.id => Place'
    BY <1>6, <2>2 DEF Place, Held
  <2> QED BY <1>1, <1>4, <1>7, <2>3, SaveStep DEF PCs
<1>8. CASE Work!Goto("failed", v(lost).plan) /\ plans' = [plans EXCEPT ![run.id] = v(lost).plan]
  BY <1>1, <1>4, <1>8, StopStep DEF Saved, Work!Local
<1>9. CASE Work!GiveUp BY <1>1, <1>9, GiveUpStep
<1> QED BY <1>7, <1>8, <1>9

\* A Node deletion that was started is checked.
LEMMA NodeAgainStep == WorkInv /\ Work!NodeAgain => WorkInv'
<1> SUFFICES ASSUME WorkInv, Work!NodeAgain PROVE WorkInv' OBVIOUS
<1>1. run # Work!Idle BY AtRuns DEF Work!NodeAgain, PCs
<1> DEFINE q == [run.p EXCEPT !.nodeDeleted = TRUE]
<1>2. Writable(q) BY <1>1, Raising DEF Work!NodeAgain
<1>3. PICK at \in {"create", "final"} : at = Work!NextStage(run.p) BY DEF Work!NextStage
<1>4. run'.pc = at => Place' BY <1>3 DEF Place
<1>5. CASE Work!SaveThen(q, Work!NextStage(run.p))
  <2> HIDE DEF q
  <2> QED BY <1>1, <1>2, <1>3, <1>4, <1>5, SaveStep DEF Work!NodeAgain, PCs
<1>6. CASE Work!Goto(Work!NextStage(run.p), run.p) /\ UNCHANGED plans
  BY <1>1, <1>3, <1>4, <1>6, Going, LocalStep, RunFacts DEF Saved, Work!NodeAgain, Work!Local, PCs
<1>7. CASE Work!GiveUp BY <1>1, <1>7, GiveUpStep DEF Work!NodeAgain
<1> QED BY <1>5, <1>6, <1>7 DEF Work!NodeAgain

\* The Node is gone.
LEMMA NodeProveStep == WorkInv /\ Work!NodeProve => WorkInv'
<1> SUFFICES ASSUME WorkInv, Work!NodeProve PROVE WorkInv' OBVIOUS
<1>1. run # Work!Idle /\ run.pc = "proving" BY AtRuns DEF Work!NodeProve, PCs, Work!At
<1> DEFINE q == [run.p EXCEPT !.nodeDeleted = TRUE]
<1>2. Writable(q) BY <1>1, Raising, RunFacts DEF Place
<1>3. PICK at \in {"create", "final"} : at = Work!NextStage(run.p) BY DEF Work!NextStage
<1>4. run'.pc = at => Place' BY <1>3 DEF Place
<1>5. CASE Work!SaveThen(q, Work!NextStage(run.p))
  <2> HIDE DEF q
  <2> QED BY <1>1, <1>2, <1>3, <1>4, <1>5, SaveStep DEF Work!NodeProve, PCs
<1>7. CASE Work!GiveUp BY <1>1, <1>7, GiveUpStep DEF Work!NodeProve
<1> QED BY <1>5, <1>7 DEF Work!NodeProve

\* The last revalidation.
LEMMA FinalStep == WorkInv /\ Work!Final => WorkInv'
<1> SUFFICES ASSUME WorkInv, NEW lost \in BOOLEAN,
                    LET v == Work!Revalidated(run.p, lost)
                    IN /\ Work!At("final")
                       /\ plans' = IF run.p.evidence THEN [plans EXCEPT ![run.id] = v.plan] ELSE plans
                       /\ Work!Goto(IF v.ok /\ node = "none" THEN "verify" ELSE "failed", v.plan) /\ Work!Local
             PROVE  WorkInv'
  BY DEF Work!Final
<1>1. run # Work!Idle BY AtRuns DEF PCs
<1> DEFINE v == Work!Revalidated(run.p, lost)
<1>2. Writable(v.plan)
  <2>1. PICK f \in Work!Evidence : v.plan = [run.p EXCEPT !.fence = f]
    BY <1>1, RunFacts, Revalidation
  <2> QED BY <1>1, <2>1, Raising
<1>3. PICK at \in {"verify", "failed"} : Work!Goto(at, v.plan) /\ (at = "verify" => node = "none") OBVIOUS
<1>4. Place' BY <1>1, <1>3, Going DEF Place, PCs, Work!Local, Work!worldVars
<1> QED BY <1>1, <1>2, <1>3, <1>4, LocalStep DEF Saved, Work!Local, PCs

\* The registry.
LEMMA FinalRecordStep == WorkInv /\ Work!FinalRecord => WorkInv'
<1> SUFFICES ASSUME WorkInv, Work!FinalRecord PROVE WorkInv' OBVIOUS
<1>1. run # Work!Idle /\ run.pc = "workloads" BY AtRuns DEF Work!FinalRecord, PCs, Work!At
<1>2. /\ Onward /\ WorldTypes' /\ Fenced' /\ Saved(run.p)
      /\ node' # "old" => node # "old" \/ NodeMarked'
      /\ \A c \in Plans : Work!Allocated(c)' => Work!Allocated(c) \/ ChildMarked(c)'
  BY <1>1, RunFacts DEF Work!FinalRecord, Work!worldVars, Onward, Forward, WorldTypes, Fenced,
     Saved, Work!Allocated
<1>3. PICK at \in {"done", "failed"} : Work!Goto(at, run.p) /\ (at = "done" => record' = "deleted")
  BY DEF Work!FinalRecord
<1>4. Place'
  BY <1>1, <1>3, Going, RunFacts DEF Place, PCs, Work!FinalRecord, Work!worldVars
<1> QED BY <1>1, <1>2, <1>3, <1>4, JobStep, RunFacts DEF Writable, PCs

\* The child is verified.
LEMMA VerifyChildStep ==
    ASSUME WorkInv, NEW from \in PCs, NEW to \in {"fence", "workloads"}, Work!VerifyChild(from, to),
           to = "workloads" => from = "verify"
    PROVE  WorkInv'
<1>1. run # Work!Idle /\ run.pc = from BY AtRuns DEF Work!VerifyChild, Work!At
<1>2. /\ run.p \in Work!Plan /\ run.p.child \in Plans /\ run.p.child = plans[run.id].child
      /\ WorldTypes /\ Fenced /\ Place
  BY <1>1, RunFacts
<1> DEFINE q == [run.p EXCEPT !.childDone = TRUE]
<1>3. Writable(q) /\ q.child = run.p.child BY <1>1, <1>2, Raising DEF Work!Plan
<1> HIDE DEF q
<1>4. CASE /\ Work!ChildAdoptable(run.p) /\ child' = [child EXCEPT ![run.p.child] = "ready"]
           /\ Work!SaveThen(q, to)
  <2>1. child'[run.p.child] = "ready" /\ \A c \in Plans \ {run.p.child} : child'[c] = child[c]
    BY <1>2, <1>4 DEF WorldTypes
  <2>2. child[run.p.child] \in {"configured", "ready"} BY <1>4 DEF Work!ChildAdoptable
  <2>3. Onward /\ Fenced' /\ (node' # "old" => node # "old" \/ NodeMarked')
    BY <1>2, <2>1, <2>2 DEF Work!VerifyChild, Work!worldVars, Onward, Forward, Fenced
  <2>4. WorldTypes'
    BY <1>2, <1>4 DEF Work!VerifyChild, Work!worldVars, WorldTypes
  <2>5. \A c \in Plans : Work!Allocated(c)' => Work!Allocated(c)
    BY <2>1, <2>2 DEF Work!Allocated
  <2>6. run'.pc = to /\ run'.p = q => Place'
    BY <1>1, <1>2, <1>3, <2>1 DEF Place, Work!VerifyChild, Work!worldVars, PCs
  <2> QED BY <1>1, <1>3, <1>4, <2>3, <2>4, <2>5, <2>6, WorldStep DEF Work!VerifyChild, PCs
<1>5. CASE Work!Goto("failed", run.p) /\ UNCHANGED <<plans, child>>
  <2>1. /\ Onward /\ WorldTypes' /\ Fenced'
        /\ node' # "old" => node # "old" \/ NodeMarked'
        /\ \A c \in Plans : Work!Allocated(c)' => Work!Allocated(c) \/ ChildMarked(c)'
    BY <1>2, <1>5 DEF Work!VerifyChild, Work!worldVars, Onward, Forward, WorldTypes, Fenced,
       Work!Allocated
  <2> QED BY <1>1, <1>5, <2>1, WorldStop DEF Work!VerifyChild
<1> QED BY <1>4, <1>5 DEF Work!VerifyChild, Work!GiveUp, q

\* The drain.
LEMMA DrainStep == WorkInv /\ Work!Drain => WorkInv'
<1> SUFFICES ASSUME WorkInv, Work!Drain PROVE WorkInv' OBVIOUS
<1>1. run # Work!Idle /\ run.pc = "draining" BY AtRuns DEF Work!Drain, PCs, Work!At
<1>2. /\ Onward /\ WorldTypes' /\ Fenced' /\ UNCHANGED successor
      /\ node' # "old" => node # "old" \/ NodeMarked'
      /\ \A c \in Plans : Work!Allocated(c)' => Work!Allocated(c) \/ ChildMarked(c)'
  BY <1>1, RunFacts DEF Work!Drain, Work!GiveUp, Onward, Forward, WorldTypes, Fenced, Work!Allocated
<1> DEFINE q == [run.p EXCEPT !.drained = TRUE]
<1>3. Writable(q) BY <1>1, Raising
<1> HIDE DEF q
<1>4. CASE Work!SaveThen(q, "create")
  <2>1. run'.pc = "create" => Place' BY DEF Place
  <2> QED BY <1>1, <1>2, <1>3, <1>4, <2>1, WorldStep DEF PCs
<1>5. CASE Work!Goto("failed", run.p) /\ UNCHANGED plans
  BY <1>1, <1>2, <1>5, WorldStop
<1> QED BY <1>4, <1>5 DEF Work!Drain, Work!GiveUp, q

\* The child's own run.
LEMMA ChildRunStep == WorkInv /\ Work!ChildRun => WorkInv'
<1> SUFFICES ASSUME WorkInv, Work!ChildRun PROVE WorkInv' OBVIOUS
<1>1. run # Work!Idle /\ run.pc = "creating" BY AtRuns DEF Work!ChildRun, PCs, Work!At
<1>2. /\ run.p \in Work!Plan /\ run.p.child \in Plans /\ run.p.child = plans[run.id].child /\ run.id \in Plans
      /\ WorldTypes /\ Fenced /\ plans[run.id].childStarted /\ child[run.p.child] = "planned" /\ Runs
  BY <1>1, RunFacts DEF Place
<1> DEFINE q == [run.p EXCEPT !.childDone = TRUE]
<1>3. Writable(q) BY <1>1, Raising
<1>4. q.child = run.p.child /\ q.childStarted
  BY <1>2 DEF Work!Plan, Runs, Follows, Flags
<1> HIDE DEF q
<1>5. PICK s \in {"created", "configured", "ready"} : child' = [child EXCEPT ![run.p.child] = s]
  BY DEF Work!ChildRun
<1>6. child'[run.p.child] = s /\ \A c \in Plans \ {run.p.child} : child'[c] = child[c]
  BY <1>2, <1>5 DEF WorldTypes
<1>7. Onward /\ Fenced' /\ (node' # "old" => node # "old" \/ NodeMarked')
  BY <1>2, <1>6 DEF Work!ChildRun, Onward, Forward, Fenced
<1>8. WorldTypes'
  <2>1. reused' \in Plans \cup {0} BY <1>2 DEF Work!ChildRun, WorldTypes
  <2>2. child' \in [Plans -> {"none", "planned", "created", "configured", "ready"}]
    BY <1>2, <1>5 DEF WorldTypes
  <2> QED BY <1>2, <2>1, <2>2 DEF Work!ChildRun, WorldTypes
<1>9. CASE Work!SaveThen(q, Work!AfterChild(run.p))
  <2>1. PICK at \in {"fence", "final"} : at = Work!AfterChild(run.p) BY DEF Work!AfterChild
  <2>2. run'.pc = at => Place' BY <2>1 DEF Place
  <2>3. \A c \in Plans : Work!Allocated(c)' => Work!Allocated(c) \/ ChildMarked(c)'
    <3>1. PICK i \in Plans : i = run.id BY <1>2
    <3>2. plans'[i].childStarted /\ plans'[i].child = run.p.child /\ Work!Exists(i)'
      BY <1>2, <1>3, <1>4, <1>9, <3>1, NoPlanFact
         DEF Work!SaveThen, WorkInv, WorkShapes, Runs, Work!Exists, Writable
    <3> QED BY <1>6, <3>2 DEF Work!Allocated, ChildMarked
  <2> QED BY <1>1, <1>3, <1>7, <1>8, <1>9, <2>1, <2>2, <2>3, WorldStep DEF Work!ChildRun, PCs
<1>10. CASE Work!Goto("failed", run.p) /\ UNCHANGED plans
  <2>1. \A c \in Plans : Work!Allocated(c)' => Work!Allocated(c) \/ ChildMarked(c)'
    BY <1>2, <1>6, <1>10 DEF Work!Allocated, ChildMarked, Runs, Work!Exists
  <2> QED BY <1>1, <1>7, <1>8, <1>10, <2>1, WorldStop DEF Work!ChildRun
<1> QED BY <1>9, <1>10 DEF Work!ChildRun, q

\* The Node is deleted while the evidence is fresh.
LEMMA NodeDeleteStep == WorkInv /\ Work!NodeDelete => WorkInv'
<1> SUFFICES ASSUME WorkInv, Work!NodeDelete PROVE WorkInv' OBVIOUS
<1>1. run # Work!Idle /\ run.pc = "deleting" BY AtRuns DEF Work!NodeDelete, PCs, Work!At
<1>2. /\ run.p \in Work!Plan /\ run.id \in Plans /\ WorldTypes /\ Fenced /\ Runs /\ Writable(run.p)
      /\ plans[run.id].nodeStarted /\ plans[run.id].tried /\ Held(run.p.fence) /\ run.p.tried /\ run.p.nodeStarted
  BY <1>1, RunFacts DEF Place
<1>3. UNCHANGED plans BY DEF Work!NodeDelete, Work!GiveUp
<1>4. NodeMarked' BY <1>2, <1>3 DEF NodeMarked, Runs, Work!Exists
<1>5. Onward /\ Fenced'
  BY <1>2 DEF Work!NodeDelete, Onward, Forward, Fenced, Held, Work!Identified
<1>6. WorldTypes' BY <1>2 DEF Work!NodeDelete, WorldTypes
<1>7. \A c \in Plans : Work!Allocated(c)' => Work!Allocated(c) BY DEF Work!NodeDelete, Work!Allocated
<1>8. PICK at \in {"proving", "failed"} : Work!Goto(at, run.p) BY DEF Work!NodeDelete, Work!GiveUp
<1>9. Place' BY <1>1, <1>2, <1>8, Going DEF Place, PCs
<1> QED BY <1>1, <1>2, <1>3, <1>4, <1>5, <1>6, <1>7, <1>8, <1>9, JobStep
    DEF Saved, Writable, PCs, Work!NodeDelete

\* The deletion request: no other record of this child can still act, and this one says tried.
LEMMA DestroyStep == WorkInv /\ Work!Destroy => WorkInv'
<1> SUFFICES ASSUME WorkInv, Work!Destroy PROVE WorkInv' OBVIOUS
<1>1. run # Work!Idle /\ run.pc = "destroying" BY AtRuns DEF Work!Destroy, PCs, Work!At
<1>2. /\ run.p \in Work!Plan /\ run.p.child \in Plans /\ run.p.child = plans[run.id].child /\ run.id \in Plans
      /\ WorldTypes /\ Fenced /\ Runs /\ Place
      /\ plans[run.id].tried /\ plans[run.id].effects /\ destroys[run.p.child] = 0 /\ node = "old" /\ run.p.tried
  BY <1>1, RunFacts DEF Place
<1>3. PICK r \in Plans, c \in Plans : r = run.id /\ c = run.p.child BY <1>2
<1> DEFINE q1 == [run.p EXCEPT !.evidence = TRUE, !.fence.task = TRUE]
           q2 == [run.p EXCEPT !.evidence = TRUE]
<1>4. /\ Writable(q1) /\ Writable(q2) /\ q1 \in Work!Plan /\ q2 \in Work!Plan
      /\ q1.tried /\ q2.tried /\ q1.child = c /\ q2.child = c
  <2>1. Writable(q1) /\ Writable(q2) BY <1>1, Raising
  <2> HIDE DEF q1, q2
  <2> QED BY <2>1, <1>2, <1>3 DEF Writable, Follows, Flags
<1> HIDE DEF q1, q2
<1>5. PICK q \in {q1, q2}, at \in {"waiting", "unfenced"} : Work!Goto(at, q)
  BY DEF Work!Destroy, q1, q2
<1>6. run'.pc = at /\ run'.p = q /\ run'.id = r /\ q \in Work!Plan /\ q.child = c
  BY <1>1, <1>3, <1>4, <1>5, Going DEF PCs
<1>7. run' \in [pc : PCs, id : Plans, p : Work!Plan]
  BY <1>1, <1>4, <1>5, RunFacts DEF Work!Goto, PCs
<1>8. destroys' \in [Plans -> Nat] /\ destroys'[c] \in {0, 1} /\ \A d \in Plans \ {c} : destroys'[d] = destroys[d]
  BY <1>2, <1>3 DEF Work!Destroy, WorldTypes
<1>9. UNCHANGED <<plans, successor, child, queued, ran, reused, back, node, ready, impact, record,
                  overlooked>>
  BY DEF Work!Destroy
<1>10. WorldTypes' /\ Fenced' /\ Forward
  BY <1>2, <1>8, <1>9 DEF Work!Destroy, WorldTypes, Fenced, Forward
<1>11. WorkShapes' BY <1>7, <1>9, <1>10 DEF WorkInv, WorkShapes
<1>12. \A j \in Plans : Work!Exists(j) /\ destroys'[plans[j].child] # destroys[plans[j].child] =>
          ~Waiting(j) /\ (plans[j].status # "superseded" => plans[j].tried)
  <2> TAKE j \in Plans
  <2> HAVE Work!Exists(j) /\ destroys'[plans[j].child] # destroys[plans[j].child]
  <2>1. plans[j].child = c BY <1>8, PlanFields DEF WorkInv, WorkShapes, Work!Exists
  <2>2. Head(r) /\ plans[r].child = c /\ plans[r].tried /\ ~Waiting(r)
    BY <1>2, <1>3 DEF Head, Runs, WorkInv, Records, Sound, Waiting
  <2>3. Head(j) => j = r BY <2>1, <2>2 DEF WorkInv, OneHead
  <2>4. Waiting(j) => Head(j) BY DEF Head
  <2>5. plans[j].status # "superseded" => Head(j) BY DEF Head
  <2> QED BY <2>2, <2>3, <2>4, <2>5
<1>13. /\ \A j \in Plans : Work!Exists(j)' <=> Work!Exists(j)
       /\ \A j \in Plans : Work!Exists(j) => Alike(plans[j], plans'[j])
       /\ \A j \in Plans : successor[j] \in Work!Plan =>
               successor'[j] \in Work!Plan /\ Alike(successor[j], successor'[j])
  BY <1>9 DEF Work!Exists, Alike, Flags
<1>14. Ledger' /\ \A j \in Plans : Work!Exists(j) => Work!Exists(j)' /\ Flags(plans[j], plans'[j])
  BY <1>2, <1>10, <1>11, <1>12, <1>13, Unmoved DEF WorkInv, Ledger
<1>15. Work!EffectsAreRecorded'
  <2>1. Marked(c)' BY <1>2, <1>3, <1>9 DEF Marked, Runs, Work!Exists
  <2>2. \A d \in Plans : destroys'[d] > 0 => destroys[d] > 0 \/ Marked(d)' BY <2>1, <1>8
  <2>3. node' # "old" => node # "old" BY <1>9
  <2>4. \A d \in Plans : Work!Allocated(d)' => Work!Allocated(d) BY <1>9 DEF Work!Allocated
  <2> QED BY <1>14, <2>2, <2>3, <2>4, Recorded DEF WorkInv
<1>16. Work!DestroyedOnce' BY <1>8 DEF WorkInv, Work!DestroyedOnce
<1>17. Running'
  <2>1. Runs'
    BY <1>2, <1>3, <1>4, <1>5, <1>6, <1>9 DEF Runs, Work!Exists, Writable, Follows, Flags
  <2>2. Place' BY <1>4, <1>5, <1>6, <1>9 DEF Place
  <2> QED BY <2>1, <2>2 DEF Running
<1> QED BY <1>10, <1>11, <1>14, <1>15, <1>16, <1>17 DEF WorkInv, Ledger, Numbered

\* The run starts.
LEMMA RunStartStep == WorkInv /\ Work!RunStart => WorkInv'
<1> SUFFICES ASSUME WorkInv, Work!RunStart PROVE WorkInv' OBVIOUS
<1> USE DEF Work!RunStart
<1>1. WorldTypes' /\ Onward /\ Fenced'
  BY DEF WorkInv, WorkShapes, WorldTypes, Work!Local, Work!worldVars, Onward, Forward, Fenced
<1>2. UNCHANGED <<node, destroys, child, successor>> BY DEF Work!worldVars
<1>3. CASE UNCHANGED <<plans, run>>
  <2>1. run = Work!Idle OBVIOUS
  <2>3. WorkShapes' BY <1>1, <1>2, <1>3 DEF WorkInv, WorkShapes
  <2>4. Ledger' /\ \A j \in Plans : Work!Exists(j) => Work!Exists(j)' /\ Flags(plans[j], plans'[j])
    BY <1>1, <1>2, <1>3, <2>3, Same DEF Onward
  <2>5. Work!EffectsAreRecorded'
    BY <1>2, <2>4, Recorded DEF WorkInv, Work!Allocated
  <2> QED BY <1>1, <1>2, <1>3, <2>1, <2>3, <2>4, <2>5
          DEF WorkInv, Ledger, Running, Numbered, Work!DestroyedOnce
<1>4. ASSUME NEW i \in queued, plans[i].status = "planned",
             plans' = [plans EXCEPT ![i] = [plans[i] EXCEPT !.status = "running"]],
             run' = [pc |-> "check", id |-> i, p |-> [plans[i] EXCEPT !.status = "running"]]
      PROVE  WorkInv'
  <2> DEFINE q == [plans[i] EXCEPT !.status = "running"]
  <2>1. i \in Plans /\ Work!Exists(i) /\ plans[i] \in Work!Plan
    BY <1>4 DEF WorkInv, WorkShapes, WorldTypes, Work!Exists, Work!NoPlan
  <2>2. /\ q \in Work!Plan /\ q.status = "running" /\ Follows(plans[i], q)
        /\ q.nodeDeleted = plans[i].nodeDeleted /\ q.nodeStarted = plans[i].nodeStarted
    BY <2>1 DEF Work!Plan, Follows, Flags
  <2>3. q.nodeDeleted => q.nodeStarted BY <2>1, <2>2 DEF WorkInv, Records, Sound
  <2> HIDE DEF q
  <2>4. Rewritten(i, q) BY <1>2, <1>4, <2>2 DEF Rewritten, q
  <2>5. q.status = "succeeded" => /\ task' = "ok" /\ node' # "old" /\ record' = "deleted"
                                  /\ child'[q.child] = "ready"
    BY <2>2
  <2>6. plans[i].status # "superseded" BY <1>4
  <2>7. /\ Ledger' /\ plans'[i] = q
        /\ \A j \in Plans : Work!Exists(j)' <=> Work!Exists(j)
        /\ \A j \in Plans \ {i} : plans'[j] = plans[j]
    BY <1>1, <2>1, <2>2, <2>3, <2>4, <2>5, <2>6, Rewrite DEF WorkInv, Ledger
  <2>8. Work!EffectsAreRecorded'
    <3>1. \A j \in Plans : Work!Exists(j) => Work!Exists(j)' /\ Flags(plans[j], plans'[j])
      BY <2>2, <2>7 DEF Follows, Flags
    <3> QED BY <1>2, <3>1, Recorded DEF WorkInv, Work!Allocated
  <2>9. run'.pc = "check" /\ run'.id = i /\ run'.p = q BY <1>4 DEF q
  <2>10. Running'
    <3>1. Runs' BY <2>1, <2>2, <2>3, <2>7, <2>9 DEF Runs, Follows, Flags, Work!Exists
    <3>2. Place' BY <2>9 DEF Place
    <3> QED BY <3>1, <3>2 DEF Running
  <2>11. WorkShapes'
    BY <1>1, <1>2, <1>4, <2>1, <2>2 DEF WorkInv, WorkShapes, PCs, q
  <2> QED BY <1>1, <1>2, <2>7, <2>8, <2>10, <2>11 DEF WorkInv, Ledger, Numbered, Work!DestroyedOnce
<1> QED BY <1>3, <1>4

\* The run ends; a success was proved step by step.
LEMMA RunEndStep == WorkInv /\ Work!RunEnd => WorkInv'
<1> SUFFICES ASSUME WorkInv, Work!RunEnd PROVE WorkInv' OBVIOUS
<1> DEFINE q == [run.p EXCEPT !.status = IF Work!At("done") THEN "succeeded" ELSE "requires_review"]
<1>1. run # Work!Idle /\ run.pc \in {"done", "failed"} BY DEF Work!RunEnd, Work!Idle
<1>2. /\ run.p \in Work!Plan /\ run.id \in Plans /\ Runs /\ Place /\ WorldTypes /\ Fenced
      /\ run.p.nodeDeleted => run.p.nodeStarted
  BY <1>1, RunFacts DEF Runs
<1>3. /\ q \in Work!Plan /\ q.status \in {"succeeded", "requires_review"} /\ q.child = run.p.child
      /\ Follows(plans[run.id], q) /\ (q.nodeDeleted => q.nodeStarted)
      /\ q.status = "succeeded" => run.pc = "done"
  BY <1>2 DEF Work!Plan, Runs, Follows, Flags, Work!At
<1>4. run' = Work!Idle /\ (UNCHANGED plans \/ plans' = [plans EXCEPT ![run.id] = q])
      /\ UNCHANGED <<successor, child, queued, ran, vm, task, destroys, reused, back, node, ready,
                     impact, record, overlooked>>
  BY DEF Work!RunEnd, Work!Local, Work!worldVars
<1> HIDE DEF q
<1>5. WorldTypes' /\ Onward /\ Fenced' BY <1>2, <1>4 DEF WorldTypes, Onward, Forward, Fenced
<1>6. WorkShapes' BY <1>2, <1>3, <1>4, <1>5 DEF WorkInv, WorkShapes
<1>7. Ledger' /\ \A j \in Plans : Work!Exists(j) => Work!Exists(j)' /\ Flags(plans[j], plans'[j])
  <2>1. CASE UNCHANGED plans
    BY <1>4, <1>5, <1>6, <2>1, Same DEF Onward
  <2>2. CASE plans' = [plans EXCEPT ![run.id] = q]
    <3>1. PICK i \in Plans : i = run.id BY <1>2
    <3>2. Rewritten(i, q) /\ Work!Exists(i) /\ plans[i].status # "superseded" /\ Follows(plans[i], q)
      BY <1>2, <1>3, <1>4, <2>2, <3>1 DEF Rewritten, Runs
    <3>3. q.status = "succeeded" => /\ task' = "ok" /\ node' # "old" /\ record' = "deleted"
                                    /\ child'[q.child] = "ready"
      BY <1>2, <1>3, <1>4 DEF Place, Fenced
    <3>4. /\ Ledger' /\ plans'[i] = q
          /\ \A j \in Plans : Work!Exists(j)' <=> Work!Exists(j)
          /\ \A j \in Plans \ {i} : plans'[j] = plans[j]
      BY <1>2, <1>3, <1>5, <3>2, <3>3, Rewrite DEF WorkInv, Ledger
    <3> QED BY <3>2, <3>4 DEF Follows, Flags
  <2> QED BY <1>4, <2>1, <2>2
<1>8. Work!EffectsAreRecorded'
  BY <1>4, <1>7, Recorded DEF WorkInv, Work!Allocated
<1> QED BY <1>4, <1>5, <1>6, <1>7, <1>8 DEF WorkInv, Ledger, Running, Numbered, Work!DestroyedOnce

-----------------------------------------------------------------------------
(* The world, the clock and the crash. *)

\* A step of the world that leaves the records, the children and the run alone.
LEMMA EnvironmentStep ==
    ASSUME WorkInv,
           UNCHANGED <<plans, successor, child, queued, run, destroys, record, overlooked>>,
           WorldTypes', Fenced',
           node' # "old" <=> node # "old", node # "old" => task' = task,
           task = "ok" /\ (vm = "gone" \/ back = "recent")
               => task' = "ok" /\ (vm' = "gone" \/ back' = "recent")
    PROVE  WorkInv'
<1>1. WorkShapes' BY DEF WorkInv, WorkShapes
<1>2. Forward BY DEF Forward
<1>3. Ledger' /\ \A j \in Plans : Work!Exists(j) => Work!Exists(j)' /\ Flags(plans[j], plans'[j])
  BY <1>1, <1>2, Same
<1>4. Work!EffectsAreRecorded' BY <1>3, Recorded DEF WorkInv, Work!Allocated
<1>5. Running'
  BY DEF WorkInv, Running, Runs, Place, Held, Work!Exists, Follows, Flags
<1> QED BY <1>1, <1>3, <1>4, <1>5 DEF WorkInv, Ledger, Numbered, Work!DestroyedOnce

\* The task, the VM, the Node and the impact.
LEMMA WorldMoves ==
    WorkInv /\ (Work!TaskEnds \/ Work!RestoreVM \/ Work!Register \/ Work!NodeFails \/ Work!RiskAppears) => WorkInv'
<1> USE DEF WorkInv, WorkShapes, WorldTypes, Fenced
<1>1. WorkInv /\ Work!TaskEnds => WorkInv' BY EnvironmentStep DEF Work!TaskEnds
<1>2. WorkInv /\ Work!RestoreVM => WorkInv' BY EnvironmentStep DEF Work!RestoreVM
<1>3. WorkInv /\ Work!Register => WorkInv' BY EnvironmentStep DEF Work!Register
<1>4. WorkInv /\ Work!NodeFails => WorkInv' BY EnvironmentStep DEF Work!NodeFails
<1>5. WorkInv /\ Work!RiskAppears => WorkInv' BY EnvironmentStep DEF Work!RiskAppears
<1> QED BY <1>1, <1>2, <1>3, <1>4, <1>5

\* A piece of evidence that stops being fresh.
Aged(p) == [p EXCEPT !.fence.fresh = FALSE]

\* Ageing changes nothing else.
LEMMA Ageing ==
    ASSUME NEW p \in Work!Plan
    PROVE  Aged(p) \in Work!Plan /\ Alike(p, Aged(p)) /\ Aged(p).fence.fresh = FALSE
BY DEF Aged, Work!Plan, Work!Evidence, Alike, Flags

\* Every piece of evidence ages.
LEMMA FenceAgesStep == WorkInv /\ Work!FenceAges => WorkInv'
<1> SUFFICES ASSUME WorkInv, Work!FenceAges PROVE WorkInv' OBVIOUS
<1>1. UNCHANGED <<child, queued, ran, vm, task, destroys, reused, node, ready, impact, record,
                  overlooked>>
      /\ back' \in {"no", "recent", "old"}
  BY DEF Work!FenceAges, WorkInv, WorkShapes, WorldTypes
<1>2. \A j \in Plans : plans'[j] = IF Work!Exists(j) THEN Aged(plans[j]) ELSE Work!NoPlan
  BY DEF Work!FenceAges, Aged
<1>3. \A j \in Plans : successor'[j] = IF successor[j] # Work!NoPlan THEN Aged(successor[j]) ELSE Work!NoPlan
  BY DEF Work!FenceAges, Aged
<1>4. run # Work!Idle => run' = [run EXCEPT !.p = Aged(run.p)]
  BY DEF Work!FenceAges, Aged, WorkInv, WorkShapes
<1>5. run = Work!Idle => run' = Work!Idle BY DEF Work!FenceAges
<1>6. \A j \in Plans : Work!Exists(j) => plans[j] \in Work!Plan BY
   DEF WorkInv, WorkShapes, Work!Exists
<1>7. \A j \in Plans : successor[j] # Work!NoPlan => successor[j] \in Work!Plan BY
   DEF WorkInv, WorkShapes
<1>8. plans' \in [Plans -> Work!Plan \cup {Work!NoPlan}] /\ successor' \in [Plans -> Work!Plan \cup {Work!NoPlan}]
  <2>1. DOMAIN plans' = Plans /\ DOMAIN successor' = Plans
        /\ plans' = [j \in Plans |-> plans'[j]] /\ successor' = [j \in Plans |-> successor'[j]]
    BY DEF Work!FenceAges
  <2>2. \A j \in Plans : plans'[j] \in Work!Plan \cup {Work!NoPlan} BY <1>2, <1>6, Ageing
  <2>3. \A j \in Plans : successor'[j] \in Work!Plan \cup {Work!NoPlan} BY <1>3, <1>7, Ageing
  <2> QED BY <2>1, <2>2, <2>3
<1>9. WorldTypes' /\ Fenced' /\ Forward
  BY <1>1 DEF WorkInv, WorkShapes, WorldTypes, Fenced, Forward
<1>10. run # Work!Idle => /\ run \in [pc : PCs, id : Plans, p : Work!Plan]
                          /\ run' \in [pc : PCs, id : Plans, p : Work!Plan]
                          /\ run'.pc = run.pc /\ run'.id = run.id /\ run'.p = Aged(run.p) /\ run.p \in Work!Plan
  <2> HAVE run # Work!Idle
  <2>1. run \in [pc : PCs, id : Plans, p : Work!Plan] /\ run.p \in Work!Plan BY RunFacts
  <2>2. Aged(run.p) \in Work!Plan BY <2>1, Ageing
  <2> QED BY <1>4, <2>1, <2>2
<1>11. WorkShapes'
  <2>1. run' \in {Work!Idle} \cup [pc : PCs, id : Plans, p : Work!Plan] BY <1>5, <1>10
  <2> QED BY <1>8, <1>9, <2>1 DEF WorkShapes
<1>12. /\ \A j \in Plans : Work!Exists(j)' <=> Work!Exists(j)
       /\ \A j \in Plans : Work!Exists(j) => Alike(plans[j], plans'[j])
  BY <1>2, <1>6, Ageing, NoPlanFact DEF Work!Exists
<1>13. \A j \in Plans : successor[j] \in Work!Plan =>
               successor'[j] \in Work!Plan /\ Alike(successor[j], successor'[j])
  BY <1>3, Ageing, NoPlanFact
<1>14. Ledger' /\ \A j \in Plans : Work!Exists(j) => Work!Exists(j)' /\ Flags(plans[j], plans'[j])
  BY <1>1, <1>9, <1>11, <1>12, <1>13, Unmoved DEF WorkInv, Ledger
<1>15. Work!EffectsAreRecorded' BY <1>1, <1>14, Recorded DEF WorkInv, Work!Allocated
<1>16. run # Work!Idle => Runs' /\ Place'
  <2> HAVE run # Work!Idle
  <2>1. /\ run'.pc = run.pc /\ run'.id = run.id /\ run'.p = Aged(run.p) /\ run.p \in Work!Plan
        /\ Runs /\ Place /\ run.id \in Plans
    BY <1>10, RunFacts
  <2>2. Alike(run.p, run'.p) /\ ~run'.p.fence.fresh BY <2>1, Ageing
  <2>3. Alike(plans[run.id], plans'[run.id]) /\ Work!Exists(run.id) /\ plans'[run.id] # Work!NoPlan
    BY <2>1, <1>12, <1>14 DEF Runs, Work!Exists
  <2>4. Runs' BY <2>1, <2>2, <2>3 DEF Runs, Work!Exists, Follows, Flags, Alike
  <2>5. Place' BY <1>1, <2>1, <2>2, <2>3 DEF Place, Held, Alike, Flags
  <2> QED BY <2>4, <2>5
<1> QED BY <1>1, <1>5, <1>9, <1>11, <1>14, <1>15, <1>16
        DEF WorkInv, Ledger, Running, Numbered, Work!DestroyedOnce

\* One record changes, of a plan that no run executes, and nothing in the world.
LEMMA RecordStep ==
    ASSUME WorkInv, NEW i \in Plans, NEW q, Work!Exists(i), plans[i].status # "superseded",
           Rewritten(i, q), Follows(plans[i], q), q.nodeDeleted => q.nodeStarted,
           q.status # "succeeded", run = Work!Idle \/ run.id # i,
           UNCHANGED <<child, run, Work!worldVars, record, overlooked>>, queued' \subseteq Plans
    PROVE  WorkInv'
<1>1. WorldTypes' /\ Onward /\ Fenced'
  BY DEF WorkInv, WorkShapes, WorldTypes, Work!worldVars, Onward, Forward, Fenced
<1>2. UNCHANGED <<node, vm, task, back, destroys, child, successor>> /\ q \in Work!Plan
  BY DEF Work!worldVars, Rewritten
<1>3. q.status = "succeeded" => /\ task' = "ok" /\ node' # "old" /\ record' = "deleted"
                                /\ child'[q.child] = "ready"
  OBVIOUS
<1>4. /\ Ledger' /\ plans'[i] = q
      /\ \A j \in Plans : Work!Exists(j)' <=> Work!Exists(j)
      /\ \A j \in Plans \ {i} : plans'[j] = plans[j]
  BY <1>1, <1>3, Rewrite DEF WorkInv, Ledger
<1>5. Work!EffectsAreRecorded'
  <2>1. \A j \in Plans : Work!Exists(j) => Work!Exists(j)' /\ Flags(plans[j], plans'[j])
    BY <1>4 DEF Follows, Flags
  <2> QED BY <1>2, <2>1, Recorded DEF WorkInv, Work!Allocated
<1>6. WorkShapes' BY <1>1, <1>2 DEF WorkInv, WorkShapes, Rewritten
<1>7. Running'
  <2> SUFFICES ASSUME run # Work!Idle PROVE Runs' /\ Place' BY DEF Running
  <2>1. run.id \in Plans /\ plans'[run.id] = plans[run.id] /\ Runs /\ Place BY <1>4, RunFacts
  <2> QED BY <1>2, <2>1 DEF Runs, Place, Held, Work!Exists, Follows, Flags
<1> QED BY <1>1, <1>2, <1>4, <1>5, <1>6, <1>7 DEF WorkInv, Ledger, Numbered, Work!DestroyedOnce

\* A plan expires.
LEMMA PlanExpiresStep == ASSUME WorkInv, NEW i \in Plans, Work!PlanExpires(i) PROVE WorkInv'
<1> DEFINE q == [plans[i] EXCEPT !.expired = TRUE]
<1>1. Work!Exists(i) /\ plans[i].status = "planned" /\ plans[i] \in Work!Plan
  BY DEF Work!PlanExpires, WorkInv, WorkShapes, Work!Exists
<1>2. /\ q \in Work!Plan /\ q.status = "planned" /\ Follows(plans[i], q)
      /\ q.nodeDeleted = plans[i].nodeDeleted /\ q.nodeStarted = plans[i].nodeStarted
  BY <1>1 DEF Work!Plan, Follows, Flags
<1>3. q.nodeDeleted => q.nodeStarted BY <1>1, <1>2 DEF WorkInv, Records, Sound
<1>4. run = Work!Idle \/ run.id # i BY <1>1, RunFacts DEF Runs
<1>5. plans' = [plans EXCEPT ![i] = q] BY DEF Work!PlanExpires
<1> HIDE DEF q
<1>6. UNCHANGED <<child, run, Work!worldVars, record, overlooked, successor, queued>> BY
   DEF Work!PlanExpires
<1>7. queued' \subseteq Plans BY <1>6 DEF WorkInv, WorkShapes, WorldTypes
<1> QED BY <1>1, <1>2, <1>3, <1>4, <1>5, <1>6, <1>7, RecordStep DEF Rewritten

\* A plan is approved.
LEMMA ApproveStep == ASSUME WorkInv, NEW i \in Plans, Work!ApproveReplacement(i) PROVE WorkInv'
<1> DEFINE q == [plans[i] EXCEPT !.approved = TRUE]
<1>1. Work!Exists(i) /\ plans[i].status = "planned" /\ plans[i] \in Work!Plan
  BY DEF Work!ApproveReplacement, WorkInv, WorkShapes, Work!Exists
<1>2. /\ q \in Work!Plan /\ q.status = "planned" /\ Follows(plans[i], q)
      /\ q.nodeDeleted = plans[i].nodeDeleted /\ q.nodeStarted = plans[i].nodeStarted
  BY <1>1 DEF Work!Plan, Follows, Flags
<1>3. q.nodeDeleted => q.nodeStarted BY <1>1, <1>2 DEF WorkInv, Records, Sound
<1>4. run = Work!Idle \/ run.id # i BY <1>1, RunFacts DEF Runs
<1>5. plans' = [plans EXCEPT ![i] = q] BY DEF Work!ApproveReplacement
<1> HIDE DEF q
<1>6. UNCHANGED <<child, run, Work!worldVars, record, overlooked,
                  successor>> /\ queued' \in {queued, {i}}
  BY DEF Work!ApproveReplacement
<1>7. queued' \subseteq Plans BY <1>6 DEF WorkInv, WorkShapes, WorldTypes
<1> QED BY <1>1, <1>2, <1>3, <1>4, <1>5, <1>6, <1>7, RecordStep DEF Rewritten

\* A crash forgets the run.
LEMMA CrashStep == WorkInv /\ Work!Crash => WorkInv'
<1> SUFFICES ASSUME WorkInv, Work!Crash PROVE WorkInv' OBVIOUS
<1>1. UNCHANGED <<plans, successor, child, vm, task, destroys, reused, back, node, ready, impact,
                  record, overlooked>>
      /\ run' = Work!Idle /\ queued' = {}
  BY DEF Work!Crash, Work!worldVars
<1>2. WorldTypes' /\ Fenced' /\ Forward
  BY <1>1 DEF WorkInv, WorkShapes, WorldTypes, Fenced, Forward
<1>3. WorkShapes' BY <1>1, <1>2 DEF WorkInv, WorkShapes
<1>4. Ledger' /\ \A j \in Plans : Work!Exists(j) => Work!Exists(j)' /\ Flags(plans[j], plans'[j])
  BY <1>1, <1>2, <1>3, Same
<1>5. Work!EffectsAreRecorded' BY <1>1, <1>4, Recorded DEF WorkInv, Work!Allocated
<1> QED BY <1>1, <1>2, <1>3, <1>4, <1>5 DEF WorkInv, Ledger, Running, Numbered, Work!DestroyedOnce

\* A new record is a continuation: the head of its child moves to it.  n = 0: it waits in its
\* predecessor's record.
LEMMA Continuation ==
    ASSUME Numbered, WorkShapes, Ledger, NEW i \in Plans, NEW n \in Plans, NEW old, NEW q,
           Work!Exists(i), ~Work!Exists(n), Head(i), old \in Work!Plan, q \in Work!Plan,
           \A j \in Plans \ {i} : Work!Exists(j) => plans[j].succ # n,
           old.status = "superseded", old.succ = n, old.child = plans[i].child, old.prev = plans[i].prev,
           old.nodeDeleted => old.nodeStarted, old.childStarted, plans[i].childStarted,
           q.status = "planned", q.prev = i, q.succ = 0, q.child = plans[i].child, q.childStarted,
           q.nodeDeleted => q.nodeStarted, ~q.tried => destroys[q.child] = 0,
           plans' \in {[plans EXCEPT ![i] = old], [plans EXCEPT ![i] = old, ![n] = q]},
           ~Work!Exists(n)' => successor'[i] = q,
           \A j \in Plans \ {i} : successor'[j] = successor[j],
           UNCHANGED <<child, destroys, overlooked, task, node, record>>
    PROVE  Ledger'
<1> DEFINE There == plans'[n] = q
<1>1. /\ i # n /\ plans'[i] = old /\ \A j \in Plans \ {i, n} : plans'[j] = plans[j]
      /\ There \/ plans'[n] = plans[n]
  BY DEF WorkShapes
<1>2. old # Work!NoPlan /\ q # Work!NoPlan BY NoPlanFact
<1>3. /\ \A j \in Plans \ {n} : Work!Exists(j)' <=> Work!Exists(j)
      /\ Work!Exists(n)' <=> There
  BY <1>1, <1>2 DEF Work!Exists
<1>4. \A j \in Plans : Work!Exists(j) => plans[j] \in Work!Plan /\ plans[j].child \in Plans
                       /\ plans[j].succ \in Plans \cup {0} /\ plans[j].prev \in Plans \cup {0}
  BY PlanFields DEF WorkShapes, Work!Exists
<1> HIDE DEF There
<1>5. \A j \in Plans \ {i, n} : Work!Exists(j) =>
          (Waiting(j)' <=> Waiting(j)) /\ (Head(j)' <=> Head(j)) /\ (Gone(j)' <=> Gone(j))
  BY <1>1, <1>3, <1>4 DEF Waiting, Head, Gone
<1>6. /\ ~Gone(i) /\ ~Gone(i)' /\ (Waiting(i)' <=> ~There) /\ (Head(i)' <=> ~There)
      /\ There => Head(n)' /\ ~Gone(n)' /\ ~Waiting(n)' /\ plans'[n] = q
      /\ ~There => ~Head(n)'
  <2>1. ~Gone(i) BY DEF Head, Gone, Waiting
  <2> QED BY <2>1, <1>1, <1>2, <1>3 DEF Waiting, Head, Gone, There, Numbered
<1>7. \A j \in Plans : Work!Exists(j)' /\ j # n => Work!Exists(j) /\ plans'[j].child = plans[j].child
  BY <1>1, <1>3
<1>8. OneHead'
  <2> SUFFICES ASSUME NEW j \in Plans, NEW k \in Plans, Head(j)', Head(k)', plans'[j].child = plans'[k].child
               PROVE  j = k
    BY DEF OneHead
  <2>1. Work!Exists(j)' /\ Work!Exists(k)' BY DEF Head
  <2>2. \A m \in Plans \ {i, n} : Head(m)' => plans'[m].child # plans[i].child
    BY <1>1, <1>3, <1>5 DEF OneHead, Ledger, Head
  <2>3. CASE j \in {i, n} \/ k \in {i, n} BY <2>2, <2>3, <1>1, <1>3, <1>6, <2>1
  <2>4. CASE j \notin {i, n} /\ k \notin {i, n}
    BY <2>1, <2>4, <1>1, <1>3, <1>5 DEF OneHead, Ledger
  <2> QED BY <2>3, <2>4
<1>9. Succession'
  BY <1>1, <1>3, <1>6 DEF Succession, Ledger, Work!Exists
<1>10. Continued'
  <2> SUFFICES ASSUME NEW k \in Plans, Work!Exists(k)', plans'[k].status = "superseded", plans'[k].succ # 0
               PROVE  \E h \in Plans : Head(h)' /\ plans'[h].child = plans'[k].child
                                       /\ plans'[h].childStarted
    BY DEF Continued
  <2>1. \E h \in {i, n} : Head(h)' /\ plans'[h].child = plans[i].child /\ plans'[h].childStarted
    BY <1>1, <1>6
  <2>2. k # n BY <1>3, <1>6
  <2>3. CASE k = i BY <2>1, <2>3, <1>1
  <2>4. CASE k # i
    <3>1. PICK h \in Plans : Head(h) /\ plans[h].child = plans[k].child /\ plans[h].childStarted
      BY <1>1, <1>3, <2>2, <2>4 DEF Continued, Ledger
    <3>2. CASE h = i BY <3>1, <3>2, <2>1, <2>2, <2>4, <1>1
    <3>3. CASE h # i
      <4>1. h # n BY <3>1 DEF Head
      <4> QED BY <3>1, <3>3, <4>1, <1>1, <1>5, <2>2, <2>4 DEF Head
    <3> QED BY <3>2, <3>3
  <2> QED BY <2>3, <2>4
<1>11. OneLine'
  <2> SUFFICES ASSUME ~overlooked, NEW j \in Plans, NEW k \in Plans, Work!Exists(j)', Work!Exists(k)',
                      plans'[j].child # plans'[k].child
               PROVE  Gone(j)' \/ Gone(k)'
    BY DEF OneLine
  <2>1. \A m \in Plans : Work!Exists(m) /\ plans[m].child # plans[i].child => Gone(m)
    BY <1>6 DEF OneLine, Ledger
  <2>2. \A m \in {i, n} : Work!Exists(m)' => plans'[m].child = plans[i].child BY <1>1, <1>3, <1>6
  <2>3. CASE j \in {i, n} BY <2>1, <2>2, <2>3, <1>1, <1>3, <1>5
  <2>4. CASE k \in {i, n} BY <2>1, <2>2, <2>4, <1>1, <1>3, <1>5
  <2>5. CASE j \notin {i, n} /\ k \notin {i, n} BY <2>5, <1>1, <1>3, <1>5 DEF OneLine, Ledger
  <2> QED BY <2>3, <2>4, <2>5
<1>12. Records'
  <2> SUFFICES ASSUME NEW j \in Plans, Work!Exists(j)'
               PROVE  Sound(j)' /\ (Waiting(j)' => Kept(j)')
    BY DEF Records
  <2>1. /\ Sound(i) /\ plans[i] \in Work!Plan /\ plans[i].child \in Plans
        /\ child[plans[i].child] # "none"
    BY <1>4 DEF Records, Ledger, Sound
  <2>2. CASE j = i
    <3>1. plans[i].prev # 0 => plans'[plans[i].prev].status = "superseded" /\ plans'[plans[i].prev].succ = i
      <4> HAVE plans[i].prev # 0
      <4>1. /\ plans[plans[i].prev].status = "superseded" /\ plans[plans[i].prev].succ = i
            /\ plans[i].prev \in Plans
        BY <2>1, <1>4 DEF Sound
      <4>2. Work!Exists(plans[i].prev) BY <4>1 DEF Work!Exists, Work!NoPlan
      <4>3. CASE plans[i].prev = i
        <5>1. plans[i].status = "superseded" /\ plans[i].succ = i BY <4>1, <4>3
        <5> QED BY <5>1 DEF Head, Waiting
      <4>4. CASE plans[i].prev # i
        <5>1. plans[i].prev # n BY <4>2
        <5> QED BY <4>1, <4>4, <5>1, <1>1
      <4> QED BY <4>3, <4>4
    <3>2. Sound(j)' BY <2>1, <2>2, <3>1, <1>1, <1>6 DEF Sound
    <3>3. Waiting(j)' => Kept(j)' BY <2>1, <2>2, <1>1, <1>3, <1>6 DEF Kept
    <3> QED BY <3>2, <3>3
  <2>3. CASE j = n
    <3>1. Sound(j)' BY <2>1, <2>3, <1>1, <1>3, <1>6 DEF Sound
    <3> QED BY <3>1, <2>3, <1>3, <1>6
  <2>4. CASE j \notin {i, n}
    <3>1. Work!Exists(j) /\ plans'[j] = plans[j] /\ Sound(j) /\ (Waiting(j) => Kept(j))
      BY <2>4, <1>1, <1>3 DEF Records, Ledger
    <3>2. plans[j].prev # 0 => plans'[plans[j].prev].status = "superseded" /\ plans'[plans[j].prev].succ = j
      <4> HAVE plans[j].prev # 0
      <4>1. /\ plans[plans[j].prev].status = "superseded" /\ plans[plans[j].prev].succ = j
            /\ plans[j].prev \in Plans
        BY <3>1, <1>4 DEF Sound
      <4>2. Work!Exists(plans[j].prev) BY <4>1 DEF Work!Exists, Work!NoPlan
      <4>3. plans[j].prev # i
        <5>1. SUFFICES ASSUME plans[j].prev = i PROVE FALSE OBVIOUS
        <5>2. plans[i].status = "superseded" /\ plans[i].succ = j BY <4>1, <5>1
        <5> QED BY <5>2, <3>1 DEF Head, Waiting
      <4>4. plans[j].prev # n BY <4>2
      <4> QED BY <4>1, <4>3, <4>4, <1>1
    <3>3. Sound(j)' BY <3>1, <3>2, <1>1, <1>5, <2>4 DEF Sound
    <3>4. Waiting(j)' => Kept(j)' BY <3>1, <1>1, <1>5, <2>4 DEF Kept
    <3> QED BY <3>3, <3>4
  <2> QED BY <2>2, <2>3, <2>4
<1> QED BY <1>8, <1>9, <1>10, <1>11, <1>12 DEF Ledger

\* The rest of the invariant, when a plan that no run executes is continued.
LEMMA ContinuedStep ==
    ASSUME WorkInv, NEW i \in Plans, NEW n \in Plans, NEW old, NEW q, i # n,
           Work!Exists(i), ~Work!Exists(n), old \in Work!Plan, q \in Work!Plan, Flags(plans[i], old),
           plans' \in {[plans EXCEPT ![i] = old], [plans EXCEPT ![i] = old, ![n] = q]},
           successor' \in {successor, [successor EXCEPT ![i] = q]},
           Ledger', run = Work!Idle \/ run.id # i,
           UNCHANGED <<child, queued, run, Work!worldVars, record, overlooked>>
    PROVE  WorkInv'
<1>1. WorldTypes' /\ Fenced'
  BY DEF WorkInv, WorkShapes, WorldTypes, Work!worldVars, Fenced
<1>2. UNCHANGED <<node, vm, task, back, destroys, child>> BY DEF Work!worldVars
<1>3. WorkShapes' BY <1>1 DEF WorkInv, WorkShapes
<1>4. plans'[i] = old /\ \A j \in Plans \ {i, n} : plans'[j] = plans[j]
  BY DEF WorkInv, WorkShapes
<1>5. \A j \in Plans : Work!Exists(j) => Work!Exists(j)' /\ Flags(plans[j], plans'[j])
  BY <1>4, NoPlanFact DEF Work!Exists, Flags
<1>6. Work!EffectsAreRecorded' BY <1>2, <1>5, Recorded DEF WorkInv, Work!Allocated
<1>7. Running'
  <2> SUFFICES ASSUME run # Work!Idle PROVE Runs' /\ Place' BY DEF Running
  <2>1. run.id \in Plans /\ Runs /\ Place BY RunFacts
  <2>2. plans'[run.id] = plans[run.id] BY <1>4, <2>1 DEF Runs, Work!Exists
  <2> QED BY <1>2, <2>1, <2>2 DEF Runs, Place, Held, Work!Exists, Follows, Flags
<1> QED BY <1>1, <1>2, <1>3, <1>6, <1>7 DEF WorkInv, Ledger, Numbered, Work!DestroyedOnce

\* The waiting continuation is published.
LEMMA ReconstructStep == ASSUME WorkInv, NEW i \in Plans, Work!ReconstructSuccessor(i) PROVE WorkInv'
<1> DEFINE n == plans[i].succ  q == successor[i]
<1>1. /\ Work!Exists(i) /\ plans[i].status = "superseded" /\ n # 0 /\ ~Work!Exists(n)
      /\ plans' = [plans EXCEPT ![n] = q] /\ Waiting(i) /\ Head(i)
  BY DEF Work!ReconstructSuccessor, Waiting, Head
<1>2. plans[i] \in Work!Plan /\ n \in Plans
  BY <1>1, PlanFields DEF WorkInv, WorkShapes, Work!Exists
<1>3. Sound(i) /\ Kept(i) BY <1>1 DEF WorkInv, Records
<1>4. PICK m \in Plans : m = n BY <1>2
<1> HIDE DEF n, q
<1>5. i # m BY <1>1, <1>4
<1>6. plans' = [plans EXCEPT ![i] = plans[i], ![m] = q]
  BY <1>1, <1>2, <1>4 DEF WorkInv, WorkShapes
<1>7. \A j \in Plans \ {i} : Work!Exists(j) => plans[j].succ # m
  BY <1>1, <1>4 DEF WorkInv, Succession, n
<1>8. ~(~Work!Exists(m)')
  BY <1>1, <1>2, <1>3, <1>4, NoPlanFact DEF WorkInv, WorkShapes, Work!Exists, Kept, q
<1>9. UNCHANGED <<successor, child, queued, run, Work!worldVars, record, overlooked, destroys,
                  task, node>>
  BY DEF Work!ReconstructSuccessor, Work!worldVars
<1>10. /\ q \in Work!Plan /\ q.status = "planned" /\ q.prev = i /\ q.succ = 0
       /\ q.child = plans[i].child /\ q.childStarted /\ plans[i].childStarted
       /\ q.nodeDeleted => q.nodeStarted
       /\ ~q.tried => destroys[q.child] = 0
  BY <1>3 DEF Kept, q
<1>11. plans[i].nodeDeleted => plans[i].nodeStarted BY <1>3 DEF Sound
<1>12. Ledger'
  BY <1>1, <1>2, <1>4, <1>5, <1>6, <1>7, <1>8, <1>9, <1>10, <1>11, Continuation DEF WorkInv, Ledger, n
<1>13. run = Work!Idle \/ run.id # i BY <1>1, RunFacts DEF Runs
<1>14. Flags(plans[i], plans[i]) BY DEF Flags
<1> QED BY <1>1, <1>2, <1>4, <1>5, <1>6, <1>9, <1>10, <1>12, <1>13, <1>14, ContinuedStep

\* What a continuation starts from.
Afresh(w, i, d, m) ==
    [w EXCEPT !.status = "planned", !.prev = i, !.succ = 0, !.resume = TRUE,
              !.approved = FALSE, !.expired = FALSE, !.nodeDeleted = d, !.impact = m]

\* Its fields.
LEMMA Resumed ==
    ASSUME NEW w \in Work!Plan, NEW i \in Plans, NEW d \in BOOLEAN, NEW m \in 0..2
    PROVE  /\ Afresh(w, i, d, m) \in Work!Plan
           /\ Afresh(w, i, d, m).status = "planned" /\ Afresh(w, i, d, m).prev = i
           /\ Afresh(w, i, d, m).succ = 0 /\ Afresh(w, i, d, m).child = w.child
           /\ Afresh(w, i, d, m).childStarted = w.childStarted /\ Afresh(w, i, d, m).tried = w.tried
           /\ Afresh(w, i, d, m).nodeDeleted = d /\ Afresh(w, i, d, m).nodeStarted = w.nodeStarted
<1> DEFINE Q1 == [w EXCEPT !.status = "planned", !.prev = i, !.succ = 0, !.resume = TRUE]
           Q2 == [Q1 EXCEPT !.approved = FALSE, !.expired = FALSE]
           Q3 == [Q2 EXCEPT !.nodeDeleted = d, !.impact = m]
<1>1. /\ Q1 \in Work!Plan /\ Q1.status = "planned" /\ Q1.prev = i /\ Q1.succ = 0 /\ Q1.child = w.child
      /\ Q1.childStarted = w.childStarted /\ Q1.tried = w.tried /\ Q1.nodeStarted = w.nodeStarted
  BY DEF Work!Plan
<1> HIDE DEF Q1
<1>8. Q1 \in Work!Plan BY <1>1
<1>2. Q2 \in Work!Plan BY <1>8 DEF Work!Plan
<1>7. Q2.status = Q1.status /\ Q2.prev = Q1.prev /\ Q2.succ = Q1.succ
  BY <1>1 DEF Work!Plan
<1>5. /\ Q2.child = Q1.child /\ Q2.childStarted = Q1.childStarted /\ Q2.tried = Q1.tried
      /\ Q2.nodeStarted = Q1.nodeStarted
  BY <1>1 DEF Work!Plan
<1> HIDE DEF Q2
<1>3. Q3 \in Work!Plan /\ Q3.nodeDeleted = d
  BY <1>2 DEF Work!Plan
<1>4. /\ Q3.status = Q2.status /\ Q3.prev = Q2.prev /\ Q3.succ = Q2.succ
      /\ Q3.child = Q2.child /\ Q3.childStarted = Q2.childStarted /\ Q3.tried = Q2.tried
      /\ Q3.nodeStarted = Q2.nodeStarted
  BY <1>2 DEF Work!Plan
<1>6. Afresh(w, i, d, m) = Q3 BY DEF Afresh, Q1, Q2
<1> HIDE DEF Q3
<1> QED BY <1>1, <1>2, <1>3, <1>4, <1>5, <1>6, <1>7

\* An interrupted plan is continued.
LEMMA ResumeStep ==
    ASSUME WorkInv, NEW i \in Plans, NEW n \in Plans, Work!PlanReplacementResume(i, n)
    PROVE  WorkInv'
<1> DEFINE p == plans[i]
           v(lost) == IF p.tried THEN Work!Revalidated(p, lost) ELSE [plan |-> p, ok |-> TRUE]
           q(lost) == [v(lost).plan EXCEPT !.status = "planned", !.prev = i, !.succ = 0, !.resume = TRUE,
                                !.approved = FALSE, !.expired = FALSE,
                                !.nodeDeleted = v(lost).plan.nodeDeleted \/ p.nodeStarted,
                                !.impact = IF p.nodeStarted THEN v(lost).plan.impact ELSE impact]
           old(lost) == [v(lost).plan EXCEPT !.status = "superseded", !.succ = n]
<1>1. PICK lost \in BOOLEAN :
          /\ Work!Exists(i) /\ Work!Resumable(i) /\ n \in Work!Unused
          /\ \/ /\ successor' = [successor EXCEPT ![i] = q(lost)]
                /\ \/ plans' = [plans EXCEPT ![i] = old(lost), ![n] = q(lost)]
                   \/ plans' = [plans EXCEPT ![i] = old(lost)]
             \/ plans' = [plans EXCEPT ![i] = v(lost).plan] /\ UNCHANGED successor
          /\ UNCHANGED <<child, queued, ran, run, Work!worldVars, record, overlooked>>
  BY DEF Work!PlanReplacementResume
<1>2. /\ p \in Work!Plan /\ p.child \in Plans /\ p.status \in {"requires_review", "running"} /\ p.childStarted
      /\ Sound(i) /\ Head(i) /\ impact \in 0..2 /\ ~Work!Exists(n) /\ i # n
      /\ run = Work!Idle \/ run.id # i
      /\ \A j \in Plans \ {i} : Work!Exists(j) => plans[j].succ # n
  <2>1. p \in Work!Plan BY <1>1 DEF WorkInv, WorkShapes, Work!Exists
  <2> QED BY <1>1, <2>1, PlanFields
          DEF Work!Resumable, Work!Unused, Work!Active, WorkInv, WorkShapes, WorldTypes, Records, Head
<1>3. PICK f \in Work!Evidence : v(lost).plan = [p EXCEPT !.fence = f]
  <2>1. p.fence \in Work!Evidence /\ p = [p EXCEPT !.fence = p.fence]
    BY <1>2, PlanFields DEF Work!Plan
  <2> QED BY <1>2, <2>1, Revalidation
<1> DEFINE w == v(lost).plan  Q == q(lost)  Old == old(lost)
<1>4. /\ w \in Work!Plan /\ w.status = p.status /\ Follows(p, w) /\ w.child = p.child /\ w.childStarted
      /\ w.nodeDeleted = p.nodeDeleted /\ w.nodeStarted = p.nodeStarted /\ w.tried = p.tried
  <2>1. [p EXCEPT !.fence = f] \in Work!Plan BY <1>2 DEF Work!Plan
  <2> HIDE DEF v
  <2> QED BY <1>2, <1>3, <2>1 DEF Follows, Flags, Work!Plan
<1> HIDE DEF v
<1>5. /\ Old \in Work!Plan /\ Old.status = "superseded" /\ Old.succ = n /\ Old.child = p.child
      /\ Old.prev = p.prev /\ Flags(p, Old) /\ Old.childStarted
      /\ Old.nodeDeleted = p.nodeDeleted /\ Old.nodeStarted = p.nodeStarted
  <2>1. Old \in Work!Plan BY <1>4 DEF Work!Plan
  <2> QED BY <1>4, <2>1 DEF Work!Plan, Follows, Flags
<1>6. /\ Q \in Work!Plan /\ Q.status = "planned" /\ Q.prev = i /\ Q.succ = 0 /\ Q.child = p.child
      /\ Q.childStarted /\ Q.tried = p.tried /\ (Q.nodeDeleted => Q.nodeStarted)
  <2>1. p.nodeStarted \in BOOLEAN /\ p.nodeDeleted \in BOOLEAN /\ (p.nodeDeleted => p.nodeStarted)
        /\ w.impact \in 0..2
    BY <1>2, <1>4, PlanFields DEF Sound
  <2>2. PICK d \in BOOLEAN, m \in 0..2 :
            /\ d = (w.nodeDeleted \/ p.nodeStarted)
            /\ m = IF p.nodeStarted THEN w.impact ELSE impact
    BY <1>2, <1>4, <2>1
  <2> HIDE DEF w
  <2>3. Q = Afresh(w, i, d, m)
    BY <2>2 DEF w, Afresh
  <2> HIDE DEF q, Q
  <2>4. /\ Q \in Work!Plan /\ Q.status = "planned" /\ Q.prev = i /\ Q.succ = 0
        /\ Q.child = w.child /\ Q.childStarted = w.childStarted /\ Q.tried = w.tried
        /\ Q.nodeDeleted = d /\ Q.nodeStarted = w.nodeStarted
    <3>1. w \in Work!Plan BY <1>4
    <3>2. d \in BOOLEAN /\ m \in 0..2 /\ i \in Plans OBVIOUS
    <3>3. /\ Afresh(w, i, d, m) \in Work!Plan
          /\ Afresh(w, i, d, m).status = "planned" /\ Afresh(w, i, d, m).prev = i
          /\ Afresh(w, i, d, m).succ = 0 /\ Afresh(w, i, d, m).child = w.child
          /\ Afresh(w, i, d, m).childStarted = w.childStarted /\ Afresh(w, i, d, m).tried = w.tried
          /\ Afresh(w, i, d, m).nodeDeleted = d /\ Afresh(w, i, d, m).nodeStarted = w.nodeStarted
      BY <3>1, <3>2, Resumed, Z3
    <3> QED BY <3>3, <2>3
  <2> QED BY <1>4, <2>1, <2>2, <2>4
<1> HIDE DEF q, old
<1>7. CASE plans' = [plans EXCEPT ![i] = w] /\ UNCHANGED successor
  <2>1. queued' \subseteq Plans BY <1>1 DEF WorkInv, WorkShapes, WorldTypes
  <2>2. Rewritten(i, w) /\ (w.nodeDeleted => w.nodeStarted) /\ w.status # "succeeded"
    BY <1>2, <1>4, <1>7 DEF Rewritten, Sound
  <2>3. UNCHANGED <<child, run, Work!worldVars, record, overlooked>> BY <1>1
  <2> QED BY <1>1, <1>2, <1>4, <2>1, <2>2, <2>3, RecordStep
<1>8. CASE /\ successor' = [successor EXCEPT ![i] = Q]
           /\ plans' \in {[plans EXCEPT ![i] = Old], [plans EXCEPT ![i] = Old, ![n] = Q]}
  <2>1. successor'[i] = Q /\ \A j \in Plans \ {i} : successor'[j] = successor[j]
    BY <1>8 DEF WorkInv, WorkShapes
  <2>2. UNCHANGED <<child, destroys, overlooked, task, node, record>> BY <1>1 DEF Work!worldVars
  <2>3. ~Q.tried => destroys[Q.child] = 0 BY <1>2, <1>6 DEF Sound
  <2>4. Old.nodeDeleted => Old.nodeStarted BY <1>2, <1>5 DEF Sound
  <2>5. Ledger'
    BY <1>1, <1>2, <1>5, <1>6, <1>8, <2>1, <2>2, <2>3, <2>4, Continuation DEF WorkInv, Ledger
  <2>6. UNCHANGED <<child, queued, run, Work!worldVars, record, overlooked>> BY <1>1
  <2> QED BY <1>1, <1>2, <1>5, <1>6, <1>8, <2>5, <2>6, ContinuedStep
<1> QED BY <1>1, <1>7, <1>8 DEF q, old

\* The plans a new plan supersedes have started nothing, and no plan of the worker is left that
\* could act but through an unpublished continuation.
LEMMA Superseding ==
    ASSUME WorkInv, NEW i \in Plans, NEW mode, Work!PlanReplacement(i, mode)
    PROVE  /\ run = Work!Idle
           /\ \A j \in Plans : Work!Unresolved(j) =>
                  /\ ~Started(plans[j]) /\ plans[j].status \in {"planned", "requires_review"}
           /\ \A j \in Plans : Work!Exists(j) /\ ~Work!Unresolved(j) => plans[j].status = "superseded"
<1>1. \A j \in Plans : Work!Unresolved(j) => Work!Supersedable(j)
  BY DEF Work!PlanReplacement
<1>2. \A j \in Plans : Work!Unresolved(j) =>
          ~Started(plans[j]) /\ plans[j].status \in {"planned", "requires_review"}
  BY <1>1 DEF Work!Supersedable, Started
<1>3. run = Work!Idle
  <2> SUFFICES ASSUME run # Work!Idle PROVE FALSE OBVIOUS
  <2>1. run.id \in Plans /\ Work!Exists(run.id) /\ plans[run.id].status = "running" BY RunFacts
     DEF Runs
  <2>2. Work!Unresolved(run.id) BY <2>1 DEF Work!Unresolved
  <2> QED BY <1>2, <2>1, <2>2
<1>4. record # "deleted" BY DEF Work!PlanReplacement
<1>5. \A j \in Plans : Work!Exists(j) /\ ~Work!Unresolved(j) => plans[j].status = "superseded"
  BY <1>4 DEF Work!Unresolved, WorkInv, Records, Sound
<1> QED BY <1>2, <1>3, <1>5

\* A plan that has started nothing, superseded.
Withdrawn(p) == [p EXCEPT !.status = "superseded"]

\* Its fields.
LEMMA Withdrawing ==
    ASSUME NEW p \in Work!Plan
    PROVE  /\ Withdrawn(p) \in Work!Plan /\ Withdrawn(p).status = "superseded" /\ Follows(p, Withdrawn(p))
           /\ Withdrawn(p).nodeDeleted = p.nodeDeleted /\ Withdrawn(p).nodeStarted = p.nodeStarted
           /\ Withdrawn(p).effects = p.effects /\ Withdrawn(p).tried = p.tried
           /\ Withdrawn(p).childStarted = p.childStarted /\ Withdrawn(p).drainStarted = p.drainStarted
BY DEF Withdrawn, Work!Plan, Follows, Flags

\* A new plan.
LEMMA PlanReplacementStep ==
    ASSUME WorkInv, NEW i \in Plans, NEW mode \in {"reachable", "dead"}, Work!PlanReplacement(i, mode)
    PROVE  WorkInv'
<1> DEFINE prior(j) == Work!Unresolved(j)
           kept == [j \in Plans |-> IF prior(j) THEN Withdrawn(plans[j]) ELSE plans[j]]
           new == Work!NewPlan(i, mode)
           Made == plans'[i] = new
<1>1. /\ run = Work!Idle
      /\ \A j \in Plans : prior(j) => ~Started(plans[j]) /\ plans[j].status \in {"planned", "requires_review"}
      /\ \A j \in Plans : Work!Exists(j) /\ ~prior(j) => plans[j].status = "superseded"
  BY Superseding
<1>2. /\ ~Work!Exists(i) /\ child[i] = "none" /\ \A j \in Plans : Work!Exists(j) => plans[j].succ # i
  BY DEF Work!PlanReplacement, Work!Unused
<1>3. /\ \/ /\ plans' = [kept EXCEPT ![i] = new]
            /\ child' = [child EXCEPT ![i] = "planned"]
            /\ overlooked' = (overlooked \/ \E j \in Plans : Work!Pending(j))
         \/ plans' = kept /\ UNCHANGED <<child, overlooked>>
      /\ UNCHANGED <<successor, queued, ran, run, Work!worldVars, record>>
  <2> HIDE DEF new
  <2>1. kept = [j \in Plans |-> IF j \in {k \in Plans : Work!Unresolved(k)}
                               THEN [plans[j] EXCEPT !.status = "superseded"] ELSE plans[j]]
    BY DEF Withdrawn
  <2> HIDE DEF kept
  <2> QED BY <2>1 DEF Work!PlanReplacement, new
<1>4. UNCHANGED <<successor, queued, ran, run, vm, task, destroys, reused, back, node, ready,
                  impact, record>>
  BY <1>3 DEF Work!worldVars
<1>5. new \in Work!Plan
  <2>1. impact \in 0..2 BY DEF WorkInv, WorkShapes, WorldTypes
  <2> QED BY <2>1 DEF Work!NewPlan, Work!Plan, Work!Evidence, Work!NoFence
<1>6. /\ new.status = "planned" /\ new.prev = 0 /\ new.succ = 0 /\ new.child = i
      /\ ~new.nodeDeleted /\ ~new.tried
  BY DEF Work!NewPlan
<1>7. \A j \in Plans : Work!Exists(j) =>
          /\ plans[j] \in Work!Plan /\ plans[j].child \in Plans /\ plans[j].child # i
          /\ plans[j].succ \in Plans \cup {0} /\ plans[j].prev \in Plans \cup {0} /\ Sound(j)
  BY <1>2, PlanFields DEF WorkInv, WorkShapes, Work!Exists, Records, Sound
<1>8. \A j \in Plans : prior(j) => Work!Exists(j) BY DEF Work!Unresolved
<1>9. \A j \in Plans \ {i} : plans'[j] = IF prior(j) THEN Withdrawn(plans[j]) ELSE plans[j]
  BY <1>3
<1>10. Made \/ plans'[i] = Work!NoPlan
  <2>1. plans[i] = Work!NoPlan /\ ~prior(i) BY <1>2, <1>8 DEF Work!Exists
  <2> HIDE DEF new, prior
  <2> QED BY <1>3, <2>1
<1>11. /\ Made => child' = [child EXCEPT ![i] = "planned"]
                  /\ overlooked' = (overlooked \/ \E j \in Plans : Work!Pending(j))
       /\ ~Made => UNCHANGED <<child, overlooked>>
  <2>1. plans[i] = Work!NoPlan /\ ~prior(i) /\ new # Work!NoPlan BY <1>2, <1>5, <1>8,
     NoPlanFact DEF Work!Exists
  <2> HIDE DEF new, prior
  <2> QED BY <1>3, <2>1
<1> HIDE DEF Made, kept, new, prior
<1>12. /\ \A j \in Plans \ {i} : Work!Exists(j)' <=> Work!Exists(j)
       /\ Work!Exists(i)' <=> Made
  BY <1>5, <1>7, <1>8, <1>9, <1>10, NoPlanFact, Withdrawing DEF Work!Exists, Made
<1>13. \A j \in Plans \ {i} : Work!Exists(j) =>
          /\ plans'[j] \in Work!Plan /\ Follows(plans[j], plans'[j])
          /\ plans'[j].nodeDeleted = plans[j].nodeDeleted /\ plans'[j].nodeStarted = plans[j].nodeStarted
          /\ plans'[j].childStarted = plans[j].childStarted /\ plans'[j].status = "superseded"
          /\ prior(j) => ~Started(plans'[j]) /\ plans[j].succ = 0
          /\ ~prior(j) => plans'[j] = plans[j]
  <2> TAKE j \in Plans \ {i}
  <2> HAVE Work!Exists(j)
  <2>1. CASE prior(j)
    <3>1. plans'[j] = Withdrawn(plans[j]) /\ plans[j] \in Work!Plan BY <1>7, <1>9, <2>1
    <3>2. ~Started(plans[j]) /\ plans[j].succ = 0 BY <1>1, <1>7, <2>1 DEF Sound
    <3> QED BY <2>1, <3>1, <3>2, Withdrawing DEF Started
  <2>2. CASE ~prior(j)
    <3>1. Follows(plans[j], plans[j]) BY DEF Follows, Flags
    <3> QED BY <2>2, <3>1, <1>1, <1>7, <1>9
  <2> QED BY <2>1, <2>2
<1>14. \A j \in Plans \ {i} : Work!Exists(j) =>
          /\ plans'[j].child = plans[j].child /\ plans'[j].succ = plans[j].succ /\ plans'[j].prev = plans[j].prev
          /\ (Waiting(j)' <=> Waiting(j)) /\ (Head(j)' <=> Waiting(j))
          /\ Gone(j) => Gone(j)'
          /\ prior(j) => Gone(j)' /\ ~Waiting(j)
  <2> TAKE j \in Plans \ {i}
  <2> HAVE Work!Exists(j)
  <2>1. /\ plans'[j].child = plans[j].child /\ plans'[j].succ = plans[j].succ /\ plans'[j].prev = plans[j].prev
        /\ plans'[j].status = "superseded" /\ Work!Exists(j)' /\ (prior(j) => plans[j].succ = 0)
    BY <1>12, <1>13 DEF Follows, Flags
  <2>2. plans[j].succ # 0 => (Work!Exists(plans[j].succ)' <=> Work!Exists(plans[j].succ))
    <3> HAVE plans[j].succ # 0
    <3>1. PICK k \in Plans \ {i} : k = plans[j].succ BY <1>2, <1>7
    <3>2. Work!Exists(k)' <=> Work!Exists(k) BY <1>12
    <3> QED BY <2>1, <3>1, <3>2 DEF Work!Exists
  <2> QED BY <2>1, <2>2 DEF Waiting, Head, Gone, Work!Exists
<1>15. \A c \in Plans : (child[c] # "none" => child'[c] = child[c])
                       /\ (child'[c] # child[c] => child'[c] = "planned")
  BY <1>2, <1>11 DEF WorkInv, WorkShapes, WorldTypes
<1>16. WorldTypes' /\ Fenced'
  BY <1>4, <1>11 DEF WorkInv, WorkShapes, WorldTypes, Fenced
<1>17. WorkShapes'
  <2>1. \A j \in Plans : plans'[j] \in Work!Plan \cup {Work!NoPlan}
    BY <1>5, <1>10, <1>12, <1>13 DEF Made, Work!Exists
  <2>2. plans' = [j \in Plans |-> plans'[j]]
    BY <1>3 DEF kept
  <2> QED BY <1>4, <1>16, <2>1, <2>2 DEF WorkInv, WorkShapes
<1>18. Work!EffectsAreRecorded'
  <2>1. \A j \in Plans : Work!Exists(j) => Work!Exists(j)' /\ Flags(plans[j], plans'[j])
    BY <1>2, <1>12, <1>13 DEF Follows
  <2>2. \A c \in Plans : Work!Allocated(c)' => Work!Allocated(c)
    BY <1>15 DEF Work!Allocated
  <2> QED BY <1>4, <2>1, <2>2, Recorded DEF WorkInv
<1>19. Made => Head(i)' /\ plans'[i].child = i /\ plans'[i].succ = 0 /\ plans'[i].prev = 0
               /\ plans'[i].status = "planned" /\ ~plans'[i].nodeDeleted /\ ~plans'[i].tried
               /\ ~Waiting(i)' /\ ~Gone(i)'
  BY <1>6, <1>12 DEF Made, Head, Waiting, Gone
<1>20. OneHead'
  <2> SUFFICES ASSUME NEW j \in Plans, NEW k \in Plans, Head(j)', Head(k)', plans'[j].child = plans'[k].child
               PROVE  j = k
    BY DEF OneHead
  <2>1. Work!Exists(j)' /\ Work!Exists(k)' BY DEF Head
  <2>2. CASE j # i /\ k # i
    BY <2>1, <2>2, <1>12, <1>14 DEF WorkInv, OneHead, Head
  <2>3. CASE j = i \/ k = i
    BY <2>1, <2>3, <1>7, <1>12, <1>14, <1>19
  <2> QED BY <2>2, <2>3
<1>21. Succession' BY <1>12, <1>14, <1>19 DEF WorkInv, Succession
<1>22. Continued'
  <2> SUFFICES ASSUME NEW k \in Plans, Work!Exists(k)', plans'[k].status = "superseded", plans'[k].succ # 0
               PROVE  \E h \in Plans : Head(h)' /\ plans'[h].child = plans'[k].child
                                       /\ plans'[h].childStarted
    BY DEF Continued
  <2>1. k # i /\ Work!Exists(k) /\ plans[k].succ # 0 /\ plans[k].status = "superseded"
    BY <1>1, <1>12, <1>13, <1>14, <1>19
  <2>2. PICK h \in Plans : Head(h) /\ plans[h].child = plans[k].child /\ plans[h].childStarted
    BY <2>1 DEF WorkInv, Continued
  <2>3. h # i /\ Work!Exists(h) /\ ~prior(h) BY <2>2, <1>1, <1>2 DEF Head, Started
  <2>4. Waiting(h) BY <2>2, <2>3, <1>1 DEF Head
  <2> QED BY <2>1, <2>2, <2>3, <2>4, <1>13, <1>14
<1>23. OneLine'
  <2> SUFFICES ASSUME ~overlooked', NEW j \in Plans, NEW k \in Plans, Work!Exists(j)', Work!Exists(k)',
                      plans'[j].child # plans'[k].child
               PROVE  Gone(j)' \/ Gone(k)'
    BY DEF OneLine
  <2>1. ~overlooked BY <1>11
  <2>2. CASE Made
    <3>1. \A m \in Plans : ~Work!Pending(m) BY <1>11, <2>2
    <3>2. ASSUME NEW m \in Plans \ {i}, Work!Exists(m) PROVE Gone(m)'
      <4>1. CASE prior(m) BY <4>1, <3>2, <1>14
      <4>2. CASE ~prior(m) /\ plans[m].succ # 0
        <5>1. plans[m].status = "superseded" BY <4>2, <3>2, <1>1
        <5>2. PICK h \in Plans : Head(h) /\ plans[h].childStarted
          BY <5>1, <4>2, <3>2 DEF WorkInv, Continued
        <5>3. Work!Exists(h) /\ ~prior(h) BY <5>2, <1>1 DEF Head, Started
        <5>4. Waiting(h) BY <5>2, <5>3, <1>1 DEF Head
        <5> QED BY <5>3, <5>4, <3>1 DEF Waiting, Work!Pending
      <4>3. CASE ~prior(m) /\ plans[m].succ = 0
        <5>1. Gone(m) BY <4>3, <3>2, <1>1 DEF Gone
        <5> QED BY <5>1, <3>2, <1>14
      <4> QED BY <4>1, <4>2, <4>3
    <3>3. j # k OBVIOUS
    <3> QED BY <3>2, <3>3, <1>12
  <2>3. CASE ~Made
    BY <2>1, <2>3, <1>12, <1>14 DEF WorkInv, OneLine
  <2> QED BY <2>2, <2>3
<1>24. Records'
  <2> SUFFICES ASSUME NEW j \in Plans, Work!Exists(j)'
               PROVE  Sound(j)' /\ (Waiting(j)' => Kept(j)')
    BY DEF Records
  <2>1. CASE j = i
    <3>1. destroys[i] = 0
      <4>1. \A c \in Plans : destroys[c] > 0 => \E k \in Plans : Work!Exists(k) /\ plans[k].child = c
        BY DEF WorkInv, Work!EffectsAreRecorded
      <4>2. ~(destroys[i] > 0) BY <4>1, <1>7
      <4> QED BY <4>2 DEF WorkInv, WorkShapes, WorldTypes
    <3>2. child'[i] = "planned" BY <2>1, <1>11, <1>12 DEF WorkInv, WorkShapes, WorldTypes
    <3> QED BY <2>1, <3>1, <3>2, <1>4, <1>12, <1>19 DEF Sound
  <2>2. CASE j # i
    <3>1. Work!Exists(j) /\ Sound(j) /\ (Waiting(j) => Kept(j)) /\ plans[j].child \in Plans
      BY <2>2, <1>7, <1>12 DEF WorkInv, Records
    <3>2. plans[j].prev # 0 => plans'[plans[j].prev].status = "superseded" /\ plans'[plans[j].prev].succ = j
      <4> HAVE plans[j].prev # 0
      <4>1. /\ plans[plans[j].prev].status = "superseded" /\ plans[plans[j].prev].succ = j
            /\ plans[j].prev \in Plans
        BY <3>1, <1>7 DEF Sound
      <4>2. Work!Exists(plans[j].prev) BY <4>1 DEF Work!Exists, Work!NoPlan
      <4>3. plans[j].prev \in Plans \ {i} BY <1>2, <4>1, <4>2
      <4> QED BY <4>1, <4>2, <4>3, <1>13, <1>14
    <3>3. Gone(j)' => ~Started(plans'[j])
      <4>1. CASE prior(j) BY <4>1, <3>1, <2>2, <1>13
      <4>2. CASE ~prior(j)
        <5>1. plans'[j] = plans[j] BY <4>2, <3>1, <2>2, <1>13
        <5> QED BY <5>1, <3>1 DEF Sound, Gone
      <4> QED BY <4>1, <4>2
    <3>4. /\ plans'[j].status = "superseded" /\ plans'[j].nodeDeleted = plans[j].nodeDeleted
          /\ plans'[j].nodeStarted = plans[j].nodeStarted /\ plans'[j].child = plans[j].child
          /\ plans'[j].prev = plans[j].prev
      BY <3>1, <2>2, <1>13, <1>14
    <3>5. Sound(j)'
      BY <3>1, <3>2, <3>3, <3>4, <1>15 DEF Sound
    <3>6. Waiting(j)' => Kept(j)'
      <4> HAVE Waiting(j)'
      <4>1. Waiting(j) /\ Kept(j) /\ ~prior(j) BY <3>1, <2>2, <1>14
      <4>2. plans'[j] = plans[j] BY <4>1, <3>1, <2>2, <1>13
      <4> QED BY <4>1, <4>2, <1>4 DEF Kept
    <3> QED BY <3>5, <3>6
  <2> QED BY <2>1, <2>2
<1>25. Running' BY <1>1, <1>4 DEF Running
<1> QED BY <1>4, <1>16, <1>17, <1>18, <1>20, <1>21, <1>22, <1>23, <1>24, <1>25
        DEF WorkInv, Numbered, Work!DestroyedOnce

-----------------------------------------------------------------------------
\* At the start there is no plan.
LEMMA WorkInit == ASSUME Numbered, Work!Init PROVE WorkInv
<1>1. \A i \in Plans : ~Work!Exists(i) BY DEF Work!Init, Work!Exists
<1>2. WorkShapes
  <2>1. plans \in [Plans -> Work!Plan \cup {Work!NoPlan}] /\ successor \in [Plans -> Work!Plan \cup {Work!NoPlan}]
    BY DEF Work!Init
  <2>2. /\ child \in [Plans -> {"none", "planned", "created", "configured", "ready"}]
        /\ destroys \in [Plans -> Nat]
    BY DEF Work!Init
  <2>3. /\ queued = {} /\ run = Work!Idle /\ vm = "running" /\ task = "none" /\ reused = 0 /\ back = "no"
        /\ node = "old" /\ impact = 1 /\ overlooked = FALSE
    BY DEF Work!Init
  <2>5. overlooked \in BOOLEAN BY DEF Work!Init
  <2>6. impact \in 0..2 BY DEF Work!Init
  <2>7. vm \in {"running", "stopped", "deleting", "gone"} /\ task \in {"none", "running", "ok", "failed"}
        /\ back \in {"no", "recent", "old"} /\ node \in {"old", "none", "new"}
        /\ reused \in Plans \cup {0} /\ queued \subseteq Plans
    BY <2>3
  <2>4. WorldTypes BY <2>2, <2>5, <2>6, <2>7 DEF WorldTypes
  <2> QED BY <2>1, <2>3, <2>4 DEF WorkShapes
<1>3. Records /\ OneHead /\ Succession /\ Continued /\ OneLine
  BY <1>1 DEF Records, OneHead, Succession, Continued, OneLine, Head
<1>4. Running /\ Fenced /\ Work!DestroyedOnce
  BY DEF Work!Init, Running, Fenced, Work!DestroyedOnce
<1>5. Work!EffectsAreRecorded
  BY DEF Work!Init, Work!EffectsAreRecorded, Work!Allocated
<1> QED BY <1>2, <1>3, <1>4, <1>5 DEF WorkInv

\* Every step keeps the invariant.
LEMMA WorkNext == ASSUME WorkInv, [Work!Next]_(Work!vars) PROVE WorkInv'
<1>1. CASE Work!Requests
  <2>1. PICK i \in Plans :
            \/ \E mode \in {"reachable", "dead"} : Work!PlanReplacement(i, mode)
            \/ Work!ApproveReplacement(i)
            \/ \E n \in Plans : Work!PlanReplacementResume(i, n)
            \/ Work!ReconstructSuccessor(i)
    BY <1>1 DEF Work!Requests
  <2> QED BY <2>1, PlanReplacementStep, ApproveStep, ResumeStep, ReconstructStep
<1>2. CASE Work!Job
  <2>1. CASE Work!Adopt BY <2>1, VerifyChildStep DEF Work!Adopt, PCs
  <2>2. CASE Work!FinalChild BY <2>2, VerifyChildStep DEF Work!FinalChild, PCs
  <2>3. CASE Work!RunStart \/ Work!Check \/ Work!CheckResume \/ Work!DrainBegin \/ Work!Drain \/ Work!ChildBegin
    BY <2>3, RunStartStep, CheckStep, CheckResumeStep, DrainBeginStep, DrainStep, ChildBeginStep
  <2>4. CASE Work!ChildSkip \/ Work!ChildRun \/ Work!FenceBegin \/ Work!FenceAgain \/ Work!Destroy \/ Work!FenceProve
    BY <2>4, ChildSkipStep, ChildRunStep, FenceBeginStep, FenceAgainStep, DestroyStep, FenceProveStep
  <2>5. CASE \/ Work!FenceUnknown \/ Work!NodeBegin \/ Work!NodeAgain \/ Work!NodeDelete \/ Work!NodeProve
             \/ Work!Final \/ Work!FinalRecord \/ Work!RunEnd
    BY <2>5, FenceUnknownStep, NodeBeginStep, NodeAgainStep, NodeDeleteStep, NodeProveStep,
       FinalStep, FinalRecordStep, RunEndStep
  <2> QED BY <1>2, <2>1, <2>2, <2>3, <2>4, <2>5 DEF Work!Job
<1>3. CASE Work!Environment
  BY <1>3, WorldMoves, FenceAgesStep, PlanExpiresStep DEF Work!Environment
<1>4. CASE Work!Crash BY <1>4, CrashStep
<1>5. CASE UNCHANGED Work!vars
  <2>1. UNCHANGED <<plans, successor, child, queued, ran, run, vm, task, destroys, reused, back, node,
                    ready, impact, record, overlooked>>
    BY <1>5 DEF Work!vars, Work!worldVars
  <2>2. WorldTypes' /\ Fenced' BY <2>1 DEF WorkInv, WorkShapes, WorldTypes, Fenced
  <2> QED BY <2>1, <2>2, EnvironmentStep
<1> QED BY <1>1, <1>2, <1>3, <1>4, <1>5 DEF Work!Next

\* The invariant says what the replacement promises.
LEMMA WorkPromises ==
    ASSUME WorkInv
    PROVE  /\ Work!DestroyedOnce /\ Work!OnlyOneActs /\ Work!EffectsAreRecorded
           /\ Work!ReplacementIsDone /\ Work!OneSuccessor
<1>1. Work!OnlyOneActs
  <2> SUFFICES ASSUME ~overlooked, NEW c \in Plans, NEW d \in Plans, c # d
               PROVE  /\ ~(destroys[c] > 0 /\ destroys[d] > 0)
                      /\ ~(Work!Allocated(c) /\ Work!Allocated(d))
    BY DEF Work!OnlyOneActs
  <2>1. \A i, j \in Plans : /\ Work!Exists(i) /\ plans[i].child = c /\ Started(plans[i])
                           /\ Work!Exists(j) /\ plans[j].child = d => ~Started(plans[j])
    BY DEF WorkInv, OneLine, Records, Sound
  <2>2. \A e \in Plans : destroys[e] > 0 =>
            \E i \in Plans : Work!Exists(i) /\ plans[i].child = e /\ Started(plans[i])
    BY DEF WorkInv, Work!EffectsAreRecorded, Started
  <2>3. \A e \in Plans : Work!Allocated(e) =>
            \E i \in Plans : Work!Exists(i) /\ plans[i].child = e /\ Started(plans[i])
    BY DEF WorkInv, Work!EffectsAreRecorded, Started
  <2> QED BY <2>1, <2>2, <2>3
<1>2. Work!ReplacementIsDone BY DEF WorkInv, Records, Sound, Work!ReplacementIsDone
<1>3. Work!OneSuccessor BY DEF WorkInv, Records, Sound, Work!OneSuccessor
<1> QED BY <1>1, <1>2, <1>3 DEF WorkInv

\* Only NodeDelete removes the old Node, and it stands behind fresh evidence.
LEMMA NodeGuarded == ASSUME WorkInv, [Work!Next]_(Work!vars) PROVE Work!NodeOutlivesVM
<1> SUFFICES ASSUME node = "old", node' # "old" PROVE task = "ok" /\ (vm = "gone" \/ back = "recent")
  BY DEF Work!NodeOutlivesVM
<1>1. Work!NodeDelete
  <2>1. ~Work!Requests
    <3>1. \A i \in Plans : ~Work!ApproveReplacement(i) /\ ~Work!ReconstructSuccessor(i)
      BY DEF Work!ApproveReplacement, Work!ReconstructSuccessor, Work!worldVars
    <3>2. \A i \in Plans, mode \in {"reachable", "dead"} : ~Work!PlanReplacement(i, mode)
      BY DEF Work!PlanReplacement, Work!worldVars
    <3>3. \A i, n \in Plans : ~Work!PlanReplacementResume(i, n)
      <4> SUFFICES ASSUME NEW i \in Plans, NEW n \in Plans, Work!PlanReplacementResume(i, n) PROVE FALSE
        OBVIOUS
      <4>1. UNCHANGED Work!worldVars BY DEF Work!PlanReplacementResume
      <4> QED BY <4>1 DEF Work!worldVars
    <3> QED BY <3>1, <3>2, <3>3 DEF Work!Requests
  <2>2. ~Work!Environment
    BY DEF Work!Environment, Work!TaskEnds, Work!RestoreVM, Work!Register, Work!NodeFails,
       Work!RiskAppears,
       Work!FenceAges, Work!PlanExpires, Work!worldVars
  <2>3. ~Work!Crash /\ ~(UNCHANGED Work!vars) BY DEF Work!Crash, Work!vars, Work!worldVars
  <2>4. /\ ~Work!RunStart /\ ~Work!Check /\ ~Work!CheckResume /\ ~Work!DrainBegin /\ ~Work!ChildBegin
        /\ ~Work!ChildSkip /\ ~Work!FenceBegin /\ ~Work!FenceAgain /\ ~Work!FenceProve /\ ~Work!FenceUnknown
        /\ ~Work!NodeBegin /\ ~Work!NodeAgain /\ ~Work!NodeProve /\ ~Work!Final /\ ~Work!RunEnd
    BY DEF Work!Local, Work!worldVars, Work!RunStart, Work!Check, Work!CheckResume, Work!DrainBegin,
       Work!ChildBegin, Work!ChildSkip, Work!FenceBegin, Work!FenceAgain, Work!FenceProve,
       Work!FenceUnknown,
       Work!NodeBegin, Work!NodeAgain, Work!NodeProve, Work!Final, Work!RunEnd
  <2>5. ~Work!Adopt /\ ~Work!FinalChild /\ ~Work!Drain /\ ~Work!ChildRun /\ ~Work!Destroy /\ ~Work!FinalRecord
    BY DEF Work!Adopt, Work!FinalChild, Work!VerifyChild, Work!Drain, Work!ChildRun, Work!Destroy,
       Work!FinalRecord, Work!worldVars
  <2> QED BY <2>1, <2>2, <2>3, <2>4, <2>5 DEF Work!Next, Work!Job
<1>2. run # Work!Idle /\ run.pc = "deleting" BY <1>1, AtRuns DEF Work!NodeDelete, PCs, Work!At
<1>3. Held(run.p.fence) /\ run.p.fence.fresh
  BY <1>1, <1>2, RunFacts DEF Place, Work!NodeDelete
<1> QED BY <1>3 DEF Held

\* The inductive invariant of the replacement holds in every state.
THEOREM ReplacementInvariant == ASSUME Numbered PROVE Work!Spec => []WorkInv
<1>1. Work!Init => WorkInv BY WorkInit
<1>2. WorkInv /\ [Work!Next]_(Work!vars) => WorkInv' BY WorkNext
<1> QED BY <1>1, <1>2, PTL DEF Work!Spec

\* A reviewed plan and its continuations request the destruction of the old VM at most once, for
\* any number of plans, crashes, lost answers and failed saves (replacementFence).
THEOREM DestroyedAtMostOnce == ASSUME Numbered PROVE Work!Spec => []Work!DestroyedOnce
<1>1. WorkInv => Work!DestroyedOnce BY WorkPromises
<1> QED BY <1>1, ReplacementInvariant, PTL

\* Plans that are not continuations of one another do not both request it, nor both allocate a
\* machine, unless one was accepted while a continuation was not published (PlanReplacement).
THEOREM OnlyOnePlanActs == ASSUME Numbered PROVE Work!Spec => []Work!OnlyOneActs
<1>1. WorkInv => Work!OnlyOneActs BY WorkPromises
<1> QED BY <1>1, ReplacementInvariant, PTL

\* What was done is recorded, a plan that reads succeeded has done everything, and an interrupted
\* plan has one successor (replacementStep, RunReplacement, PlanReplacementResume).
THEOREM PlansAreTrue ==
    ASSUME Numbered
    PROVE  Work!Spec => [](Work!EffectsAreRecorded /\ Work!ReplacementIsDone /\ Work!OneSuccessor)
<1>1. WorkInv => Work!EffectsAreRecorded /\ Work!ReplacementIsDone /\ Work!OneSuccessor
  BY WorkPromises
<1> QED BY <1>1, ReplacementInvariant, PTL

\* The Node is removed only while the VM is away, or has been back for less than the lifetime of
\* the evidence (the guard around DeleteStaleNode).
THEOREM NodeAfterVM ==
    ASSUME Numbered PROVE Work!Spec => [][Work!NodeOutlivesVM]_(Work!vars)
<1>1. WorkInv /\ [Work!Next]_(Work!vars) => [Work!NodeOutlivesVM]_(Work!vars) BY NodeGuarded
<1> QED BY <1>1, ReplacementInvariant, PTL DEF Work!Spec
=============================================================================
