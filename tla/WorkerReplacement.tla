------------------------- MODULE WorkerReplacement --------------------------
(***************************************************************************)
(* Replacement of one owned worker: plans and their durable evidence, the  *)
(* job that drains, fences, removes the Node and creates the replacement,  *)
(* the resumption of an interrupted plan, and the provider and Kubernetes  *)
(* world around it (internal/operations/workerreplacement.go,              *)
(* internal/proxmox/worker_fencing.go, internal/api/replacements.go).      *)
(*                                                                         *)
(* A plan is the record saved under its id; the runner works on a copy in  *)
(* memory and saves it at the places the code does.  Every save and every  *)
(* call may fail, and the process may crash between any two steps; all of  *)
(* these draw on the budget MaxFaults.  The storage impact is a number: 0  *)
(* when nothing is left on the node, 1 for what was reviewed, 2 when a     *)
(* risk appeared that nobody reviewed.  Callers are the plan's author.     *)
(***************************************************************************)
EXTENDS Naturals, FiniteSets

CONSTANTS Plans,      \* ids of plans, 1..n; a plan's own child plan has the same id
          MaxFaults   \* failing saves and calls, and crashes, in one behaviour

VARIABLES plans,      \* [Plans -> Plan or NoPlan]: the durable records
          successor,  \* [Plans -> Plan or NoPlan]: SuccessorState of each record
          child,      \* [Plans -> child plan and its machine's record]
          queued,     \* plans with an accepted job that has not started
          ran,        \* plans whose deduplication key the journal knows
          run,        \* the executing job, or Idle
          vm,         \* the old VM at the provider
          task,       \* its deletion task: none, running, ok, failed
          destroys,   \* [Plans -> deletion requests of the plan of that child and its continuations]
          reused,     \* plan whose machine took the old VMID, or 0
          back,       \* the old VM was brought back: no, recent, old
          node,       \* the Node object of that name: old, none, new
          ready,      \* its Ready condition
          impact,     \* current storage impact
          record,     \* registry status of the old machine: ready, deleted
          overlooked, \* history: a plan was made while another's successor was not published
          faults

worldVars == <<vm, task, destroys, reused, back, node, ready, impact>>
vars == <<plans, successor, child, queued, ran, run, worldVars, record, overlooked, faults>>

NoPlan == [status |-> "none"]
NoFence == [task |-> FALSE, fenced |-> FALSE, fresh |-> FALSE]
Idle == [pc |-> "idle"]

Evidence == [task : BOOLEAN, fenced : BOOLEAN, fresh : BOOLEAN]

\* replacementState; "tried" is FenceStarted, "fence" the saved evidence.
Plan == [status : {"planned", "running", "succeeded", "requires_review", "superseded"},
         mode : {"reachable", "dead"}, approved : BOOLEAN, expired : BOOLEAN,
         resume : BOOLEAN, prev : Plans \cup {0}, succ : Plans \cup {0}, child : Plans,
         impact : 0..2, effects : BOOLEAN, drainStarted : BOOLEAN, drained : BOOLEAN,
         tried : BOOLEAN, fence : Evidence, evidence : BOOLEAN, nodeStarted : BOOLEAN,
         nodeDeleted : BOOLEAN, childStarted : BOOLEAN, childDone : BOOLEAN]

Exists(i) == plans[i] # NoPlan
Unused == {i \in Plans : ~Exists(i) /\ child[i] = "none"
                         /\ \A j \in Plans : Exists(j) => plans[j].succ # i}
Fault == faults < MaxFaults /\ faults' = faults + 1
NoFault == UNCHANGED faults

Init == /\ plans = [i \in Plans |-> NoPlan] /\ successor = [i \in Plans |-> NoPlan]
        /\ child = [i \in Plans |-> "none"]
        /\ queued = {} /\ ran = {} /\ run = Idle
        /\ vm = "running" /\ task = "none" /\ reused = 0 /\ back = "no"
        /\ destroys = [i \in Plans |-> 0]
        /\ node = "old" /\ ready \in BOOLEAN /\ impact = 1
        /\ record = "ready" /\ overlooked = FALSE /\ faults = 0

-----------------------------------------------------------------------------
(* Planning and approval: HTTP handlers, one at a time under replacementMu. *)

\* VerifyOwned: the machine at the VMID is the recorded one.
VerifyOwned == vm # "gone"

\* WorkerReplacementIdentity: the Node of that name is the one with the pinned UID.
Identified == node = "old"

Matches(mode) == (mode = "reachable") = ready

\* replacementActive: the job of this plan is executing in this process.
Active(i) == IF run = Idle THEN FALSE ELSE run.id = i

\* Mutant: plans that started something are superseded as well.
SupersedableAny(i) == ~Active(i) /\ plans[i].status = "requires_review"

\* A never-started plan of the same author is superseded, any other unresolved one refuses.
Supersedable(i) ==
    LET p == plans[i]
    IN /\ ~(p.effects \/ p.childStarted \/ p.tried \/ p.drainStarted \/ p.nodeStarted)
       /\ ~Active(i)
       /\ child[p.child] = "planned"
       /\ \/ p.status = "planned" /\ (~p.approved \/ p.expired)
          \/ p.status = "requires_review"

Unresolved(i) == Exists(i) /\ plans[i].status \notin {"succeeded", "superseded"}

\* The successor of an interrupted plan is in its record and not yet saved under its own id.
Pending(i) == Exists(i) /\ plans[i].succ # 0 /\ ~Exists(plans[i].succ)

NewPlan(i, mode) ==
    [status |-> "planned", mode |-> mode, approved |-> FALSE, expired |-> FALSE,
     resume |-> FALSE, prev |-> 0, succ |-> 0, child |-> i, impact |-> impact,
     effects |-> FALSE, drainStarted |-> FALSE, drained |-> FALSE, tried |-> FALSE,
     fence |-> NoFence, evidence |-> FALSE, nodeStarted |-> FALSE, nodeDeleted |-> FALSE,
     childStarted |-> FALSE, childDone |-> FALSE]

PlanReplacement(i, mode) ==
    LET prior == {j \in Plans : Unresolved(j)}
        kept  == [j \in Plans |-> IF j \in prior THEN [plans[j] EXCEPT !.status = "superseded"]
                                  ELSE plans[j]]
    IN /\ i \in Unused /\ record = "ready"
       /\ \A j \in prior : Supersedable(j)
       /\ \/ /\ Identified /\ Matches(mode) /\ VerifyOwned
             /\ plans' = [kept EXCEPT ![i] = NewPlan(i, mode)]
             /\ child' = [child EXCEPT ![i] = "planned"]
             /\ overlooked' = (overlooked \/ \E j \in Plans : Pending(j))
             /\ NoFault
          \/ /\ prior # {} /\ plans' = kept   \* refused after the old plans were superseded
             /\ UNCHANGED <<child, overlooked>>
             /\ IF Identified /\ Matches(mode) /\ VerifyOwned THEN Fault ELSE NoFault
       /\ UNCHANGED <<successor, queued, ran, run, worldVars, record>>

\* POST /replacements: approve, then submit the job; a busy journal refuses it and
\* the approved plan may be approved again; a known key starts nothing.
ApproveReplacement(i) ==
    /\ Exists(i) /\ plans[i].status = "planned" /\ ~plans[i].expired
    /\ plans' = [plans EXCEPT ![i].approved = TRUE]
    /\ \/ /\ queued = {} /\ run = Idle /\ i \notin ran
          /\ queued' = {i} /\ ran' = ran \cup {i} /\ NoFault
       \/ UNCHANGED <<queued, ran>> /\ (IF queued = {} /\ run = Idle THEN Fault ELSE NoFault)
    /\ UNCHANGED <<successor, child, run, worldVars, record, overlooked>>

-----------------------------------------------------------------------------
(* Evidence. *)

\* proveWorkerFence: the deletion task ended well and nothing holds the VMID.
Provable(ev) == ev.task /\ task = "ok" /\ vm = "gone" /\ reused = 0

Proved(ev) == [ev EXCEPT !.fenced = TRUE, !.fresh = TRUE]
Unproved(ev) == [ev EXCEPT !.fenced = FALSE, !.fresh = FALSE]

\* replacementChildRecords: one machine of the child plan, configured or ready.
ChildAdoptable(p) == child[p.child] \in {"configured", "ready"}

\* The VMID was taken by this plan's own replacement after the Node was removed.
ReusedByChild(p) ==
    /\ p.nodeDeleted /\ p.childStarted /\ p.fence.fenced /\ p.fence.task
    /\ ChildAdoptable(p) /\ reused = p.child /\ node = "none"

\* replacementRevalidateFence up to its save: the plan with the evidence it records
\* and whether the code continues.  Nothing is sent to the provider but reads.
Revalidated(p, lost) ==
    IF ~p.evidence THEN [plan |-> p, ok |-> FALSE]
    ELSE IF Provable(p.fence) /\ ~lost
         THEN [plan |-> [p EXCEPT !.fence = Proved(@)], ok |-> TRUE]
    ELSE IF ReusedByChild(p) THEN [plan |-> p, ok |-> TRUE]
    ELSE [plan |-> [p EXCEPT !.fence = Unproved(@)], ok |-> FALSE]

\* replacementObserve: pinned identity and an impact that is the reviewed one, or no more than it.
ObservedExactly(p) == Identified /\ impact = p.impact
ObservedWithin(p)  == Identified /\ impact <= p.impact

-----------------------------------------------------------------------------
(* The job. *)

Goto(pc, p) == run' = [run EXCEPT !.pc = pc, !.p = p]

\* saveReplacement in the run: on success go on, on failure the run ends with an error.
SaveThen(p, pc) ==
    \/ plans' = [plans EXCEPT ![run.id] = p] /\ Goto(pc, p) /\ NoFault
    \/ UNCHANGED plans /\ Goto("failed", p) /\ Fault

At(pc) == run.pc = pc
GiveUp == Goto("failed", run.p) /\ UNCHANGED <<plans, faults>>
Local == UNCHANGED <<successor, child, queued, ran, worldVars, record, overlooked>>

\* RunReplacement to its first save: a plan that is not planned, approved and current is refused.
RunStart ==
    \E i \in queued :
        LET p == [plans[i] EXCEPT !.status = "running"]
        IN /\ run = Idle /\ queued' = {}
           /\ \/ /\ plans[i].status = "planned" /\ plans[i].approved /\ ~plans[i].expired
                 /\ \/ /\ plans' = [plans EXCEPT ![i] = p]
                       /\ run' = [pc |-> "check", id |-> i, p |-> p] /\ NoFault
                    \/ UNCHANGED <<plans, run>> /\ Fault
              \/ /\ plans[i].status # "planned" \/ plans[i].expired
                 /\ UNCHANGED <<plans, run, faults>>
           /\ UNCHANGED <<successor, child, ran, worldVars, record, overlooked>>

\* The checks before the first mutation of a fresh plan.
Check ==
    /\ At("check") /\ ~run.p.resume
    /\ \/ /\ child[run.p.child] = "planned" /\ VerifyOwned
          /\ Matches(run.p.mode) /\ ObservedExactly(run.p)
          /\ Goto(IF run.p.mode = "reachable" THEN "drain" ELSE "fence", run.p)
          /\ UNCHANGED <<plans, faults>>
       \/ ~(child[run.p.child] = "planned" /\ VerifyOwned
            /\ Matches(run.p.mode) /\ ObservedExactly(run.p)) /\ GiveUp
    /\ Local

\* A resumed plan revalidates a fence that was tried and adopts the configured child.
CheckResume ==
    \E lost \in BOOLEAN :
        LET v == IF run.p.tried THEN Revalidated(run.p, lost) ELSE [plan |-> run.p, ok |-> VerifyOwned]
        IN /\ At("check") /\ run.p.resume
           /\ IF lost THEN Fault ELSE NoFault
           /\ plans' = IF run.p.tried /\ run.p.evidence
                       THEN [plans EXCEPT ![run.id] = v.plan] ELSE plans
           /\ Goto(IF v.ok /\ run.p.childStarted THEN "adopt" ELSE "failed", v.plan)
           /\ Local

\* replacementVerifyChild: observe the configured machine until it is Ready; nothing is replayed.
VerifyChild(from, to) ==
    /\ At(from)
    /\ \/ /\ ChildAdoptable(run.p)
          /\ child' = [child EXCEPT ![run.p.child] = "ready"]
          /\ SaveThen([run.p EXCEPT !.childDone = TRUE], to)
       \/ /\ ~ChildAdoptable(run.p) /\ GiveUp /\ UNCHANGED child
       \/ /\ ChildAdoptable(run.p) /\ Fault /\ Goto("failed", run.p) /\ UNCHANGED <<plans, child>>
    /\ UNCHANGED <<successor, queued, ran, worldVars, record, overlooked>>

Adopt == VerifyChild("adopt", "fence")

DrainBegin ==
    /\ At("drain") /\ SaveThen([run.p EXCEPT !.effects = TRUE, !.drainStarted = TRUE], "draining")
    /\ Local

\* CordonAndDrainReplacement: evicts what was reviewed, or stops half way.
Drain ==
    /\ At("draining")
    /\ \/ /\ Identified /\ impact' = 0
          /\ SaveThen([run.p EXCEPT !.drained = TRUE], "create")
       \/ /\ impact' \in {0, impact} /\ Goto("failed", run.p) /\ UNCHANGED plans /\ Fault
       \/ ~Identified /\ GiveUp /\ UNCHANGED impact
    /\ UNCHANGED <<successor, child, queued, ran, vm, task, destroys, reused, back, node,
                   ready, record, overlooked>>

\* replacementCreate: the child plan is consumed once, and the flag is saved first.
ChildBegin ==
    /\ At("create") /\ ~run.p.childDone
    /\ \/ /\ ~run.p.childStarted /\ child[run.p.child] = "planned"
          /\ SaveThen([run.p EXCEPT !.childStarted = TRUE, !.effects = TRUE], "creating")
       \/ /\ run.p.childStarted \/ child[run.p.child] # "planned"
          /\ GiveUp
    /\ Local

AfterChild(p) == IF p.mode = "reachable" THEN "fence" ELSE "final"

ChildSkip == At("create") /\ run.p.childDone /\ Goto(AfterChild(run.p), run.p)
             /\ UNCHANGED <<plans, faults>> /\ Local

\* The child's own run (module Provisioning): it may stop at any stage; the new VM takes
\* the next free VMID, which is the old one once that is free.
ChildRun ==
    /\ At("creating")
    /\ reused' = IF vm = "gone" /\ reused = 0 THEN run.p.child ELSE reused
    /\ \/ /\ child' = [child EXCEPT ![run.p.child] = "ready"]
          /\ SaveThen([run.p EXCEPT !.childDone = TRUE], AfterChild(run.p))
       \/ /\ \E s \in {"created", "configured"} : child' = [child EXCEPT ![run.p.child] = s]
          /\ Goto("failed", run.p) /\ UNCHANGED plans /\ Fault
    /\ UNCHANGED <<successor, queued, ran, vm, task, destroys, back, node, ready, impact,
                   record, overlooked>>

\* Mutant: the flag is saved only with the outcome.
FenceBeginUnsaved ==
    /\ At("fence") /\ ~run.p.tried /\ ObservedWithin(run.p)
    /\ Goto("destroying", [run.p EXCEPT !.effects = TRUE, !.tried = TRUE])
    /\ UNCHANGED <<plans, faults>> /\ Local

\* replacementFence before the request: FenceStarted is durable before anything is sent.
FenceBegin ==
    /\ At("fence") /\ ~run.p.tried
    /\ \/ /\ ObservedWithin(run.p) /\ (run.p.mode = "reachable" => run.p.drained)
          /\ SaveThen([run.p EXCEPT !.effects = TRUE, !.tried = TRUE], "destroying")
       \/ ~(ObservedWithin(run.p) /\ (run.p.mode = "reachable" => run.p.drained)) /\ GiveUp
    /\ Local

\* A fence that was tried is never requested again, only looked at.
FenceAgain ==
    \E lost \in BOOLEAN :
        LET v == Revalidated(run.p, lost)
        IN /\ At("fence") /\ run.p.tried /\ (IF lost THEN Fault ELSE NoFault)
           /\ plans' = IF run.p.evidence THEN [plans EXCEPT ![run.id] = v.plan] ELSE plans
           /\ Goto(IF v.ok THEN "node" ELSE "failed", v.plan) /\ Local

\* DestroyOwnedForFence: checks, stop, deletion request, wait for the task, proof.
\* It may fail before the request, lose the answer, or end before the task does.
Destroy ==
    /\ At("destroying")
    /\ \/ /\ vm \in {"running", "stopped"}
          /\ destroys' = [destroys EXCEPT ![run.p.child] = @ + 1]
          /\ vm' = "deleting" /\ task' = "running"
          /\ \/ Goto("waiting", [run.p EXCEPT !.evidence = TRUE, !.fence.task = TRUE]) /\ NoFault
             \/ Goto("unfenced", [run.p EXCEPT !.evidence = TRUE]) /\ Fault
       \/ /\ vm' \in {vm, IF vm = "running" THEN "stopped" ELSE vm}
          /\ Goto("unfenced", [run.p EXCEPT !.evidence = TRUE])
          /\ (IF VerifyOwned THEN Fault ELSE NoFault) /\ UNCHANGED <<destroys, task>>
    /\ UNCHANGED <<plans, successor, child, queued, ran, reused, back, node, ready, impact,
                   record, overlooked>>

\* WaitTask and proveWorkerFence, then the evidence is saved whatever it is.
FenceProve ==
    /\ At("waiting")
    /\ \/ /\ Provable(run.p.fence)
          /\ SaveThen([run.p EXCEPT !.fence = Proved(@)], "node")
       \/ Fault /\ Goto("unfenced", run.p) /\ UNCHANGED plans
       \/ task = "failed" /\ Goto("unfenced", run.p) /\ UNCHANGED <<plans, faults>>
    /\ Local

FenceUnknown == At("unfenced") /\ SaveThen(run.p, "failed") /\ Local

\* replacementDeleteNode before the request.
NodeBegin ==
    \E lost \in BOOLEAN :
        LET v == Revalidated(run.p, lost)
        IN /\ At("node") /\ ~run.p.nodeStarted
           /\ \/ /\ ObservedWithin(run.p) /\ v.ok /\ ~lost
                 /\ SaveThen([v.plan EXCEPT !.nodeStarted = TRUE], "deleting")
              \/ /\ ObservedWithin(run.p) /\ ~v.ok /\ Goto("failed", v.plan)
                 /\ plans' = [plans EXCEPT ![run.id] = v.plan] /\ (IF lost THEN Fault ELSE NoFault)
              \/ ~ObservedWithin(run.p) /\ ~lost /\ GiveUp
           /\ Local

NextStage(p) == IF p.mode = "dead" THEN "create" ELSE "final"

\* A deletion that was started is only checked.
NodeAgain ==
    /\ At("node") /\ run.p.nodeStarted
    /\ \/ node = "none" /\ ~run.p.nodeDeleted
          /\ SaveThen([run.p EXCEPT !.nodeDeleted = TRUE], NextStage(run.p))
       \/ /\ node = "none" /\ run.p.nodeDeleted
          /\ Goto(NextStage(run.p), run.p) /\ UNCHANGED <<plans, faults>>
       \/ node # "none" /\ GiveUp
    /\ Local

\* Mutant: the age of the evidence is not looked at again.
NodeDeleteLate ==
    /\ At("deleting") /\ Identified /\ node' = "none"
    /\ Goto("proving", run.p) /\ UNCHANGED <<plans, faults>>
    /\ UNCHANGED <<successor, child, queued, ran, vm, task, destroys, reused, back, ready,
                   impact, record, overlooked>>

\* DeleteStaleNode behind the guard: the evidence is fresh now, the UID is the pinned one.
NodeDelete ==
    /\ At("deleting")
    /\ \/ /\ run.p.fence.fresh /\ Identified
          /\ node' = "none" /\ Goto("proving", run.p) /\ UNCHANGED <<plans, faults>>
       \/ /\ run.p.fence.fresh /\ Identified /\ node' \in {"none", "old"}
          /\ Goto("failed", run.p) /\ UNCHANGED plans /\ Fault
       \/ ~(run.p.fence.fresh /\ Identified) /\ GiveUp /\ UNCHANGED node
    /\ UNCHANGED <<successor, child, queued, ran, vm, task, destroys, reused, back, ready,
                   impact, record, overlooked>>

NodeProve ==
    /\ At("proving")
    /\ \/ node = "none" /\ SaveThen([run.p EXCEPT !.nodeDeleted = TRUE], NextStage(run.p))
       \/ node # "none" /\ GiveUp
    /\ Local

\* The last revalidation, then the child, the workloads and the registry.
Final ==
    \E lost \in BOOLEAN :
        LET v == Revalidated(run.p, lost)
        IN /\ At("final") /\ (IF lost THEN Fault ELSE NoFault)
           /\ plans' = IF run.p.evidence THEN [plans EXCEPT ![run.id] = v.plan] ELSE plans
           /\ Goto(IF v.ok /\ node = "none" THEN "verify" ELSE "failed", v.plan) /\ Local

FinalChild == VerifyChild("verify", "workloads")

FinalRecord ==
    /\ At("workloads")
    /\ \/ record' = "deleted" /\ Goto("done", run.p) /\ UNCHANGED faults
       \/ UNCHANGED record /\ Goto("failed", run.p) /\ Fault
    /\ UNCHANGED <<plans, successor, child, queued, ran, worldVars, overlooked>>

\* Mutant: the deferred function sees no error of a run that got past the Node.
RunEndShadowed ==
    LET p == [run.p EXCEPT !.status = IF run.p.nodeDeleted THEN "succeeded" ELSE "requires_review"]
    IN run.pc \in {"done", "failed"} /\ run' = Idle /\ plans' = [plans EXCEPT ![run.id] = p] /\ NoFault /\ Local

\* The deferred function: the outcome is saved under a context of its own.
RunEnd ==
    LET p == [run.p EXCEPT !.status = IF At("done") THEN "succeeded" ELSE "requires_review"]
    IN /\ run.pc \in {"done", "failed"} /\ run' = Idle
       /\ \/ plans' = [plans EXCEPT ![run.id] = p] /\ NoFault
          \/ UNCHANGED plans /\ Fault
       /\ Local

-----------------------------------------------------------------------------
(* Resumption. *)

Resumable(i) ==
    LET p == plans[i]
    IN /\ p.status \in {"requires_review", "running"} /\ ~Active(i)
       /\ p.childStarted /\ ChildAdoptable(p)
       /\ p.nodeStarted => node = "none"
       /\ ~p.nodeStarted => node = "old"

\* Mutant: the successor is published first.
ResumePublishedFirst(i, n) ==
    LET p == plans[i]
        q == [p EXCEPT !.status = "planned", !.prev = i, !.resume = TRUE, !.approved = FALSE,
                       !.expired = FALSE]
    IN /\ Exists(i) /\ Resumable(i) /\ n \in Unused
       /\ \/ /\ plans' = [plans EXCEPT ![n] = q, ![i].status = "superseded", ![i].succ = n] /\ NoFault
          \/ plans' = [plans EXCEPT ![n] = q] /\ Fault
       /\ UNCHANGED <<successor, child, queued, ran, run, worldVars, record, overlooked>>

\* PlanReplacementResume of an interrupted plan: the successor is durable in the
\* original's record before it exists under an id of its own.
PlanReplacementResume(i, n) ==
    \E lost \in BOOLEAN :
        LET p == plans[i]
            v == IF p.tried THEN Revalidated(p, lost) ELSE [plan |-> p, ok |-> TRUE]
            q == [v.plan EXCEPT !.status = "planned", !.prev = i, !.succ = 0, !.resume = TRUE,
                                !.approved = FALSE, !.expired = FALSE,
                                !.nodeDeleted = @ \/ p.nodeStarted,
                                !.impact = IF p.nodeStarted THEN @ ELSE impact]
            old == [v.plan EXCEPT !.status = "superseded", !.succ = n]
        IN /\ Exists(i) /\ Resumable(i) /\ n \in Unused
           /\ lost => p.tried
           /\ \/ /\ v.ok /\ ~lost
                 /\ successor' = [successor EXCEPT ![i] = q]
                 /\ \/ plans' = [plans EXCEPT ![i] = old, ![n] = q] /\ NoFault
                    \/ plans' = [plans EXCEPT ![i] = old] /\ Fault
              \/ /\ ~v.ok /\ plans' = [plans EXCEPT ![i] = v.plan]
                 /\ UNCHANGED successor /\ (IF lost THEN Fault ELSE NoFault)
           /\ UNCHANGED <<child, queued, ran, run, worldVars, record, overlooked>>

\* PlanReplacementResume of a superseded plan whose successor was not published.
ReconstructSuccessor(i) ==
    LET n == plans[i].succ
    IN /\ Exists(i) /\ plans[i].status = "superseded" /\ n # 0 /\ ~Exists(n)
       /\ plans' = [plans EXCEPT ![n] = successor[i]] /\ NoFault
       /\ UNCHANGED <<successor, child, queued, ran, run, worldVars, record, overlooked>>

-----------------------------------------------------------------------------
(* The world and the clock. *)

TaskEnds ==
    /\ task = "running"
    /\ \/ task' = "ok" /\ vm' = "gone"
       \/ task' = "failed" /\ vm' = "stopped"
    /\ UNCHANGED <<plans, successor, child, queued, ran, run, destroys, reused, back, node,
                   ready, impact, record, overlooked, faults>>

\* An administrator restores the old VM from a backup under its VMID; its kubelet may register.
RestoreVM ==
    /\ vm = "gone" /\ reused = 0 /\ back = "no"
    /\ vm' = "running" /\ back' = "recent"
    /\ UNCHANGED <<plans, successor, child, queued, ran, run, task, destroys, reused, node, ready,
                   impact, record, overlooked, faults>>

Register ==
    /\ vm = "running" /\ node = "none" /\ node' = "new"
    /\ UNCHANGED <<plans, successor, child, queued, ran, run, vm, task, destroys, reused, back,
                   ready, impact, record, overlooked, faults>>

NodeFails ==
    /\ ready /\ ready' = FALSE
    /\ UNCHANGED <<plans, successor, child, queued, ran, run, vm, task, destroys, reused, back,
                   node, impact, record, overlooked, faults>>

RiskAppears ==
    /\ impact < 2 /\ node = "old" /\ impact' = 2
    /\ UNCHANGED <<plans, successor, child, queued, ran, run, vm, task, destroys, reused, back,
                   node, ready, record, overlooked, faults>>

\* More than WorkerFencingTTL passes: every piece of evidence stops being fresh.
FenceAges ==
    /\ plans' = [i \in Plans |-> IF Exists(i) THEN [plans[i] EXCEPT !.fence.fresh = FALSE] ELSE NoPlan]
    /\ successor' = [i \in Plans |-> IF successor[i] # NoPlan
                                     THEN [successor[i] EXCEPT !.fence.fresh = FALSE] ELSE NoPlan]
    /\ run' = IF run = Idle THEN run ELSE [run EXCEPT !.p.fence.fresh = FALSE]
    /\ back' = IF back = "recent" THEN "old" ELSE back
    /\ UNCHANGED <<child, queued, ran, vm, task, destroys, reused, node, ready, impact, record,
                   overlooked, faults>>

\* replacementPlanTTL passes for a plan that is still planned.
PlanExpires(i) ==
    /\ Exists(i) /\ plans[i].status = "planned" /\ ~plans[i].expired
    /\ plans' = [plans EXCEPT ![i].expired = TRUE]
    /\ UNCHANGED <<successor, child, queued, ran, run, worldVars, record, overlooked, faults>>

\* The process dies: the run and the accepted job are gone, the journal never replays them.
Crash ==
    /\ run # Idle \/ queued # {}
    /\ Fault /\ run' = Idle /\ queued' = {}
    /\ UNCHANGED <<plans, successor, child, ran, worldVars, record, overlooked>>

Requests ==
    \E i \in Plans :
        \/ \E mode \in {"reachable", "dead"} : PlanReplacement(i, mode)
        \/ ApproveReplacement(i)
        \/ \E n \in Plans : PlanReplacementResume(i, n)
        \/ ReconstructSuccessor(i)

Job == \/ RunStart \/ Check \/ CheckResume \/ Adopt \/ DrainBegin \/ Drain
       \/ ChildBegin \/ ChildSkip \/ ChildRun \/ FenceBegin \/ FenceAgain \/ Destroy \/ FenceProve
       \/ FenceUnknown \/ NodeBegin \/ NodeAgain \/ NodeDelete \/ NodeProve
       \/ Final \/ FinalChild \/ FinalRecord \/ RunEnd

Environment == \/ TaskEnds \/ RestoreVM \/ Register \/ NodeFails \/ RiskAppears \/ FenceAges
               \/ \E i \in Plans : PlanExpires(i)

Next == Requests \/ Job \/ Environment \/ Crash

Spec == Init /\ [][Next]_vars
-----------------------------------------------------------------------------
(* Properties. *)

\* The child plan has allocated a machine.
Allocated(c) == child[c] \notin {"none", "planned"}

\* The durable records, the runner's copy and the world stay in their types.
TypeOK ==
    /\ \A i \in Plans : plans[i] = NoPlan \/ plans[i] \in Plan
    /\ \A i \in Plans : successor[i] = NoPlan \/ successor[i] \in Plan
    /\ child \in [Plans -> {"none", "planned", "created", "configured", "ready"}]
    /\ queued \subseteq ran /\ ran \subseteq Plans /\ Cardinality(queued) <= 1
    /\ run = Idle \/ (run.id \in Plans /\ run.p \in Plan)
    /\ vm \in {"running", "stopped", "deleting", "gone"} /\ task \in {"none", "running", "ok", "failed"}
    /\ destroys \in [Plans -> Nat] /\ reused \in Plans \cup {0} /\ back \in {"no", "recent", "old"}
    /\ node \in {"old", "none", "new"} /\ ready \in BOOLEAN /\ impact \in 0..2
    /\ record \in {"ready", "deleted"} /\ overlooked \in BOOLEAN /\ faults \in 0..MaxFaults

\* Through crashes, lost answers, failed saves and continuations a reviewed plan requests the
\* destruction of the old VM at most once (replacementFence only revalidates a fence that was
\* tried).
DestroyedOnce == \A c \in Plans : destroys[c] <= 1

\* Two plans that are not continuations of one another both request the destruction, or both
\* allocate a machine, only if one was accepted while the successor of an interrupted plan was
\* not published (PlanReplacement refuses over unresolved plans, and looks at no others).
OnlyOneActs ==
    ~overlooked => \A c, d \in Plans :
        (destroys[c] > 0 /\ destroys[d] > 0) \/ (Allocated(c) /\ Allocated(d)) => c = d

\* Whatever was done to the worker is known to a durable record that a later plan finds: the
\* flags are saved before the call they announce (replacementStep before every mutation).
EffectsAreRecorded ==
    /\ \A c \in Plans : destroys[c] > 0 =>
          \E i \in Plans : Exists(i) /\ plans[i].child = c /\ plans[i].tried /\ plans[i].effects
    /\ node # "old" => \E i \in Plans : Exists(i) /\ plans[i].nodeStarted /\ plans[i].tried
    /\ \A c \in Plans : Allocated(c) =>
          \E i \in Plans : Exists(i) /\ plans[i].child = c /\ plans[i].childStarted

\* A plan that is reported successful has fenced the VM, removed the pinned Node and made its
\* own replacement Ready (RunReplacement's closing checks).
ReplacementIsDone ==
    \A i \in Plans : Exists(i) /\ plans[i].status = "succeeded" =>
        task = "ok" /\ node # "old" /\ child[plans[i].child] = "ready" /\ record = "deleted"

\* An interrupted plan has one successor, the one its own record names: a crash between the two
\* saves of PlanReplacementResume brings back the same plan and never a second one.
OneSuccessor ==
    \A j \in Plans : Exists(j) /\ plans[j].prev # 0 =>
        LET i == plans[j].prev IN plans[i].status = "superseded" /\ plans[i].succ = j

\* docs/worker-replacement.md:35 says that ambiguous intermediate states remain blocked "rather than
\* allocating another replacement": the worker is replaced by one new machine at most.
OneReplacement == Cardinality({c \in Plans : Allocated(c)}) <= 1

\* The Node is removed only while the VM is away, or has been back for less than the lifetime of
\* the evidence (the guard around DeleteStaleNode).
NodeOutlivesVM ==
    node = "old" /\ node' # "old" => task = "ok" /\ (vm = "gone" \/ back = "recent")
=============================================================================
