--------------------------- MODULE ConfigRevisions --------------------------
(***************************************************************************)
(* Machine configuration changes of one node: a plan pins what the node    *)
(* runs and what it shall run, a job compares, applies and verifies        *)
(* (internal/operations/config.go, internal/talos/config_apply.go,         *)
(* internal/api/config.go and the revisions of internal/clusters/store.go).*)
(*                                                                         *)
(* Revisions are numbered in the order they are saved.  The job journal    *)
(* runs one job at a time (JobManager).  The node and the people who edit  *)
(* it with other tools are the environment.  Failing calls and saves,      *)
(* expiries, foreign edits and crashes draw on MaxFaults.                  *)
(***************************************************************************)
EXTENDS Naturals, FiniteSets

CONSTANTS Configs,     \* canonical machine configurations
          Revs,        \* 1..n
          MaxFaults

VARIABLES revs,        \* [Revs -> NoRev or Revision], durable
          expired,     \* plans older than 30 minutes
          draft,       \* a plan request between reading the node and saving, or NoDraft
          job,         \* the config-apply or config-restore job, or Idle
          active,      \* what the node runs
          pending,     \* what it was told to run: [cfg, booting], or NoPending
          applies,     \* history: [Revs -> apply requests that left]
          accepted,    \* history: [Revs -> the node answered that it took it]
          ran,         \* history: [Revs -> the node ran it after its apply]
          drift,       \* history: the node was edited since the job compared
          faults

node == <<active, pending>>
history == <<applies, accepted, ran, drift>>
vars == <<revs, expired, draft, job, node, history, faults>>

NoRev == [status |-> "none"]
NoDraft == [cfg |-> "none"]
NoPending == [cfg |-> "none", booting |-> FALSE]
Idle == [pc |-> "idle"]
Modes == {"auto", "reboot", "staged"}
Statuses == {"planned", "running", "succeeded", "staged", "failed", "interrupted"}
Revision == [status : Statuses, mode : Modes, before : Configs, after : Configs]

Init == /\ revs = [r \in Revs |-> NoRev] /\ expired = {} /\ draft = NoDraft /\ job = Idle
        /\ active \in Configs /\ pending = NoPending
        /\ applies = [r \in Revs |-> 0] /\ accepted = {} /\ ran = {} /\ drift = FALSE
        /\ faults = 0

Fault == faults < MaxFaults /\ faults' = faults + 1
NoFault == UNCHANGED faults
Saved == {r \in Revs : revs[r] # NoRev}
NextRev == Cardinality(Saved) + 1
Add(fs, rev) == [fs EXCEPT ![Cardinality({r \in Revs : fs[r] # NoRev}) + 1] = rev]
At(pc) == job.pc = pc
Goto(pc) == job' = [job EXCEPT !.pc = pc]
Status(r, s) == revs' = [revs EXCEPT ![r].status = s]

-----------------------------------------------------------------------------
(* Plans. *)

\* Plan: a patch turns the active configuration into another valid one that the node's
\* dry run accepts.
Plan(after, mode) ==
    /\ draft = NoDraft /\ after # active
    /\ draft' = [cfg |-> after, before |-> active, mode |-> mode]
    /\ UNCHANGED <<revs, expired, job, node, history, faults>>

\* RestorePlan: the same, towards a revision that was applied.
RestorePlan(r, mode) ==
    /\ draft = NoDraft /\ revs[r] # NoRev /\ revs[r].status \in {"succeeded", "staged"}
    /\ revs[r].after # active
    /\ draft' = [cfg |-> revs[r].after, before |-> active, mode |-> mode]
    /\ UNCHANGED <<revs, expired, job, node, history, faults>>

Baseline == [status |-> "succeeded", mode |-> "auto", before |-> draft.before, after |-> draft.before]
Planned == [status |-> "planned", mode |-> draft.mode, before |-> draft.before, after |-> draft.cfg]

\* The end of makePlan: the first plan of a node is preceded by a baseline; either save may fail.
MakePlan ==
    /\ draft # NoDraft /\ draft' = NoDraft
    /\ \E done \in (IF Saved = {} THEN {0, 1, 2} ELSE {0, 2}) :
          LET based == IF Saved = {} /\ done > 0 THEN Add(revs, Baseline) ELSE revs
          IN /\ NextRev + (IF Saved = {} THEN 1 ELSE 0) \in Revs
             /\ revs' = IF done = 2 THEN Add(based, Planned) ELSE based
             /\ IF done = 2 THEN NoFault ELSE Fault
             /\ ran' = IF Saved = {} /\ done > 0 THEN {1} ELSE ran
    /\ UNCHANGED <<expired, job, node, applies, accepted, drift>>

Expire(r) ==
    /\ revs[r] # NoRev /\ revs[r].status = "planned" /\ r \notin expired /\ Fault
    /\ expired' = expired \cup {r}
    /\ UNCHANGED <<revs, draft, job, node, history>>

Fresh(r) == revs[r] # NoRev /\ revs[r].status = "planned" /\ r \notin expired

\* Request and Submit.
Request(r) ==
    /\ Fresh(r) /\ job = Idle
    /\ job' = [pc |-> "check", rev |-> r, err |-> "none"]
    /\ UNCHANGED <<revs, expired, draft, node, history, faults>>

-----------------------------------------------------------------------------
(* The job. *)

Rev == revs[job.rev]

\* Mutant: the plan is not compared with the node.
CheckNothing ==
    /\ At("check") /\ (IF Fresh(job.rev) THEN Goto("mark") ELSE job' = Idle)
    /\ drift' = FALSE
    /\ UNCHANGED <<revs, expired, draft, node, applies, accepted, ran, faults>>

\* Run up to the dry run: the node must still run what the plan was made from.
Check ==
    /\ At("check")
    /\ IF Fresh(job.rev) /\ active = Rev.before THEN Goto("mark") ELSE job' = Idle
    /\ drift' = FALSE
    /\ UNCHANGED <<revs, expired, draft, node, applies, accepted, ran, faults>>

\* Mutant: the plan is marked once the node has answered.
MarkRunningLater ==
    /\ At("mark") /\ Goto("apply")
    /\ UNCHANGED <<revs, expired, draft, node, history, faults>>

\* The status is durable before anything is applied.
MarkRunning ==
    /\ At("mark")
    /\ \/ Status(job.rev, "running") /\ Goto("apply") /\ NoFault
       \/ Fault /\ job' = Idle /\ UNCHANGED revs
    /\ UNCHANGED <<expired, draft, node, history>>

\* ApplyNodeConfig: reboot is staging and an explicit reboot.  An error after the request
\* left says nothing about the node.
ApplyNodeConfig ==
    /\ At("apply")
    /\ applies' = [applies EXCEPT ![job.rev] = @ + 1]
    /\ \/ /\ pending' = [cfg |-> Rev.after, booting |-> Rev.mode # "staged"]
          /\ accepted' = accepted \cup {job.rev} /\ NoFault
          /\ Goto(IF Rev.mode = "staged" THEN "log" ELSE "verify")
       \/ /\ Fault /\ job' = [job EXCEPT !.pc = "end", !.err = "uncertain"] /\ UNCHANGED accepted
          /\ pending' \in {pending, [cfg |-> Rev.after, booting |-> Rev.mode = "auto"]}
    /\ ran' = IF active = Rev.after THEN ran \cup {job.rev} ELSE ran
    /\ UNCHANGED <<revs, expired, draft, active, drift>>

\* Mutant: an accepted request is success.
VerifyNothing ==
    /\ At("verify") /\ Goto("log")
    /\ UNCHANGED <<revs, expired, draft, node, history, faults>>

\* The polling loop and its deadline.
Verify ==
    /\ At("verify")
    /\ \/ active = Rev.after /\ Goto("log") /\ NoFault
       \/ Fault /\ job' = [job EXCEPT !.pc = "end", !.err = "uncertain"]
    /\ UNCHANGED <<revs, expired, draft, node, history>>

LogComplete ==
    /\ At("log")
    /\ \/ Goto("end") /\ NoFault
       \/ Fault /\ job' = [job EXCEPT !.pc = "end", !.err = "failed"]
    /\ UNCHANGED <<revs, expired, draft, node, history>>

Outcome == CASE job.err = "uncertain" -> "interrupted"
             [] job.err = "failed" -> "failed"
             [] OTHER -> IF Rev.mode = "staged" THEN "staged" ELSE "succeeded"

\* The deferred function; a result that cannot be saved leaves the revision running.
Finish ==
    /\ At("end") /\ job' = Idle
    /\ \/ Status(job.rev, Outcome) /\ NoFault
       \/ Fault /\ UNCHANGED revs
    /\ UNCHANGED <<expired, draft, node, history>>

-----------------------------------------------------------------------------
(* Crash and restart, and the node. *)

\* interruptRevisions, when the registry is opened.
InterruptRevisions ==
    [r \in Revs |-> IF revs[r] # NoRev /\ revs[r].status = "running"
                    THEN [revs[r] EXCEPT !.status = "interrupted"] ELSE revs[r]]

Restart ==
    /\ Fault /\ job' = Idle /\ draft' = NoDraft
    /\ revs' = InterruptRevisions
    /\ UNCHANGED <<expired, node, history>>

\* Revisions of the job at work, or of the staged ones before it, whose content the node now runs.
Ran(cfg) == {r \in Saved : applies[r] > 0 /\ revs[r].after = cfg}

Activate ==
    /\ pending.booting
    /\ active' = pending.cfg /\ pending' = NoPending /\ ran' = ran \cup Ran(pending.cfg)
    /\ drift' = (drift \/ active # pending.cfg)
    /\ UNCHANGED <<revs, expired, draft, job, applies, accepted, faults>>

Reboot ==
    /\ pending # NoPending /\ ~pending.booting /\ Fault
    /\ pending' = [pending EXCEPT !.booting = TRUE]
    /\ UNCHANGED <<revs, expired, draft, job, active, history>>

EditNode(c) ==
    /\ c # active /\ Fault
    /\ active' = c /\ drift' = TRUE /\ ran' = ran \cup Ran(c)
    /\ UNCHANGED <<revs, expired, draft, job, pending, applies, accepted>>

Next == \/ \E c \in Configs, m \in Modes : Plan(c, m)
        \/ \E r \in Revs, m \in Modes : RestorePlan(r, m)
        \/ MakePlan
        \/ \E r \in Revs : Expire(r)
        \/ \E r \in Revs : Request(r)
        \/ Check \/ MarkRunning \/ ApplyNodeConfig \/ Verify \/ LogComplete \/ Finish
        \/ Restart \/ Activate \/ Reboot
        \/ \E c \in Configs : EditNode(c)

Spec == Init /\ [][Next]_vars

-----------------------------------------------------------------------------
(* Properties. *)

\* Well-typed states: every saved revision is complete, and plans that expired were saved.
TypeOK ==
    /\ \A r \in Revs : revs[r] = NoRev \/ revs[r] \in Revision
    /\ Saved = 1..Cardinality(Saved) /\ expired \subseteq Saved
    /\ active \in Configs /\ pending.cfg \in Configs \cup {"none"}
    /\ job = Idle \/ job.rev \in Saved
    /\ faults \in 0..MaxFaults

\* A reviewed plan is applied at most once, whatever fails, whoever repeats the request and
\* wherever the process dies (Run and UpdateRevisionStatus): the node may have moved on.
AppliedOnce == \A r \in Revs : applies[r] <= 1

\* A revision that reads succeeded is one the node ran after it was applied (or the baseline it
\* was running), and one that reads staged is one the node said it took: RestorePlan goes back
\* to nothing else.
AppliedIsProved ==
    \A r \in Saved : /\ revs[r].status = "succeeded" => r \in ran
                     /\ revs[r].status = "staged" => r \in accepted

\* An apply replaces the configuration the reviewed plan was made from, unless the node was
\* changed by somebody else after this very execution had compared it: the window between the
\* comparison and the apply in Run is the only one.
ReplacesReviewed ==
    applies' # applies => (active = Rev.before \/ drift)
=============================================================================
