----------------------------- MODULE JobManager ------------------------------
(***************************************************************************)
(* The durable job journal of internal/jobs: one infrastructure operation  *)
(* at a time, every external command preceded by a durable intent, nothing *)
(* replayed after a restart, and every unproved outcome held back behind   *)
(* an operator's review.                                                   *)
(*                                                                         *)
(* `jobs' is Manager.jobs, `disk' the <id>.json files.  Every call that    *)
(* runs under Manager.mu is one action; an executor (the goroutine of      *)
(* Submit, or an HTTP handler under ManualContext) is cut where it gives   *)
(* the mutex up.  What the runner of a job does between two calls into the *)
(* manager is arbitrary: it may carry on after an error, and return what   *)
(* it likes.  The execution authority appears as `lease', which the next   *)
(* validation reads and which, once lost, never comes back in the same     *)
(* process (executionauthority.Client is poisoned for good).               *)
(***************************************************************************)
EXTENDS Reconcile, FiniteSets

CONSTANTS
    MaxSubmit,    \* bound: job ids are 1..MaxSubmit, in order of CreatedAt
    MaxJobs,      \* jobs.MaxJobs, the journal's capacity
    MaxIntents,   \* the limit of 256 intents per job
    MaxRestarts,  \* bound on process restarts
    Keys,         \* dedupe keys (DedupeKey together with Kind)
    NoKey,        \* DedupeKey = ""
    MachineActions, \* which of "create" and "delete" jobs perform
    WithLegacy    \* TRUE: job 1 may be a record left by an older binary

ASSUME ConstantsAssumption ==
    /\ MaxSubmit \in Nat \ {0}
    /\ MaxJobs \in Nat \ {0}
    /\ MaxIntents \in Nat
    /\ MaxRestarts \in Nat
    /\ NoKey \notin Keys
    /\ MachineActions \subseteq {"create", "delete"}
    /\ WithLegacy \in BOOLEAN

VARIABLES
    jobs,        \* Manager.jobs: what the process believes
    disk,        \* the journal files
    archive,     \* incompatible-originals/<id>.json
    active,      \* Manager.active, 0 for ""
    manual,      \* Manager.manual
    manualJob,   \* the job of the ManualContext in progress, 0 before its first command
    closed,      \* Manager.closed, set together with the cancellation of Manager.ctx
    storageErr,  \* Manager.storageErr # nil
    up,          \* a process holds the journal's lock
    lease,       \* the authority still validates this process
    pc,          \* per job: where its executor is
    res,         \* per job: the error class its runner returned
    nextId,      \* next fresh job id
    restarts,    \* restarts so far
    dispatched,  \* history: <<job, intent number>> of every call that was made
    proven,      \* history: intents that were resolved at some time
    accepted,    \* history: <<job, key>> of every keyed job that was started
    evicted,     \* history: jobs removed from the full journal
    late         \* history: calls made since the lease was lost

journal == <<jobs, disk, archive>>
control == <<active, manual, manualJob, closed, storageErr, up, lease>>
history == <<dispatched, proven, accepted, evicted, late>>
vars == <<journal, control, pc, res, nextId, restarts, history>>

JobIds   == 1..MaxSubmit
Clean    == {"succeeded", "failed", "stopped"}
Terminal == Clean \cup {"interrupted"}
Pending  == {"queued", "running"}
Results  == {"nil", "error", "stopped", "uncertain", "cancelled", "panic"}
Places   == {"idle", "spawned", "admit", "body", "guard", "call", "called", "finish"}

Job == [key      : Keys \cup {NoKey},
        status   : Terminal \cup Pending \cup {"none"},
        stop     : BOOLEAN,
        reviewed : BOOLEAN,
        outcome  : Outcomes \cup {""},
        legacy   : BOOLEAN,
        intents  : Seq(Intent)]

NewJob(k, s) == [key |-> k, status |-> s, stop |-> FALSE, reviewed |-> FALSE,
                 outcome |-> "", legacy |-> FALSE, intents |-> <<>>]

NoJob == NewJob(NoKey, "none")

Held == {j \in JobIds : jobs[j].status # "none"}

WithOutcome(r, o)   == [r EXCEPT !.outcome = o]
WithIntent(r, n, i) == [r EXCEPT !.intents = [r.intents EXCEPT ![n] = i]]

\* The record with one more intent, whose outcome is not known yet.
Appended(r, a) == [r EXCEPT !.intents = Append(r.intents, NewIntent(a)), !.outcome = Unknown]

AllResolved(r) == \A n \in 1..Len(r.intents) : Resolved(r.intents[n])

-----------------------------------------------------------------------------
(* Storage. *)

\* Manager.save: temporary file, fsync, rename, fsync of the directory.  A
\* failure leaves the old file or, when only the last fsync failed, the new.
Save(j, r, ok) ==
    IF ok THEN disk' = [disk EXCEPT ![j] = r]
          ELSE disk' \in {disk, [disk EXCEPT ![j] = r]}

\* Every caller but Submit latches a failure in Manager.storageErr.
SaveOrLatch(j, r, ok) ==
    /\ Save(j, r, ok)
    /\ storageErr' = (storageErr \/ ~ok)

\* The record of a job is changed in memory and saved.
Write(j, r, ok) == jobs' = [jobs EXCEPT ![j] = r] /\ SaveOrLatch(j, r, ok)

\* The record of a job that ends with status s.
Ended(r, s) == [r EXCEPT !.status = s,
                         !.outcome = IF s = "interrupted" THEN Unknown ELSE @]

\* Defect for mutation: only a succeeded job keeps its status on a restart.
RecoveredReopensFailed(r) ==
    IF r.status \notin {"succeeded", "none"}
    THEN [r EXCEPT !.status = "interrupted", !.outcome = Unknown] ELSE r

\* What OpenCluster makes of one journal file.
Recovered(r) ==
    LET ended == IF r.status \in Pending THEN Ended(r, "interrupted") ELSE r
    IN  IF r.legacy THEN WithOutcome(ended, RequiresReview) ELSE ended

\* Defect for mutation: every restart archives the record again.
PreservedLatest(kept, r) == IF r.legacy THEN r ELSE kept

\* preserveIncompatibleJournal: the first original stays for ever.
Preserved(kept, r) == IF r.legacy /\ kept = NoJob THEN r ELSE kept

-----------------------------------------------------------------------------
(* Admission. *)

\* Defect for mutation: the manual reservation is not consulted.
BusyWithoutManual == \/ active # 0
                     \/ \E j \in Held : jobs[j].status = "interrupted" /\ ~jobs[j].reviewed

busy == \/ active # 0
        \/ manual
        \/ \E j \in Held : jobs[j].status = "interrupted" /\ ~jobs[j].reviewed

available == up /\ ~closed /\ ~storageErr /\ ~busy

\* Defect for mutation: only a job that has not ended counts as a duplicate.
DuplicateOfPending(k) ==
    k # NoKey /\ \E j \in Held : jobs[j].key = k /\ jobs[j].status \in Pending

\* Submit of a request whose dedupe key matches a held job returns that job
\* and changes nothing.
Duplicate(k) == k # NoKey /\ \E j \in Held : jobs[j].key = k

\* The job Submit removes, with its file, to make room: the oldest one.
Evictable == IF Cardinality(Held) >= MaxJobs
             THEN {j \in Held : \A i \in Held : j <= i} ELSE {}

Without(table, S) == [j \in JobIds |-> IF j \in S THEN NoJob ELSE table[j]]

\* Submit.  The room is made before the new file is written; a failed write
\* is returned to the caller and not latched, and may leave the file behind.
Submit(k, ok) ==
    /\ available
    /\ nextId <= MaxSubmit
    /\ ~Duplicate(k)
    /\ LET j    == nextId
           r    == NewJob(k, "queued")
           room == Without(disk, Evictable)
       IN  /\ nextId' = nextId + 1
           /\ evicted' = evicted \cup Evictable
           /\ disk' \in IF ok THEN {[room EXCEPT ![j] = r]}
                              ELSE {room, [room EXCEPT ![j] = r]}
           /\ jobs' = IF ok THEN [Without(jobs, Evictable) EXCEPT ![j] = r]
                            ELSE Without(jobs, Evictable)
           /\ active' = IF ok THEN j ELSE active
           /\ pc' = IF ok THEN [pc EXCEPT ![j] = "spawned"] ELSE pc
           /\ accepted' = IF ok /\ k # NoKey THEN accepted \cup {<<j, k>>} ELSE accepted
    /\ UNCHANGED <<archive, manual, manualJob, closed, storageErr, up, lease,
                   res, restarts, dispatched, proven, late>>

\* ReserveManual.
ReserveManual ==
    /\ available
    /\ lease
    /\ manual' = TRUE
    /\ UNCHANGED <<journal, active, manualJob, closed, storageErr, up, lease,
                   pc, res, nextId, restarts, history>>

\* The first command of a ManualContext opens a "manual-command" job, without
\* making room for it.
ManualBegin(ok) ==
    /\ manual /\ manualJob = 0 /\ ~storageErr
    /\ Cardinality(Held) < MaxJobs
    /\ nextId <= MaxSubmit
    /\ LET j == nextId
           r == NewJob(NoKey, "running")
       IN  /\ nextId' = nextId + 1
           /\ SaveOrLatch(j, r, ok)
           /\ jobs' = IF ok THEN [jobs EXCEPT ![j] = r] ELSE jobs
           /\ manualJob' = IF ok THEN j ELSE 0
           /\ pc' = IF ok THEN [pc EXCEPT ![j] = "body"] ELSE pc
    /\ UNCHANGED <<archive, active, manual, closed, up, lease, res, restarts, history>>

\* finish(runErr) of ManualContext; failed says that the handler returned an
\* error or that its request was cancelled.
ManualFinish(failed, ok) ==
    /\ manualJob # 0
    /\ pc[manualJob] = "body"
    /\ LET j   == manualJob
           bad == failed \/ ~AllResolved(jobs[j])
       IN  /\ Write(j, Ended(jobs[j], IF bad THEN "interrupted" ELSE "succeeded"), ok)
           /\ pc' = [pc EXCEPT ![j] = "idle"]
    /\ UNCHANGED <<archive, active, manual, manualJob, closed, up, lease, res,
                   nextId, restarts, history>>

\* Defect for mutation: only a handler that recorded a command releases.
ManualReleaseAfterCommand ==
    /\ manual /\ manualJob # 0 /\ pc[manualJob] = "idle"
    /\ manual' = FALSE
    /\ manualJob' = 0
    /\ UNCHANGED <<journal, active, closed, storageErr, up, lease, pc, res,
                   nextId, restarts, history>>

\* The function ReserveManual returned, deferred by the handler.
ManualRelease ==
    /\ manual
    /\ manualJob # 0 => pc[manualJob] = "idle"
    /\ manual' = FALSE
    /\ manualJob' = 0
    /\ UNCHANGED <<journal, active, closed, storageErr, up, lease, pc, res,
                   nextId, restarts, history>>

-----------------------------------------------------------------------------
(* The goroutine of a submitted job. *)

\* run: the job is marked running before anything else happens.
RunStart(j, ok) ==
    /\ pc[j] = "spawned"
    /\ Write(j, [jobs[j] EXCEPT !.status = "running"], ok)
    /\ pc' = [pc EXCEPT ![j] = IF ok THEN "admit" ELSE "finish"]
    /\ res' = [res EXCEPT ![j] = IF ok THEN "nil" ELSE "error"]
    /\ UNCHANGED <<archive, active, manual, manualJob, closed, up, lease,
                   nextId, restarts, history>>

\* run: the authority is validated once before the runner is called.  With a
\* cancelled context the validation may fail although the lease is held.
RunAdmit(j) ==
    /\ pc[j] = "admit"
    /\ \/ /\ lease
          /\ pc' = [pc EXCEPT ![j] = "body"]
          /\ UNCHANGED res
       \/ /\ ~lease \/ closed
          /\ pc' = [pc EXCEPT ![j] = "finish"]
          /\ res' = [res EXCEPT ![j] = "uncertain"]
    /\ UNCHANGED <<journal, control, nextId, restarts, history>>

\* The runner returns.  ErrStopped comes only from the manager's own checks
\* (Checkpoint, BeginIntent and ValidateExecution see StopRequested).
RunnerReturns(j, r) ==
    /\ pc[j] = "body" /\ active = j
    /\ r = "stopped" => jobs[j].stop
    /\ pc' = [pc EXCEPT ![j] = "finish"]
    /\ res' = [res EXCEPT ![j] = r]
    /\ UNCHANGED <<journal, control, nextId, restarts, history>>

\* Defect for mutation: open intents do not keep a job from ending cleanly.
FinalStatusIgnoringIntents(j) ==
    IF closed \/ storageErr \/ res[j] \in {"panic", "cancelled", "uncertain"}
    THEN "interrupted"
    ELSE CASE res[j] = "stopped" -> "stopped"
           [] res[j] = "error"   -> "failed"
           [] OTHER              -> "succeeded"

\* The status the deferred function of run gives a job.
FinalStatus(j) ==
    IF \/ closed \/ storageErr
       \/ ~AllResolved(jobs[j])
       \/ res[j] \in {"panic", "cancelled", "uncertain"}
    THEN "interrupted"
    ELSE CASE res[j] = "stopped" -> "stopped"
           [] res[j] = "error"   -> "failed"
           [] OTHER              -> "succeeded"

\* Defect for mutation: a failed write returns before `active' is cleared.
CompleteKeepingActive(j, ok) ==
    /\ pc[j] = "finish"
    /\ Write(j, [jobs[j] EXCEPT !.status = IF ok THEN FinalStatus(j) ELSE "interrupted"], ok)
    /\ active' = IF ok THEN 0 ELSE active
    /\ pc' = [pc EXCEPT ![j] = "idle"]
    /\ res' = [res EXCEPT ![j] = "nil"]
    /\ UNCHANGED <<archive, manual, manualJob, closed, up, lease,
                   nextId, restarts, history>>

\* The deferred function of run.
Complete(j, ok) ==
    /\ pc[j] = "finish"
    /\ LET r == Ended(jobs[j], FinalStatus(j))
       IN  /\ SaveOrLatch(j, r, ok)
           /\ jobs' = [jobs EXCEPT ![j] = IF ok THEN r
                                          ELSE [r EXCEPT !.status = "interrupted"]]
    /\ active' = 0
    /\ pc' = [pc EXCEPT ![j] = "idle"]
    /\ res' = [res EXCEPT ![j] = "nil"]
    /\ UNCHANGED <<archive, manual, manualJob, closed, up, lease,
                   nextId, restarts, history>>

-----------------------------------------------------------------------------
(* What an executor calls on its Execution. *)

\* Log, and Checkpoint once its stop and authority checks have passed: the
\* job is written again.  (Their refusals change nothing; RunnerReturns lets
\* the runner act on them or not.)
Log(j, ok) ==
    /\ pc[j] = "body" /\ active = j
    /\ ~storageErr
    /\ Write(j, jobs[j], ok)
    /\ UNCHANGED <<archive, active, manual, manualJob, closed, up, lease,
                   pc, res, nextId, restarts, history>>

\* The context of an executor: the manager's for a job, the request's (never
\* cancelled by Close) for a manual command.
Cancelled(j) == closed /\ j # manualJob

\* Defect for mutation: the command goes out although its intent was not saved.
BeginIntentUnsaved(j, a, ok) ==
    /\ pc[j] = "body" /\ ~Cancelled(j) /\ ~jobs[j].stop /\ ~storageErr /\ lease
    /\ Len(jobs[j].intents) < MaxIntents
    /\ Write(j, Appended(jobs[j], a), ok)
    /\ pc' = [pc EXCEPT ![j] = IF a = "command" THEN "guard" ELSE "body"]
    /\ UNCHANGED <<archive, active, manual, manualJob, closed, up, lease, res,
                   nextId, restarts, history>>

\* BeginIntent: refused to a stopped job, after a storage failure, over the
\* limit, and without authority; otherwise the intent is appended and saved.
\* A failed save keeps the intent in memory.
BeginIntent(j, a, ok) ==
    /\ pc[j] = "body"
    /\ ~Cancelled(j)
    /\ ~jobs[j].stop
    /\ ~storageErr
    /\ Len(jobs[j].intents) < MaxIntents
    /\ lease
    /\ Write(j, Appended(jobs[j], a), ok)
    /\ pc' = [pc EXCEPT ![j] = IF a = "command" /\ ok THEN "guard" ELSE "body"]
    /\ UNCHANGED <<archive, active, manual, manualJob, closed, up, lease, res,
                   nextId, restarts, history>>

\* beginMachineIntent: only jobs create or delete machines.
BeginMachine(j, a, ok) == active = j /\ BeginIntent(j, a, ok)

\* RecordMutation up to BeginIntent: a command is refused while an earlier one
\* has no receipt.  Only this executor appends intents or writes receipts, so
\* the check and BeginIntent form one step.
BeginCommand(j, ok) ==
    /\ \A n \in 1..Len(jobs[j].intents) :
          jobs[j].intents[n].action = "command" => CommandReceipt(jobs[j].intents[n])
    /\ BeginIntent(j, "command", ok)

\* The three validations between the durable intent and the call (the end of
\* BeginIntent, CheckMutation, validateAuthority).  Each can only fail for
\* good, so the last one decides.
Guard(j) ==
    /\ pc[j] = "guard"
    /\ pc' = [pc EXCEPT ![j] = IF lease /\ ~Cancelled(j) THEN "call" ELSE "body"]
    /\ UNCHANGED <<journal, control, res, nextId, restarts, history>>

\* call() sends the request.
Call(j) ==
    /\ pc[j] = "call"
    /\ dispatched' = dispatched \cup {<<j, Len(jobs[j].intents)>>}
    /\ late' = IF lease THEN late ELSE late + 1
    /\ pc' = [pc EXCEPT ![j] = "called"]
    /\ UNCHANGED <<journal, control, res, nextId, restarts, proven, accepted, evicted>>

\* call() returns an error that proves nothing, or the receipt finds the
\* journal unavailable: the intent stays UNKNOWN.
CallUnproved(j) ==
    /\ pc[j] = "called"
    /\ pc' = [pc EXCEPT ![j] = "body"]
    /\ UNCHANGED <<journal, control, res, nextId, restarts, history>>

\* The record with a receipt for its last intent.
Receipted(r, receipt) ==
    LET n == Len(r.intents)
        i == [r.intents[n] EXCEPT
                !.outcome  = IF receipt = "acknowledged" THEN Succeeded ELSE Failed,
                !.evidence = receipt]
        s == WithIntent(r, n, i)
    IN  WithOutcome(s, IF AllResolved(s) THEN Succeeded ELSE Unknown)

\* call() returns success or a conclusive rejection, and the receipt is saved.
CallReceipt(j, receipt, ok) ==
    /\ pc[j] = "called"
    /\ ~storageErr
    /\ Write(j, Receipted(jobs[j], receipt), ok)
    /\ proven' = proven \cup {<<j, Len(jobs[j].intents)>>}
    /\ pc' = [pc EXCEPT ![j] = "body"]
    /\ UNCHANGED <<archive, active, manual, manualJob, closed, up, lease, res,
                   nextId, restarts, dispatched, accepted, evicted, late>>

-----------------------------------------------------------------------------
(* Observations. *)

\* Defect for mutation: the job takes the verdict of the intent last observed.
ObservedAlone(r, n, o) ==
    LET verdict == Evaluate(r.intents[n], o, ~r.legacy)
    IN  [r EXCEPT !.intents = [@ EXCEPT ![n] = [@ EXCEPT !.outcome = verdict, !.evidence = "observed"]],
                  !.outcome = verdict]

\* The record with the verdict on one intent, and the outcome of the job from
\* the verdicts on all of them.
Observed(r, n, o) ==
    LET verdict == Evaluate(r.intents[n], o, ~r.legacy)
        i == [r.intents[n] EXCEPT !.outcome = verdict, !.evidence = "observed"]
        s == WithIntent(r, n, i)
        open == \E m \in 1..Len(s.intents) : s.intents[m].outcome \in {Unknown, RequiresReview}
    IN  WithOutcome(s, IF open THEN RequiresReview ELSE verdict)

\* Manager.ObserveIntent.
ObserveIntent(j, n, o, ok) ==
    /\ ~storageErr
    /\ LET r == Observed(jobs[j], n, o)
       IN  /\ Write(j, r, ok)
           /\ proven' = IF Resolved(r.intents[n]) THEN proven \cup {<<j, n>>} ELSE proven
    /\ UNCHANGED <<archive, active, manual, manualJob, closed, up, lease, pc, res,
                   nextId, restarts, dispatched, accepted, evicted, late>>

\* proveMachineIntent: the executor has verified the machine it was to create
\* or delete, whose provider task was started by an acknowledged command.  The
\* observation is of the intent's own identity; the clock may have been set
\* back since the intent was written.
Prove(j, n, timely, ok) ==
    /\ pc[j] = "body"
    /\ jobs[j].intents[n].action \in {"create", "delete"}
    /\ \E m \in (n + 1)..Len(jobs[j].intents) : jobs[j].intents[m].evidence = "acknowledged"
    /\ ObserveIntent(j, n, [state        |-> DesiredState(jobs[j].intents[n].action),
                            sameIdentity |-> TRUE,
                            timely       |-> timely], ok)

\* The observations ReconcileJob makes of an intent: commands without a
\* receipt and deletes stay unknown, a create is looked up at the provider.
\* Evidence of a completed delete is not touched again.
ReconcileStates(i) ==
    CASE i.action = "command" -> IF CommandReceipt(i) THEN {} ELSE {"unknown"}
      [] i.action = "delete"  -> IF i.outcome = Succeeded THEN {} ELSE {"unknown"}
      [] OTHER                -> {"exists", "unknown"}

\* ReconcileJob on one intent of a job that no executor works on.
Reconcile(j, n, state, ok) ==
    /\ up
    /\ jobs[j].status \in Terminal
    /\ state \in ReconcileStates(jobs[j].intents[n])
    /\ ObserveIntent(j, n, [state |-> state, sameIdentity |-> TRUE, timely |-> TRUE], ok)

\* ReviewCommands: a job of opaque commands is only marked for review.
ReviewCommands(j, ok) ==
    /\ up
    /\ jobs[j].status \in Terminal
    /\ jobs[j].intents # <<>>
    /\ \A n \in 1..Len(jobs[j].intents) : jobs[j].intents[n].action = "command"
    /\ Write(j, WithOutcome(jobs[j], RequiresReview), ok)
    /\ UNCHANGED <<archive, active, manual, manualJob, closed, up, lease, pc, res,
                   nextId, restarts, history>>

-----------------------------------------------------------------------------
(* Operators and the process. *)

\* Defect for mutation: the request to stop is kept in the status.
StopAsStatus(j, ok) ==
    /\ up
    /\ jobs[j].status \in Pending
    /\ Write(j, [jobs[j] EXCEPT !.status = "stopping"], ok)
    /\ UNCHANGED <<archive, active, manual, manualJob, closed, up, lease, pc, res,
                   nextId, restarts, history>>

\* Stop: the job goes on until its executor looks at the flag.
Stop(j, ok) ==
    /\ up
    /\ jobs[j].status \in Pending
    /\ Write(j, [jobs[j] EXCEPT !.stop = TRUE], ok)
    /\ UNCHANGED <<archive, active, manual, manualJob, closed, up, lease, pc, res,
                   nextId, restarts, history>>

\* Defect for mutation: a review that could not be saved is not latched.
AcknowledgeUnlatched(j, ok) ==
    /\ up
    /\ jobs[j].status = "interrupted"
    /\ LET r == [jobs[j] EXCEPT !.reviewed = TRUE]
       IN  jobs' = [jobs EXCEPT ![j] = r] /\ Save(j, r, ok)
    /\ UNCHANGED <<archive, active, manual, manualJob, closed, storageErr, up, lease,
                   pc, res, nextId, restarts, history>>

\* Acknowledge: the review counts in memory even when it could not be saved.
Acknowledge(j, ok) ==
    /\ up
    /\ jobs[j].status = "interrupted"
    /\ Write(j, [jobs[j] EXCEPT !.reviewed = TRUE], ok)
    /\ UNCHANGED <<archive, active, manual, manualJob, closed, up, lease, pc, res,
                   nextId, restarts, history>>

\* The first half of Close; the process ends in Crash.
Close ==
    /\ up /\ ~closed
    /\ closed' = TRUE
    /\ UNCHANGED <<journal, active, manual, manualJob, storageErr, up, lease,
                   pc, res, nextId, restarts, history>>

\* Defect for mutation: a failed validation does not poison the client.
LeaseFlickers ==
    /\ up
    /\ lease' = ~lease
    /\ UNCHANGED <<journal, active, manual, manualJob, closed, storageErr, up,
                   pc, res, nextId, restarts, history>>

\* A validation fails (lost connection, superseded epoch, deadline) and the
\* client stays poisoned.
LoseLease ==
    /\ up /\ lease
    /\ lease' = FALSE
    /\ UNCHANGED <<journal, active, manual, manualJob, closed, storageErr, up,
                   pc, res, nextId, restarts, history>>

\* The process ends, in order or not: only the files remain.
Crash ==
    /\ up /\ restarts < MaxRestarts
    /\ up' = FALSE
    /\ restarts' = restarts + 1
    /\ jobs' = [j \in JobIds |-> NoJob]
    /\ active' = 0 /\ manual' = FALSE /\ manualJob' = 0
    /\ closed' = FALSE /\ storageErr' = FALSE /\ lease' = FALSE
    /\ pc' = [j \in JobIds |-> "idle"]
    /\ res' = [j \in JobIds |-> "nil"]
    /\ UNCHANGED <<disk, archive, nextId, history>>

\* OpenCluster in a new process, with or without a fresh lease.  A failed open
\* leaves only records that the next open recovers to the same result.
Open ==
    /\ ~up
    /\ up' = TRUE
    /\ lease' \in BOOLEAN
    /\ archive' = [j \in JobIds |-> Preserved(archive[j], disk[j])]
    /\ disk' = [j \in JobIds |-> Recovered(disk[j])]
    /\ jobs' = disk'
    /\ late' = 0
    /\ UNCHANGED <<active, manual, manualJob, closed, storageErr, pc, res, nextId,
                   restarts, dispatched, proven, accepted, evicted>>

-----------------------------------------------------------------------------

\* Journals a newly installed binary can meet: none, or one record written by
\* a binary with other workflow versions, with or without an open intent.
LegacyJobs ==
    {[NewJob(NoKey, s) EXCEPT !.legacy = TRUE, !.outcome = Unknown, !.intents = i] :
        s \in {"running", "interrupted"}, i \in {<<>>, <<NewIntent("create")>>}}

Init ==
    /\ \/ disk = [j \in JobIds |-> NoJob] /\ nextId = 1
       \/ WithLegacy /\ nextId = 2 /\
          \E r \in LegacyJobs : disk = [j \in JobIds |-> IF j = 1 THEN r ELSE NoJob]
    /\ jobs = [j \in JobIds |-> NoJob]
    /\ archive = [j \in JobIds |-> NoJob]
    /\ active = 0 /\ manual = FALSE /\ manualJob = 0
    /\ closed = FALSE /\ storageErr = FALSE /\ up = FALSE /\ lease = FALSE
    /\ pc = [j \in JobIds |-> "idle"]
    /\ res = [j \in JobIds |-> "nil"]
    /\ restarts = 0
    /\ dispatched = {} /\ proven = {} /\ accepted = {} /\ evicted = {} /\ late = 0

\* One step of the executor of job j.
Execute(j, ok) ==
    \/ RunStart(j, ok)
    \/ RunAdmit(j)
    \/ \E r \in Results : RunnerReturns(j, r)
    \/ Complete(j, ok)
    \/ Log(j, ok)
    \/ BeginCommand(j, ok)
    \/ \E a \in MachineActions : BeginMachine(j, a, ok)
    \/ Guard(j)
    \/ Call(j)
    \/ CallUnproved(j)
    \/ \E receipt \in {"acknowledged", "rejected"} : CallReceipt(j, receipt, ok)
    \/ \E n \in 1..Len(jobs[j].intents), timely \in BOOLEAN : Prove(j, n, timely, ok)

\* One request of an operator about job j.
Operate(j, ok) ==
    \/ Stop(j, ok)
    \/ Acknowledge(j, ok)
    \/ ReviewCommands(j, ok)
    \/ \E n \in 1..Len(jobs[j].intents), s \in {"exists", "unknown"} : Reconcile(j, n, s, ok)

Admit(ok) ==
    \/ \E k \in Keys \cup {NoKey} : Submit(k, ok)
    \/ ReserveManual
    \/ ManualBegin(ok)
    \/ \E failed \in BOOLEAN : ManualFinish(failed, ok)
    \/ ManualRelease

Process == Close \/ LoseLease \/ Crash \/ Open

Next == \/ \E ok \in BOOLEAN : Admit(ok)
        \/ \E j \in JobIds, ok \in BOOLEAN : Execute(j, ok)
        \/ \E j \in JobIds, ok \in BOOLEAN : Operate(j, ok)
        \/ Process

Spec == Init /\ [][Next]_vars

\* Scheduling: the goroutine of a job runs, a call returns (every client call
\* has a deadline) and the runner returns (run gives it four hours).  An HTTP
\* handler returns and releases its reservation.
RunProgress(j, ok) ==
    \/ RunStart(j, ok) \/ RunAdmit(j) \/ Complete(j, ok)
    \/ \E r \in Results : RunnerReturns(j, r)
    \/ Guard(j) \/ Call(j) \/ CallUnproved(j)

HandlerProgress(ok) == ManualFinish(TRUE, ok) \/ ManualRelease

Fairness ==
    /\ \A j \in JobIds : WF_vars(\E ok \in BOOLEAN : RunProgress(j, ok))
    /\ WF_vars(\E ok \in BOOLEAN : HandlerProgress(ok))

FairSpec == Spec /\ Fairness

-----------------------------------------------------------------------------
(* Properties. *)

\* Every variable has the shape the code gives it.
TypeOK ==
    /\ jobs \in [JobIds -> Job]
    /\ disk \in [JobIds -> Job]
    /\ archive \in [JobIds -> Job]
    /\ active \in JobIds \cup {0}
    /\ manual \in BOOLEAN
    /\ manualJob \in JobIds \cup {0}
    /\ closed \in BOOLEAN
    /\ storageErr \in BOOLEAN
    /\ up \in BOOLEAN
    /\ lease \in BOOLEAN
    /\ pc \in [JobIds -> Places]
    /\ res \in [JobIds -> Results]
    /\ nextId \in 1..(MaxSubmit + 1)
    /\ restarts \in 0..MaxRestarts
    /\ dispatched \subseteq JobIds \X Nat
    /\ proven \subseteq JobIds \X Nat
    /\ accepted \subseteq JobIds \X Keys
    /\ evicted \subseteq JobIds
    /\ late \in Nat

\* At most one executor exists, and it is the one `active' or the manual
\* reservation stands for ("one background change of the cluster at a time").
OneExecutor ==
    /\ \A j \in JobIds : pc[j] # "idle" => j = active \/ (manual /\ j = manualJob)
    /\ ~(active # 0 /\ manual)

\* A call was only ever made for a command whose intent is in the journal
\* file: no crash, failed write or lost lease can forget that it was sent.
CallsAreJournalled ==
    \A d \in dispatched :
        d[1] \in evicted \/
        (d[2] \in 1..Len(disk[d[1]].intents) /\ disk[d[1]].intents[d[2]].action = "command")

\* A job that reads succeeded, failed or stopped, in memory or on disk, has had
\* every one of its intents proved; anything else is interrupted for review.
CleanMeansProved ==
    \A j \in JobIds : \A r \in {jobs[j], disk[j]} :
        r.status \in Clean => \A n \in 1..Len(r.intents) : <<j, n>> \in proven

\* While a command is being sent, every other job that sent a command whose
\* outcome was never proved has been reviewed, and the review is on disk.
UnprovedIsReviewedFirst ==
    \A k \in JobIds : pc[k] \in {"guard", "call", "called"} =>
        \A d \in dispatched \ proven :
            d[1] = k \/ d[1] \in evicted \/ disk[d[1]].reviewed

\* A reconciliation outcome of "succeeded" is never shown over an intent whose
\* own verdict is open.
ReconciledMeansProved ==
    \A j \in JobIds : \A r \in {jobs[j], disk[j]} :
        r.outcome = Succeeded => AllResolved(r)

\* A lost lease lets at most the one call through whose last validation had
\* already succeeded.
AtMostOneLateCall == late <= 1

\* A dedupe key starts one job, across restarts, failed writes and reviews,
\* as long as the journal still holds the job it started.
KeyStartsOnce ==
    \A a, b \in accepted : a[2] = b[2] /\ a[1] < b[1] => a[1] \in evicted

\* A record written by an incompatible binary stays under review once opened,
\* whatever is observed about its intents, and its first form is archived.
LegacyQuarantined ==
    up => \A j \in JobIds : disk[j].legacy =>
        /\ jobs[j].outcome = RequiresReview
        /\ archive[j].legacy /\ archive[j].outcome = Unknown

\* "A stop/authority failure in the durable-write window blocks the call": no
\* call is made for a job that has been asked to stop.
StopBlocksCall ==
    [][\A d \in dispatched' \ dispatched : ~jobs[d[1]].stop]_vars

\* As long as the journal can be written, a terminal status in it is final and
\* a review is never taken back; the record goes only when it is evicted.
TerminalIsFinal ==
    [][\A j \in JobIds :
          ~storageErr /\ disk[j].status \in Terminal =>
             \/ disk'[j].status = disk[j].status /\ (disk[j].reviewed => disk'[j].reviewed)
             \/ disk'[j] = NoJob /\ j \in evicted' \ evicted]_vars

\* Every started job comes to an end or the process does.
JobEnds == \A j \in JobIds : (active = j) ~> (active # j)

\* Admission opens again unless the journal failed, the manager was closed, or
\* a job waits for its review.
AdmissionReopens ==
    up ~> \/ available \/ ~up \/ closed \/ storageErr
          \/ \E j \in Held : jobs[j].status = "interrupted" /\ ~jobs[j].reviewed
==============================================================================
