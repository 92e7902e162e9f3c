# TalosDeck: models, checks and proofs

TalosDeck (`src/`) is a Go server that manages fleets of Talos Linux
Kubernetes clusters: it upgrades nodes, provisions and replaces machines on
Proxmox, backs up and restores etcd, edits machine configurations, watches
health and sends alerts. Every one of these changes something outside the
process that cannot be undone or even observed with certainty. Its correctness
rests on a small core of durable bookkeeping: one operation at a time, an
intent on disk before each external command, no replay after a restart, review
by an operator of everything unproved, and an independent authority that
allows one management process to execute at all.

This directory holds TLA+ modules translated from that code, the TLC
configurations that check them on small instances, and TLAPS proofs of the
properties that matter most for every value of the constants.

## 1. Inventory

| Component (source) | State | Operations | Interacts with | What is hard | What makes it correct |
|---|---|---|---|---|---|
| **Job journal** (`internal/jobs`) | `Manager.jobs`, one JSON file per job, `active`, `manual`, `storageErr`, `closed` | Submit, ReserveManual/ManualContext, run, Checkpoint/Log, BeginIntent, RecordMutation, ObserveIntent, ReviewCommands, Stop, Acknowledge, Close, OpenCluster | HTTP handlers, scheduler, runners, authority | crash between intent, call and receipt; save that fails after its rename; stop, review and reconciliation interleaved with the runner | one executor; every call journalled; unproved calls reviewed first; clean status only with proof; a dedupe key starts once |
| **Reconciliation** (`internal/reconcile`) | intents, evidence | Evaluate, CommandReceipt, mutation guard | journal, providers | clock set back, foreign identity, absence of data | only a timely observation of the exact identity proves |
| **Execution authority** (`internal/executionauthority`) | lock file (inode, flock), epoch file, session; client with one exchange | Serve, OpenSSH, Validate, poison, Close | process start, journal | lock file replaced under a stalled session, crash between grant and record, stale copies of the data directory | one valid lease; no epoch twice; one executor; stale directories refused |
| **Process start and recovery** (`cmd/talosdeck`, `internal/recovery`) | `execution-authority.json`, safe-mode marker, archives | executionPolicy, recordExecutionEpoch, Create, Restore, activate, automation | authority, registry | crash at each step of restore and activation | safe mode until activated; expected epoch chosen by a person |
| **Worker replacement** (`operations/workerreplacement.go`, `proxmox/worker_fencing.go`) | replacement plan with started/done flags and fencing evidence, successor state | Plan, Approve, Run (drain, fence, delete Node, create, verify), PlanReplacementResume | journal, Proxmox, Kubernetes, provisioning | interruption at every step, evidence that expires, a plan resumed by another plan | one destruction; Node deleted only after fresh fencing; every effect on record; success means done |
| **Node evacuation** (`k8s/replacement*.go`, drain of `k8s/client.go`) | none of its own; a reviewed report | ReplacementImpact, CordonAndDrainReplacement, VerifyReplacementWorkloads | replacement, Kubernetes | lists read one after the other while Pods move; names reused by new Pods; evictions that take effect later | nothing unreviewed destroyed; only checked Pods evicted; the drained node is empty |
| **Provisioning** (`operations/provision*.go`, `proxmox/provider.go`) | provider, plan and machine records | SaveProvider, DeleteProvider, Plan, Run for create, add, delete and cleanup, reconcile at start | journal, Proxmox, Talos, registry | lost answers to creations, VMIDs reused by others, cleanup after a crash | nothing orphaned, nothing foreign deleted, a plan runs once |
| **Rollouts** (`operations/service.go`, `runner.go`) | none of its own | Preflight, Run | journal, talosctl, etcd, Kubernetes | health changes between preflight and step; a node left behind by a crash; stop while a node is away | one node at a time, quorum kept, a node left drained is under review, success means done |
| **Configuration revisions** (`operations/config.go`) | revisions in the registry | Plan, RestorePlan, Run, interruptRevisions | journal, registry, Talos | configuration changed since the plan; crash around the apply | applied once and over the reviewed base; unproved never shown as succeeded |
| **Backups** (`operations/backup_*.go`, `internal/backup`) | files, remote records, schedule, restore plan | SaveTarget, SaveSchedule, scheduleDue, Run, Delete, prune, restore | journal, S3, registry, Talos | crash between submit and advancing the schedule, failed uploads, target changed during an upload, interrupted restore | one backup per due time; retention keeps the newest; the catalogue is true; a restore wipes once, reads as what happened, and recovers nothing beside an old member |
| **Alert center** (`internal/alertcenter`) | alerts, routes, silences, channels, deliveries | Observe, MarkStale, DeliverOnce, settings | watcher, registry, senders | crash around a send, state changed while sending | no silent double send; uncertain is shown as such; order kept |
| **Watcher** (`internal/alerts`) | per-node snapshots | CheckClusterHealth, Start, Stop | Talos, Telegram | flapping, overlapping checks | one alert per transition |
| **Registry** (`internal/clusters`) | SQLite, keyring file, exclusive lock | Open, sealed CRUD, RotateKey, Backup | everything | crash between the two keyring writes and the transaction; a start with another key file | every record stays readable; a wrong keyring is refused |
| **Audit log** (`internal/audit`, `api/audit_guard.go`) | append-only file, window in memory, sticky error | guard, Record, Close, NewAuditManager | every mutating request | short write, failed fsync, crash, full window | nothing carried out without a durable intent; a record that was cut is the last; the view is the newest |
| **Authentication** (`internal/auth`, `api/download_ticket.go`) | users with versions, revoked tokens, signing key; tickets | login, logout, user changes, OIDC, key rotation, tickets | API, registry | a write that fails after it committed; checks made before and used after the lock; one ticket presented twice | an ended session stays ended; an administrator remains; a ticket opens once, in a live session |
| **Fleet and API** (`internal/api`) | cluster runtimes | start, replace, remove, handlers | everything | runtime replaced under a request | guards on every mutating route |
| **Health, certificates, images, templates, clients, web console** | little or none | pure or adapters | – | – | – |

## 2. Plan

Most important behaviour first. Done:

1. `JobManager` with `Reconcile`, `MCJobManager`, `JobManagerProofs`.
2. `ExecutionAuthority`, refining `ExecutionLease`; `MCExecutionAuthority`.
3. `AlertDelivery`, `MCAlertDelivery`.
4. `WorkerReplacement`, `NodeEvacuation`, `Provisioning`, `BackupLifecycle`,
   `ConfigRevisions`, `Rollout`: the runners over the journal.
5. `ClusterStore`, `AuditLog`, `Sessions`: the durable services under them.
   `MCOperations` composes the modules of 4 and 5 for TLC, next to the alert
   center's outbox under failures and at its limit; `MCAdmission` the authority and the journal's
   admission.
6. Proofs: every safety property of `JobManager` that a run checks; the
   authority and its composition with the journal (`AdmissionProofs`);
   `StorageProofs` (`ClusterStore`, `AuditLog`, `BackupLifecycle` and `Sessions`),
   `NodeChangesProofs` (`ConfigRevisions` and `Rollout`),
   `ReplacementProofs` (`NodeEvacuation` and `WorkerReplacement`),
   `ProvisioningProofs` and `AlertDeliveryProofs`; `MCOperationsProofs` carries
   these components to the composed model.

Left:

7. `ManagementRecovery` (archive, restore, safe mode, activation and the
   off-site automation), `Fleet` (runtimes and shutdown), `AlertWatcher`, and
   `Health` as operators against a reference definition.

## 3. The modules and the code

`PROJECT.json` ("map") gives the source lines of every definition. What follows
is the correspondence at large.

### JobManager, Reconcile

`JobManager` is one `jobs.Manager` with its directory of JSON files, the
goroutine of `run`, the HTTP handlers that call it and the process around it.

| Variable | Code |
|---|---|
| `jobs`, `disk` | `Manager.jobs` and the files; a record is `[status, key, stop, reviewed, outcome, legacy, intents]` |
| `archive` | the files of `preserveIncompatibleJournal` |
| `active`, `manual`, `manualJob`, `closed`, `storageErr` | the fields of `Manager`; the job of `ManualContext` |
| `up`, `lease` | the process holds the journal; the execution authority answers its validations |
| `pc`, `res` | where the executor of a job is: `spawned`, `admit`, `body`, `guard`, `call`, `called`, `finish`; what its runner returned |
| `dispatched`, `proven`, `accepted`, `evicted`, `late` | history: calls made, intents proved, keyed submissions, evicted jobs, calls made without a lease |

Each method that holds `Manager.mu` is one action; the actions of a runner are
split exactly where the code gives the mutex up: `BeginCommand` (the intent is
durable) - `Guard` (the last check of context and authority) - `Call` -
`CallReceipt` or `CallUnproved`. `Write(j, r, ok)` is assignment, `save` and
the latch of `storageErr`; a failed save may have renamed the file already, so
`disk` then takes either value. Providers, Kubernetes and Talos appear as what a
call may answer. `Reconcile` holds the verdicts of `internal/reconcile`:
`Evaluate`, `CommandReceipt`, and the records of intents and observations.

### ExecutionAuthority, ExecutionLease

The remote `Serve` is one action per system call (stat, open, flock, read,
write, reply, validate) over one lock file whose inode may be replaced and one
epoch file; the client is `Client` with its single exchange and `poison`; the
process is its start, `recordExecutionEpoch`, the calls it makes, and its exit.
`CopyDir` copies a data directory onto another one whose process is down, which
covers cloning, restoring and rolling back. `ExecutionLease` is the promise: a
lease with at most one holder and epochs that grow; `Lease == INSTANCE
ExecutionLease WITH ...` maps sessions to holders, `LeaseSpec` is checked and
proved.

### AlertDelivery

`st` is `Center.state`, `disk` the stored secret, `degraded` is
`Center.health # nil`, `flight` the one delivery outside the mutex. Alerts are
`<<problem, n>>`: a problem that returns is a new alert, as in `Observe`. A
delivery is named by alert, channel, transition and slot, as its fingerprint
is. `persist` trims, refuses over capacity, skips an unchanged state and
otherwise writes the whole secret; memory follows only a successful write.
`DeliverOnce` is `Tick` (refresh, queue, judge, claim) and `Complete`, with
`Reach` (the receiver accepts) and any method of the center in between. Times
are an order (`clock`), waits that may or may not be over (`due`), and windows
of silences (`phase`). A sender is the class of its outcome: accepted,
rejected, unknown; the assumption on receivers is that one that refuses a
request has not accepted it. A receiver that accepts after the sender's deadline
is covered by one that accepts before an unknown outcome. `Serving`: the monitor,
the worker and the administrators reach the center only when it was opened and
the old Telegram settings were imported (`newRuntime`, `internal/api/fleet.go:322`).

### The runners: WorkerReplacement, NodeEvacuation, Provisioning, BackupLifecycle, ConfigRevisions, Rollout

All six are written alike. Durable records and the outside world are variables
of their own; the running job is one record with a program counter (`run`,
`job`, `pc`) whose steps end where the code saves, calls out or gives up a
lock. What the journal guarantees them (one job at a time per cluster, dedupe
keys, stop at checkpoints) is a guard here and checked in `JobManager`. The
environment acts at any time: other administrators, nodes that reboot when they
like, Pods that move. Every failing save or call, crash, expiry and foreign
change takes one unit of `MaxFaults`, so a counterexample needs no more trouble
than that.

- `WorkerReplacement`: `plans` and `successor` are the two records
  `PlanReplacementResume` and its reconstruction write one after the other;
  `run` holds the copy in memory that `replacementStep` saves before each
  mutation. The provider has the VM (`vm`), its deletion `task`, which ends in
  its own time, and may get the VM back from a backup (`back`, with the age of
  the return against the age of the evidence). `child` is the provisioning of
  the replacement, one step that allocates and one that makes it Ready; a plan
  and its continuations share it, so `destroys` counts per `child`. `overlooked`
  is history: a plan was accepted while the continuation of an interrupted one was
  saved only in that one's record.
- `NodeEvacuation`: `ReplacementImpact` is the three reads it makes, each seeing
  the cluster of its own moment; the drain lists, checks and evicts Pod
  instances by UID; an accepted eviction takes effect later. `always` records
  what has held a volume to the node since the running inventory began, which is
  what an inventory can be asked to have seen.
- `Provisioning`: plans of four kinds over scopes (the fleet and each cluster),
  the boot image, the reservation of VMID and ownership record before the
  request, the request whose answer may be lost and which may take effect later
  (`pending`), the ownership checks before start, stop and delete, registration
  of the cluster, and the reconciliation `Restart` starts. Administrators take
  and free VMIDs at any time; `taken` is the window between a check and the
  deletion, the jobs about to delete a VMID that somebody took since their check.
- `BackupLifecycle`: the catalogue (`local`, `remote`) beside what is really
  there (`objects`), the schedule with the key it submits under, the job with
  snapshot, upload, record and retention, deletion by an operator, and the
  restore from its plan to a healthy etcd: the last checkpoint, the resets one
  after the other, the polls one after the other (`polled` is the pass under way),
  the bootstrap, the kubelets of the workers and the wait for health. A stop
  (`stop`) is honoured by the checkpoints and refused by `BeginIntent` before
  every later call; every error after the first reset was begun makes the job
  `interrupted` (`result`). A control plane is preparing, may restart on its own
  at any time (`booting`), and joins once another was recovered. The fleet constructs the
  manager with `SetMaxBackups(0)` (`internal/api/fleet.go:345`), so the manager's
  own rotation removes nothing and retention is the lifecycle's alone.
- `ConfigRevisions`: a plan reads the node and is saved later (`draft`); the job
  compares, marks the revision running, applies, verifies and records. A node
  takes a configuration at once, at its next reboot, or rejects it.
- `Rollout`: `Preflight`, the nodes one after the other (cordon, evictions,
  command, its answer, wait, uncordon), the Kubernetes upgrade, and the last checks
  that both kinds of rollout share (`Finish`). A commanded reboot (`booting`)
  begins and ends in its own time, at the new or the old version, also after the
  job is gone; only when it has begun (`down`) do `Preflight` and the waits see it,
  because they read service health and the Kubernetes conditions. Every mutation of
  a node is refused once a stop was requested (`Refused`), and `Run` makes
  `interrupted` of that; `Cordon`, `Command` and `Uncordon` that fail may have been
  obeyed. An operator may cordon and uncordon whenever the journal is idle; a node
  made schedulable before its commanded reboot is remembered in `unsettled`.

### The services: ClusterStore, AuditLog, Sessions

- `ClusterStore`: a record is the number of the key that sealed it, a keyring a
  set of keys with an active one. `RotateKey` is its two keyring writes and its
  transaction; starts with the configured or another key file, database backups
  and their restoration come in between.
- `AuditLog`: the file is the sequence of what the writes appended, of which the
  first `synced` survive a crash; one of the rest may survive whole, in part
  (`Torn`), without its newline (`bare`) or not at all, and a failing write leaves
  the same. A start refuses a part of a record, and two records on a line; a last
  line without a newline it accepts, and the next record is appended to it.
  `Record` is its write, its fsync and its publication, under one lock but not
  atomic towards crashes.
- `Sessions`: `state` is what the process answers from, `disk` the record; each
  change copies, writes, and only then publishes, and a failed write may have
  been committed. Handlers are split where they release the lock
  (`verifyLocal`/`Login`, `LogoutStart`/`RevokeToken`, `TakeTicket`/
  `Authenticate`). A token is live, in its minute of leeway, or expired.

### Composition for TLC

`MCOperations` instantiates the nine modules of the last two sections (those
with proofs through their proof module, which extends or instantiates them, so
that a lemma proved there can be cited of the instance) and three instances of
`AlertDelivery`: one with failures (`outbox`) and two with an outbox at its limit
(`limit`: an event beside the problem; `reminders`: routes that repeat), over
shared variables; `focus`, chosen by the initial state, says which component the
behaviour is about, so the state space is the sum of theirs and each property
is stated for its component. The properties there are the modules' own ones;
those of one idea are conjoined (`NothingHappensTwice` is `DestroyedOnce`,
`OnlyOneActs`, `ExecutedOnce`, `DueStartsOnce`, `ResetOnce` and `AppliedOnce`; `TrimmingIsSafe`
is `RetentionKeepsNewest` of the backups and `NothingForgotten` of the outbox;
`JournalReadsTrue` is `TornIsLast`, `GluedOnce` and `ViewIsNewest`;
`RolloutEndsClean` is `StrandedIsReviewed` and `RolloutIsDone`).
The other nine components take their parameters from `MCOperations`'
own CONSTANTS, to which `Operations.cfg` gives small values, so that a theorem
about `MCOperations` is about plans, machines, clusters, Pods, key files, requests, archives,
revisions and sessions of any number.
`MCAdmission` does the same for the authority next to the journal's admission of
a keyed request.

## 4. The runs

| Run | Question | Result |
|---|---|---|
| `jobs_two` | two jobs or manual commands, failing writes, lost lease, shutdown, crash, operators at any time: one executor, every call journalled, unproved calls reviewed before the next one, at most one late call, terminal records final | holds |
| `jobs_live` | up to three nested intents, receipts, observations with a clock set back, reconciliation at any time, a restart: is a clean status or outcome always backed by proof; does a started job end and admission reopen | holds |
| `jobs_stop` | does a stop in the durable-write window block the call, as a comment says | violated, see 7 |
| `authority_lineage` | clones and rollbacks of data directories, the lock file replaced under running sessions: one valid lease; until the replacement one executor, which knows every call | holds |
| `admission` | any expected epoch from an operator, up to the last one: refinement of the lease; a journal with room for one job that holds a record of an incompatible binary, then keyed and other submissions, evictions, failed saves with a file left behind, restart: does a key start once, does the old record stay under review and archived | holds |
| `alerts_live` | is every queued notice decided, through silences, channel edits, changes of the alert and a restart | holds |
| `alerts_order` | is the queue's check that an event is current enough when the problem returns | violated, see 7 |
| `operations` | the components of `MCOperations` under failing calls, lost answers, expiries, foreign changes, stop requests and crashes: nothing irrevocable twice, records and results that tell the truth, nothing destroyed unreviewed or foreign, service kept, keys, audit and sessions sound, nothing undecided or newest trimmed; the outbox (sends rejected, accepted or unknown, a channel test, a failed write, a restart, an operator's retry, a Telegram channel imported from the old settings): at most one accepted copy, bounded attempts, claims durable before the send, changes of one alert in their order | holds |
| `replacement_alloc` | does an ambiguous state never allocate another replacement, as the documentation says | violated, see 7 |
| `provider_removed` | is the removal of a referenced provider refused, as the documentation says | violated, see 7 |
| `rollout_stop` | is a node that came back verified put back although a stop was requested, as a comment says | violated, see 7 |
| `retention_copies` | does retention keep N complete remote copies, as the documentation says | violated, see 7 |

Deadlock checking is off everywhere: every bound (submissions, restarts,
failures, alerts, plans) lets an instance come to rest.

**Bounds.** `jobs_two` needs two jobs, one command each and one restart: each of
its properties relates two executors or one call to one earlier call, and a
second restart meets the same records as the first. `jobs_live` has the deepest
nesting the code makes (a machine intent around a command, and a second one
after it). `admission` has the submissions needed to start a keyed job, evict it
and submit its key again, next to the old record; its authority has one
directory, because an operator's epoch does not come from it, and three sessions
that still overlap, since a session outlives the client that gave it up: the
third one meets the exhausted epoch. In `authority_lineage` three processes over
two directories are the smallest instance in which a stale copy meets both a
running executor and one that has ended; two inodes give the replaced lock file.
Symmetry (of processes, and in `operations` of backup locations and of control
planes) is used only where no liveness is checked. In `outbox`, in `operations`, each
trouble (failed write, restart, operator's retry) happens at most once and two of
them together (`MaxTrouble`), with two changes of the alert and two attempts: each
property relates one delivery to one earlier write, claim or change. Reminders and
channel tests run in `reminders`. At the limit the capacity is one delivery, so that
trimming and refusal happen at once.

In `operations`, `replacement`: two plans (a plan and the one that supersedes or
follows it) and two faults, which is an interruption and one more during the
resumption. A new plan over an unpublished continuation needs a third one
(`overlooked` stays false with two); `replacement_alloc` has three plans, and the
proofs any number. `evacuation`: two Pods with a volume beside emptyDir data or beside a
DaemonSet's local volume, two instances of each name. `provisioning`: three plans
(create a cluster, add to or clean up after it, delete), four machines and VMIDs,
one fault (a failing call or save, a crash, an administrator, an expiry, a
repeated confirmation or a removal).
`backups`: two backups, of which retention keeps one, two locations, two control
planes, one fault (a stop is none). `config`: two configurations, three revisions (a baseline and
two plans), one fault. `rollout`: clusters of a control plane and a worker, of
two and of three control planes, two versions above the current one, two
rollouts, two faults. `store`: three key files and keys (two rotations), one
fault. `audit`: three requests with a window of two records, two faults.
`sessions`: one token, two tickets with a limit of one, two requests in flight,
two signing keys, two changes of the state, one fault. For `evacuation` and the
last five of these components TLC shows that the properties are about something
(each is violated by a small change of the model); the proofs of section 5 cover
every larger instance.

**Fairness.** `jobs_live`: weak fairness of the goroutine of `run` and of an
HTTP handler. The Go scheduler runs them, every client call has a deadline,
`run` bounds the runner by four hours and a handler releases its reservation in
a deferred call. Nothing is assumed of operators, of the lease or of writes.
`alerts_live`: weak fairness of the ticker of `Run` (each second, and after
every backoff has ended), of the end of a send (its context ends after twenty
seconds) and of the end of silences. Writes do not fail in that run; the process
may end once, and the property speaks again of what the next one finds queued. An alert whose observation stays stale keeps its notice
waiting; the property says so, because the code means it. The runners promise
no progress beyond the journal's: each of them may end in `requires_review` or
`interrupted`, so no liveness is stated for them.

## 5. What is proved

The theorems hold for all values of the constants under the `ASSUME`s of the
modules and the named hypotheses below, which TLC evaluates on every run. Each
invariant below is inductive: `Init` implies it and every step keeps it.

### JobManagerProofs

`TypeCorrect`, `SingleExecutor`, `CleanIsProved`, `SuccessIsProved`,
`NoCallForgotten`, `ReviewComesFirst`, `OneStartPerKey`,
`LegacyStaysQuarantined`, `OneLateCall`, `EndsAreFinal`: for any number of jobs,
intents, keys, restarts and failed writes. The invariant comes in three layers.

- `ExecInv` adds to `TypeOK` and `OneExecutor` what keeps them: ids not yet
  given are unused (`Fresh`); the place of an executor agrees with the status of
  its job, and a command that is being sent is the last intent of its record
  (`AtWork`); a reservation or an active job implies a running process.
  `OneExecutor` alone is not inductive: `Submit` would admit next to a goroutine
  that the state does not connect with `active`.
- `ProofInv` adds that every record, in memory and on disk, is `Honest`: a
  resolved intent is proved, only a rejected command receipt makes an intent
  `failed`, a clean status means that all intents are proved, an outcome of
  `succeeded` that all are resolved. Memory and disk are both needed because a
  failed save may leave either behind and the next process starts from the disk.
- `JournalInv` relates the files to memory. Until a write fails they are equal
  (`Synced`), and after one nobody is admitted any more; records that are not
  there are blank (`Blank`); the command of every call is in the file and in the
  record from which later versions of the file are written (`Journalled`); the
  unproved calls of everyone but the present executor are reviewed in both
  (`OthersReviewed`); started keys are known (`KeysKnown`); a legacy record is
  under review and archived (`Quarantine`). Without the half about memory the
  next save of the same job could drop what the file has.

The lemma `StepShape` sorts the actions of `Next`: a step rewrites one record in
place, touches no record, admits a new one, crashes or opens. The parts of
`JournalInv` are proved once for each of these shapes and not once for each
action. `OneLateCall` has an invariant of its own: the one call that found its
lease lost was past the guard, and a lost lease does not come back.
`EndsAreFinal` is an action property from `Synced`.

### AdmissionProofs

`TypeCorrect`; `LeaseIsExclusive` from the exclusion of `flock` per inode and
the inode comparison of each validation, for any behaviour of the lock file;
`UniqueEpochs` and `SessionsImplementLease` when the lock file is not replaced
(`MaxInode = 1`), from `GrantInv`: the compared epoch is still current when the
next one is written; `OnlyOneExecutor` and `StaleCopiesAreRefused` when moreover
no operator supplies an epoch (`~WithActivation`), from `LineageInv`: while the
process that was granted the last epoch lives, every other directory and every
waiting session is behind, and a directory that is not behind has the intent of
every call.

`RequestStartsOnce` and `LegacyIsQuarantined` are about the composition
`MCAdmission`: each of its steps is a step of the journal or none
(`AdmissionStep`), so the journal's inductive invariant is kept next to the
authority, for every value of both modules' constants.

### The services and the runners

| Module | Theorems | Hypothesis | What the invariant adds, and why it is needed |
|---|---|---|---|
| `StorageProofs` (registry) | `EveryRecordReadable`, `WrongKeyRefused` | none | `Lockstep`: at each point of a rotation the configured file holds the keyring the records were read with, or the next one, which contains it. A record resealed in the transaction is readable only because both files were written before. |
| `StorageProofs` (audit) | `MutationsAreAudited`, `TornIsNotHidden`, `ViewShowsNewest` | `Sensible`: the window has room for a record, and no request is the idle writer | `Traces`: a request may mutate only with its intent among the synced records. `Glue`: a process that may still write found at most one record without a newline, at the end of the file, because a start refuses two records on a line; so there is one such pair at most. `Writing` and `Untorn`: what the file ends with while a record is between write, fsync and publication. `View`: what memory shows lacks at most an unconfirmed record. That the reader's ring of any size, unrolled from its oldest slot, is the last records of the file in order is a lemma about remainders. |
| `StorageProofs` (backups) | `RestorePointsAreThere`, `BackupsAndRestoresOnce`, `RestoresAreHonest`, `RetentionIsSafe` | `Dated`: archives are numbered, and schedule and faults are counted | `Working`: a job is where its kind takes it, and what it is about to list was uploaded to the target as it is now; the target cannot be changed under a job, which is why this lasts. `DueKnown`: a due time was started exactly if the journal holds its key. `RestoreProgress`: before the plan is marked started nothing is wiped, the execution that marked it wipes one node after the other, and what a pass of the wait found preparing was wiped, although it may have restarted since: a bootstrap follows only a pass that found all of them so, which is why no member with its old state is left beside a recovered one. That retention counts copies which are really there rests on `RecordedIsThere` itself. |
| `NodeChangesProofs` (configuration) | `PlanAppliedOnce`, `AppliedWasProved`, `ApplyReplacesReviewed` | `Numbered`: revisions are numbered from 1 | `Once`: the place of the job, the durable status of its revision and the number of applies agree. `Ranks`: what the job is about to report has run or was accepted. `Reviewed`: since the comparison either the node is as reviewed or somebody else changed it. |
| `NodeChangesProofs` (rollouts) | `OneNodeOut`, `QuorumIsKept`, `EndsClean` | `Clusters`: a cluster is finite and has a control plane | `Pending`: a node whose reboot is to come is cordoned by the rollout, unless an operator made it schedulable; the rollout itself does so only after the reboot. Without it a reboot that no preflight can see would be lost sight of. `OneOut`: before a node is cordoned none is drained, afterwards no other is. This survives a refusal, a failure or a crash because the node it leaves behind is still cordoned, which the `Preflight` of every later rollout finds. `Spared`: a node reboots only in a cluster that can miss a control plane, or has only one. `FoundSo`: a rollout has cordoned nothing but the node in work since it found the cluster. `Upgraded`: after a confirmed Kubernetes upgrade everything runs the target. The order of the plan plays no part. |
| `ProvisioningProofs` | `PlansExecuteOnce`, `NothingIsOrphaned`, `DeletedForGood`, `DeletionsAreOwned` | `Stocked`: ids are numbers, 0 is the id of no plan and no machine, and requests are well formed | `Executing` and `Extends`: what a runner holds in memory is never behind its durable plan, so that no save takes a machine, an image or an import back, and its machines have records of its own plan. `Allocating`: until a job asks the provider for a machine, nobody has asked for it. `Removing`: the source of a cleanup never becomes a cluster, and a machine about to be deleted was seen at the provider, so that no request for it can still take effect. `Awaited`: a request that may still take effect has not. Without the last three a late answer could bring back what was closed as deleted. Every action is a step of one job, of the provider's VMs or of the plans; `JobStep`, `WorldStep` and `PlanStep` say what each must keep. |
| `StorageProofs` (sessions) | `EndIsFinal`, `AnAdminRemains`, `TicketsAreSafe` | none | `NotBehind`: disk is never behind memory, although a failed write may have committed. `TokensOld`: no token is ahead of its user. `EndedDead`: the token of an ended session is revoked, or behind its user, in both; versions only grow, so no restart revives it. `TicketInv` rests on it: a ticket whose session ended after it was taken finds the end. |
| `ReplacementProofs` (evacuation) | `ReviewedBeforeDestroyed`, `DrainIsExact` | `Populated`: a Pod instance is numbered from 1 | `StillHeld` and `ListsCover` follow what has held a volume since the second inventory began through its three lists: an attachment is in the first, the volume of a Pod in the second, and what neither shows is found by the third, because it is the node's own disk. The property speaks only of the end, so without them a list could have missed what the report should show. `NotYetEvicted`: before the drain has made its list nothing was evicted. |
| `ReplacementProofs` (replacement) | `DestroyedAtMostOnce`, `OnlyOnePlanActs`, `PlansAreTrue`, `NodeAfterVM` | `Numbered`: plans are numbered from 1 | `Records` says what the flags of one record imply about each other and the world, in the record, in the continuation it holds and in the copy of the run. `OneHead`: of the plans that share a child one at most can still act. `Succession` and `Continued`: a continuation and the plan it continues name each other, and it starts from what that plan knew. `OneLine`: two lines that both started something come from an overlooked continuation. `Running` ties the place of the job to the flags saved before it got there, `Fenced` the evidence to the deletion task. Without them the property of one record says nothing about the request that another copy of it is about to send. |
| `AlertDeliveryProofs` | `OutboxHonest`, `OutboxOrderly` | `Bounded`: problems and channels are finitely many, so that the deliveries can be counted | `Sound` says of any copy of the state, in memory or on disk, what it knows of what was really sent; after a failed write either copy may be the older one, and every write and every restart starts from one of them. What it holds to be outstanding has reached nobody and has attempts left; the attempts it records are not fewer than the sends; an alert it knows has not changed less often than was announced. `Past`: no delivery that was ever sent is queued again when it is gone, because its slot is used, or its alert is gone, has changed since or is marked as dispatched; without it trimming a sent delivery could lead to a second copy. `InFlight`: what is being sent is a claim in both copies. `Roomy`: the outbox in memory is within its limit, so that only a tick, which queues, ever trims it. |

Each action has a lemma of its own which concludes `Safe`: the invariant
afterwards, `ChangesInOrder` and `NothingForgotten`. They share `Trims` (what
`trimHistory` may remove: finished deliveries as far as needed), `Written` (what
`persist` leaves in memory and on disk, whether the write succeeded, failed or
failed after it was committed) and `Saved`, `Forgets`, `Resaved` (a state that is
written sends, forgets or opens nothing). `Tick` is in four parts: `Refreshes` and
`Prepares` for what it queues, `Readies` for what it drops, `ClaimStep` for the
claim.

`MCOperationsProofs`: `Kept` says that the component in focus has its inductive
invariant; a step of the composed model is a step of that component or none.
From it follow, for every value of the constants of `MCOperations`, the
safety properties which the run `operations` checks of these components:
`RecordsReadable`, `PerformedIsAudited`, `JournalReadsTrue`, `AppliedIsProved`,
`ReplacesReviewed`, `ServiceSurvives`, `RolloutEndsClean`, `EndedStaysEnded`,
`AdminRemains`, `TicketIsSafe`, `DestroyedWasReviewed`, `DrainIsSafe`,
`PlansTellTheTruth`, `NodeOutlivesVM`, `RecordedIsThere`, `RestoreEndsHonestly`,
`NothingHappensTwice`, `MachinesAreAccountedFor`, `DeletesOnlyItsOwn`,
`TrimmingIsSafe` (of the backups and of the outbox at its limit), `OutboxIsHonest`
and `OutboxIsOrderly`.
`OperationsAssumption` implies the
hypotheses of the table.

The proofs corrected the models. Counted over all plans, `destroys` exceeds one in a
behaviour with three plans and a crash (the same window that `replacement_alloc`
shows), which the two plans of the run cannot reach. What the code promises is one
request per reviewed plan and its continuations, and one such line of plans
unless `overlooked`; that is what `DestroyedOnce` and `OnlyOneActs` now say.
`taken` was a set of VMIDs: when one of two deletions of a VMID ended, it cleared
the mark of the other, whose later deletion of a foreign VM then seemed to have
no cause. It is now a set of jobs, since each has a check of its own. In
`AlertDelivery` the monitor could report to a center whose old settings were not yet
imported, so that with two channels an import that failed took the center down under
a send. The code serves a cluster only after the import (`Serving`). And `NothingForgotten` blamed a later change of
the routes for a delivery that the disk had given up rightly before, in a write that
was reported as failed; it now speaks of a step that takes a delivery from the disk.
Reading the callers of `BeginIntent` and of the scanner again corrected three more. A
rollout and a restore went on after a stop, although each of their calls asks
`BeginIntent`: what can be promised is that the node left behind is under review
(`StrandedIsReviewed`), and the comment's promise is now a violated run. `Ready` saw a
reboot when it was commanded: that one node at a time is out now rests on the cordon
alone (`Pending`). And every incomplete audit line was taken to be unparsable, so that no
record could ever follow one; a line that lost only its newline is followed by one
other record at most (`GluedOnce`).

## 6. What is only model-checked

- Liveness (`JobEnds`, `AdmissionReopens`, `EveryNoticeIsDecided`): fairness and
  ENABLED are beyond the prover.
- `TypeOK` of the run `operations`: the proofs have the shapes that they need in
  the inductive invariants (`ProvShapes`, `ConfigShapes` and the like), which is
  less than the type invariants of all the components.

Conversely `EpochsAreUnique` and the type invariant of the authority are proved
and not listed in a run: that the sessions implement the abstract lease
(`LeaseSpec`) says more. Facts that need induction over data, and RECURSIVE
operators, are out of the prover's reach too; these modules use neither.

## 7. What the violated runs show

- `jobs_stop`: the comment at `internal/jobs/command.go:51` says that a stop in
  the durable-write window blocks the call. `RecordMutation` checks context and
  authority there, not `StopRequested`: a stop that arrives after the intent was
  saved does not keep the command from being sent.
- `rollout_stop`: the comment at `internal/operations/service.go:512` says that a stop
  requested during the drain must not strand the node cordoned after verified
  recovery. The uncordon step uses `Log`, which ignores a stop, but its patch goes
  through `RecordMutation` to `BeginIntent` (`internal/jobs/reconcile.go:94`), which
  refuses every mutation after one: a node that came back healthy stays cordoned and
  the job reads interrupted. `StrandedIsReviewed` is what is left of the promise. The
  same refusal contradicts `internal/operations/backup_restore.go:366`, which says that
  a stop is never honoured halfway through wiping the quorum; the job then reads
  interrupted too (`RestoreEndsHonestly`).
- `alerts_order`: `docs/notifications.md:79` says that the queue checks that the
  event is current. `eligible` (`internal/alertcenter/worker.go:18`) looks only
  at the alert with the delivery's own id. A refused "resolved" notice that waits
  for its backoff is still sent after the problem returned and its new alert was
  announced; the last thing the receiver hears is that the problem is over.
- `replacement_alloc`: `docs/worker-replacement.md:35` says that ambiguous
  intermediate states stay blocked rather than allocating another replacement.
  `PlanReplacementResume` marks the interrupted plan superseded in one save and
  publishes its successor in another. After a crash between them `PlanReplacement`
  (`internal/operations/workerreplacement.go:213`) sees no unresolved plan, and a
  new plan for the same worker allocates a second machine. `OnlyOneActs` is proved
  up to this window.
- `provider_removed`: `docs/provisioning.md:65` says that a provider is not
  removed while plans reference it. `DeleteProvider` checks plans and machines and
  deletes without a lock that covers the saving of a plan which has already read
  the provider.
- `retention_copies`: `docs/backups.md:52` says that the last N complete remote
  copies are kept. A deletion that stops between the object and its record leaves
  a record that `prune` counts, and a copy that exists is removed in its place.

Further behaviours are the code's choice and no finding. An edit of a channel
or of the routes suppresses the notices prepared before it, and the dispatch mark
keeps them from being queued again for the same transition. When failed and
uncertain deliveries fill the outbox, every write of the center is refused until
an operator retries them. An audit line that lost only its newline is accepted by the
next start, and the one after that refuses the journal because two records share that
line; neither record is lost, an operator has to part them. A revoked token is dropped from the record at its
expiry, and the minute of clock leeway after it is not part of the promise.

## 8. What is not modelled

`PROJECT.json` lists every component with its status. Left for later are the
modules of item 7 of the plan: management recovery beyond the copying of a data
directory, off-site recovery automation, fleet and server wiring, the legacy
watcher, and health scoring, which keeps no state. Left out on purpose: message
and file formats, field validation that only refuses a request, logging, the
protocols below the Talos, Kubernetes, Proxmox, S3 and SMTP clients, the legacy
VMID allocation of `internal/proxmox/client.go`, certificate inspection, image
and template requests, and the web console.

Limits of single modules:

- `AlertDelivery`: a center without a sender does not occur; the fleet always
  passes a transport (`internal/api/fleet.go:322`).
- `JobManager`: an HTTP handler that outlives `Close` belongs to the server's
  shutdown (`Fleet`).
- `NodeEvacuation`: a volume that is handed from a Pod to an attachment between
  two lists of one inventory is not claimed to be seen.
- `ClusterStore`: a crash in the middle of the very first key file write, and the
  loss of an unsynced directory entry at a power failure, are not modelled.
  Revisions are not verified at `Open` by the code, and not claimed to be.
- `Sessions`: passwords, PKCE, the permission table, login throttling and the
  periodic revalidation of open web sockets are left out.
- `Rollout`: a commanded reboot that has not begun shows only as a cordon. When an
  operator makes that node schedulable, the next rollout may take another one; the
  properties leave such a node out (`unsettled`), since nothing the code reads could
  tell.
- `BackupLifecycle`: there is one S3 target, which may point to another bucket; a
  stop of a backup job is one of its failing calls; `Recover` takes any control plane
  where the code takes the first one of its inventory.
- `Rollout`, `Provisioning`, `BackupLifecycle`: compatibility tables, contents of
  machine configurations, archive formats and encryption envelopes are one step
  that succeeds or fails.
