-------------------------- MODULE BackupLifecycle ---------------------------
(***************************************************************************)
(* Backups of one cluster: the schedule, the backup job with its upload    *)
(* and retention, deletion by an operator, changes of the S3 target, and   *)
(* the restore of the control plane (internal/operations/backup_lifecycle  *)
(* .go and backup_restore.go, internal/backup/manager.go and               *)
(* internal/api/backup_lifecycle.go).                                      *)
(*                                                                         *)
(* Backups are numbered in the order of their timestamps.  The job journal *)
(* admits one job or one manual change at a time and knows deduplication   *)
(* keys (JobManager); here it is busy and keys.  A stop matters to a       *)
(* restore; a backup job it ends where a failing call would.  Failing      *)
(* calls and saves, decaying files, nodes that restart on their own,       *)
(* inventory changes, expiries and crashes draw on MaxFaults.              *)
(***************************************************************************)
EXTENDS Naturals, FiniteSets, FiniteSetsExt

CONSTANTS Backups,     \* 1..n
          Locations,   \* buckets the S3 target can point to
          Nodes,       \* control planes
          Retention,   \* copies kept per location, at least 1
          MaxDue,      \* scheduled times
          MaxFaults

VARIABLES local,       \* [Backups -> none, good or rotten]: published archives
          partial,     \* backups without some machine configurations
          inventory,   \* backups whose inventory of control planes was saved
          remote,      \* backups with a remote-backup record
          objects,     \* [Backups -> the location of the good object, or "none"]
          removing,    \* backups whose remote removal was requested
          location,    \* where the S3 target points, or "none"
          due,         \* the schedule's next time, durable
          keys,        \* deduplication keys the journal accepted
          started,     \* [1..MaxDue -> scheduled backup jobs started]
          plan,        \* the restore plan: none, planned, expired or started
          planned,     \* the backup it restores
          changed,     \* the control planes changed since the plan was made
          etcd,        \* [Nodes -> old, resetting, preparing, booting (wiped), or restored]
          resets,      \* executions of the plan that reset a node
          stop,        \* a stop of the restore job was requested
          polled,      \* the control planes this pass of the wait found preparing
          result,      \* how the last restore job ended, or "none"
          job,         \* the running job or manual change, or Idle
          faults

catalog == <<local, partial, inventory, remote, objects, removing>>
settings == <<location, due, keys, started>>
outcome == <<stop, polled, result>>
restore == <<plan, planned, changed, etcd, resets, outcome>>
vars == <<catalog, settings, restore, job, faults>>

Idle == [pc |-> "idle"]
Init == /\ local = [b \in Backups |-> "none"] /\ partial = {} /\ inventory = {}
        /\ remote = {} /\ objects = [b \in Backups |-> "none"] /\ removing = {}
        /\ location = "none" /\ due = 1 /\ keys = {} /\ started = [d \in 1..MaxDue |-> 0]
        /\ plan = "none" /\ planned = 0 /\ changed = FALSE
        /\ etcd = [n \in Nodes |-> "old"] /\ resets = 0
        /\ stop = FALSE /\ polled = {} /\ result = "none"
        /\ job = Idle /\ faults = 0

Fault == faults < MaxFaults /\ faults' = faults + 1
NoFault == UNCHANGED faults
Busy == job # Idle
At(pc) == job.pc = pc
Goto(pc) == job' = [job EXCEPT !.pc = pc]
End == job' = Idle

Complete(b) == b \notin partial
\* Copies of complete backups in a place, as the code lists them.
LocalCopies == {b \in Backups : local[b] # "none" /\ Complete(b)}
RemoteCopies == {b \in remote : Complete(b)}
\* What sorting by timestamp and cutting at the limit leaves over.
Excess(copies) == {b \in copies : Cardinality({c \in copies : c > b}) >= Retention}

-----------------------------------------------------------------------------
(* Targets and schedule. *)

\* Mutant: the journal is not reserved while a target is saved.
SaveTargetUnreserved(l) ==
    /\ l # location /\ remote = {}
    /\ location' = l
    /\ UNCHANGED <<catalog, due, keys, started, restore, job, faults>>

\* SaveTarget: nothing may run, and a location that holds backups stays.
SaveTarget(l) ==
    /\ ~Busy /\ l # location /\ remote = {}
    /\ location' = l
    /\ UNCHANGED <<catalog, due, keys, started, restore, job, faults>>

\* Mutant: the scheduled job has no deduplication key.
ScheduleDueAgain(t) ==
    /\ ~Busy /\ due <= MaxDue
    /\ job' = [pc |-> "snapshot", kind |-> "backup", id |-> 0, target |-> t]
    /\ started' = [started EXCEPT ![due] = @ + 1]
    /\ \/ due' = due + 1 /\ NoFault
       \/ Fault /\ UNCHANGED due
    /\ UNCHANGED <<catalog, location, keys, restore>>

\* scheduleDue: submit with the due time as key, then advance the time.  The second save
\* may be lost; the journal then knows the key and starts nothing again.
ScheduleDue(t) ==
    /\ due <= MaxDue
    /\ \/ /\ ~Busy /\ due \notin keys /\ keys' = keys \cup {due}
          /\ started' = [started EXCEPT ![due] = @ + 1]
          /\ job' = [pc |-> "snapshot", kind |-> "backup", id |-> 0, target |-> t]
       \/ due \in keys /\ UNCHANGED <<keys, started, job>>
    /\ \/ due' = due + 1 /\ NoFault
       \/ Fault /\ UNCHANGED due
    /\ UNCHANGED <<catalog, location, restore>>

\* POST /backups/create.
CreateBackup(t) ==
    /\ ~Busy /\ job' = [pc |-> "snapshot", kind |-> "backup", id |-> 0, target |-> t]
    /\ UNCHANGED <<catalog, settings, restore, faults>>

-----------------------------------------------------------------------------
(* The backup job. *)

Unused == {b \in Backups : local[b] = "none" /\ b \notin remote \cup partial /\ objects[b] = "none"
                           /\ \A c \in Backups : c > b => local[c] = "none" /\ c \notin remote \cup partial
                                                          /\ objects[c] = "none"}

\* CreateFullClusterBackup: a machine configuration that cannot be read makes the backup partial.
Gathered(b, whole) == IF whole THEN partial ELSE partial \cup {b}

\* publishBackup: archive and sidecars appear together, the archive last.
Archived(b) == [local EXCEPT ![b] = "good"]

\* The archive is made and verified; then the inventory is saved, if it can be read.  A job that
\* fails after the publication leaves a copy that is listed all the same.
Snapshot ==
    LET b == Min(Unused)
    IN /\ At("snapshot") /\ Unused # {}
       /\ \E whole, listed \in BOOLEAN :
             \/ /\ local' = Archived(b) /\ partial' = Gathered(b, whole)
                /\ inventory' = IF listed THEN inventory \cup {b} ELSE inventory
                /\ IF whole /\ listed THEN NoFault ELSE Fault
                /\ job' = [job EXCEPT !.pc = IF job.target = "s3" THEN "upload" ELSE "ending",
                                      !.id = b]
             \/ /\ Fault /\ End /\ UNCHANGED inventory
                /\ \/ local' = Archived(b) /\ partial' = Gathered(b, whole) /\ ~listed
                   \/ UNCHANGED <<local, partial>> /\ whole /\ ~listed
       /\ UNCHANGED <<remote, objects, removing, settings, restore>>

\* PutObject, then size and content are read back, before the record is saved.
Upload ==
    /\ At("upload")
    /\ IF location = "none" THEN End /\ UNCHANGED objects /\ NoFault
       ELSE \/ objects' = [objects EXCEPT ![job.id] = location] /\ Goto("record") /\ NoFault
            \/ Fault /\ End /\ objects' \in {objects, [objects EXCEPT ![job.id] = location]}
    /\ UNCHANGED <<local, partial, inventory, remote, removing, settings, restore>>

RecordRemote ==
    /\ At("record")
    /\ \/ remote' = remote \cup {job.id} /\ Goto("ending") /\ NoFault
       \/ Fault /\ End /\ UNCHANGED remote
    /\ UNCHANGED <<local, partial, inventory, objects, removing, settings, restore>>

\* A partial backup is kept and retention is not applied.
Ending ==
    /\ At("ending") /\ (IF Complete(job.id) THEN Goto("pruneRemote") ELSE End)
    /\ UNCHANGED <<catalog, settings, restore, faults>>

\* Mutant: one quota for every copy, wherever it is.
PruneRemoteShared ==
    LET old == {b \in remote : Complete(b) /\ Cardinality({c \in LocalCopies \cup RemoteCopies : c > b}) >= Retention}
    IN /\ At("pruneRemote")
       /\ IF old = {} THEN Goto("pruneLocal") /\ UNCHANGED <<objects, removing>>
          ELSE /\ removing' = removing \cup {Min(old)}
               /\ objects' = [objects EXCEPT ![Min(old)] = "none"]
               /\ job' = [job EXCEPT !.pc = "forget", !.id = Min(old)]
       /\ NoFault /\ UNCHANGED <<local, partial, inventory, remote, settings, restore>>

\* prune, remote half: the object, then its record; a failure ends the job before anything local.
PruneRemote ==
    LET old == Excess(RemoteCopies)
    IN /\ At("pruneRemote")
       /\ \/ old = {} /\ Goto("pruneLocal") /\ NoFault /\ UNCHANGED <<objects, removing>>
          \/ \E b \in old :
                /\ removing' = removing \cup {b}
                /\ \/ /\ objects' = [objects EXCEPT ![b] = "none"] /\ NoFault
                      /\ job' = [job EXCEPT !.pc = "forget", !.id = b]
                   \/ Fault /\ End /\ objects' \in {objects, [objects EXCEPT ![b] = "none"]}
       /\ UNCHANGED <<local, partial, inventory, remote, settings, restore>>

\* DeleteSecret; the manual deletion goes on with the local archive.
Forget ==
    /\ At("forget")
    /\ \/ /\ remote' = remote \ {job.id} /\ NoFault
          /\ Goto(IF job.kind = "backup" THEN "pruneRemote" ELSE "deleteLocal")
       \/ Fault /\ End /\ UNCHANGED remote
    /\ UNCHANGED <<local, partial, inventory, objects, removing, settings, restore>>

\* prune, local half.
PruneLocal ==
    LET old == Excess(LocalCopies)
    IN /\ At("pruneLocal")
       /\ IF old = {} THEN End /\ UNCHANGED local /\ NoFault
          ELSE \/ \E b \in old : local' = [local EXCEPT ![b] = "none"] /\ UNCHANGED job /\ NoFault
               \/ Fault /\ End /\ UNCHANGED local
       /\ UNCHANGED <<partial, inventory, remote, objects, removing, settings, restore>>

-----------------------------------------------------------------------------
(* Deletion by an operator, under a manual reservation. *)

Delete(b) ==
    /\ ~Busy
    /\ \/ /\ b \in remote /\ removing' = removing \cup {b}
          /\ \/ /\ objects' = [objects EXCEPT ![b] = "none"] /\ NoFault
                /\ job' = [pc |-> "forget", kind |-> "delete", id |-> b, target |-> "s3"]
             \/ Fault /\ UNCHANGED job /\ objects' \in {objects, [objects EXCEPT ![b] = "none"]}
       \/ /\ b \notin remote /\ local[b] # "none"
          /\ job' = [pc |-> "deleteLocal", kind |-> "delete", id |-> b, target |-> "s3"]
          /\ UNCHANGED <<objects, removing, faults>>
    /\ UNCHANGED <<local, partial, inventory, remote, settings, restore>>

DeleteLocal ==
    /\ At("deleteLocal") /\ End
    /\ \/ local' = [local EXCEPT ![job.id] = "none"] /\ NoFault
       \/ Fault /\ UNCHANGED local
    /\ UNCHANGED <<partial, inventory, remote, objects, removing, settings, restore>>

-----------------------------------------------------------------------------
(* Restore. *)

\* Materialize: the local archive must verify; without one the object is read at the
\* target's location.
Materialize(b) == IF local[b] # "none" THEN local[b] = "good"
                  ELSE b \in remote /\ objects[b] # "none" /\ objects[b] = location

\* PlanRestore: the archive, its inventory and the control planes of today agree.
PlanRestore(b) ==
    /\ plan = "none" /\ Materialize(b) /\ b \in inventory /\ ~changed
    /\ plan' = "planned" /\ planned' = b
    /\ UNCHANGED <<catalog, settings, changed, etcd, resets, outcome, job, faults>>

ExpireRestore ==
    /\ plan = "planned" /\ plan' = "expired" /\ Fault
    /\ UNCHANGED <<catalog, settings, planned, changed, etcd, resets, outcome, job>>

\* CheckRestorePlan and Submit.
SubmitRestore ==
    /\ plan = "planned" /\ ~Busy
    /\ job' = [pc |-> "check", kind |-> "restore", id |-> planned, target |-> "s3"]
    /\ result' = "none" /\ UNCHANGED <<stop, polled>>
    /\ UNCHANGED <<catalog, settings, plan, planned, changed, etcd, resets, faults>>

\* POST /jobs/{id}/stop: from here on BeginIntent and Checkpoint refuse.
RequestStop ==
    /\ Busy /\ job.kind = "restore" /\ ~stop /\ stop' = TRUE
    /\ UNCHANGED <<catalog, settings, plan, planned, changed, etcd, resets, polled, result, job, faults>>

\* How the restore job reads at its end.
Finish(r) == End /\ result' = r /\ stop' = FALSE /\ polled' = {}
Going(pc) == Goto(pc) /\ UNCHANGED outcome

\* Mutant: the plan is marked as started once every node was reset.
RestoreCheckUnmarked ==
    /\ At("check") /\ Goto("reset") /\ NoFault
    /\ UNCHANGED <<catalog, settings, restore>>

\* runRestore up to the first reset: everything is verified again, then Started is saved, and the
\* last Checkpoint honours a stop.
RestoreCheck ==
    LET verified == plan = "planned" /\ Materialize(job.id) /\ ~changed
        marked == IF verified THEN {plan, "started"} ELSE {plan}
    IN /\ At("check")
       /\ \/ verified /\ ~stop /\ plan' = "started" /\ Going("reset") /\ NoFault
          \/ stop /\ plan' \in marked /\ Finish("stopped") /\ NoFault
          \/ ~verified /\ Finish("failed") /\ NoFault /\ UNCHANGED plan
          \/ Fault /\ plan' \in marked /\ (Finish("failed") \/ Finish("interrupted"))
       /\ UNCHANGED <<catalog, settings, planned, changed, etcd, resets>>

\* A call of the restore is refused once a stop was requested; whatever ends the job after
\* mutated was set becomes ErrUncertain.
Refused == stop /\ Finish("interrupted") /\ NoFault
Fails == Fault /\ Finish("interrupted")

\* Mutant: the error of a refused reset is returned as it is.
ResetNodeRefusedStops ==
    LET left == {n \in Nodes : etcd[n] \in {"old", "restored"}}
    IN /\ At("reset")
       /\ \/ stop /\ Finish("stopped") /\ NoFault /\ UNCHANGED <<etcd, resets>>
          \/ \E n \in left :
                /\ ~stop /\ NoFault /\ resets' = IF left = Nodes THEN resets + 1 ELSE resets
                /\ etcd' = [etcd EXCEPT ![n] = "resetting"]
                /\ Going(IF left = {n} THEN "wait" ELSE "reset")
       /\ UNCHANGED <<catalog, settings, plan, planned, changed>>

\* talosctl reset --wait=false, node after node; a stop that came before the first of them or
\* between two is noticed by the next.
ResetNode ==
    LET left == {n \in Nodes : etcd[n] \in {"old", "restored"}}
    IN /\ At("reset")
       /\ \/ Refused /\ UNCHANGED <<etcd, resets>>
          \/ \E n \in left :
                /\ ~stop /\ resets' = IF left = Nodes THEN resets + 1 ELSE resets
                /\ \/ /\ etcd' = [etcd EXCEPT ![n] = "resetting"] /\ NoFault
                      /\ Going(IF left = {n} THEN "wait" ELSE "reset")
                   \/ Fails /\ etcd' \in {etcd, [etcd EXCEPT ![n] = "resetting"]}
       /\ UNCHANGED <<catalog, settings, plan, planned, changed>>

\* EtcdPreparing, node after node: one that is not preparing makes the pass fail, and the next
\* starts from nothing.
PollNode(n) ==
    /\ At("wait") /\ n \notin polled
    /\ polled' = IF etcd[n] = "preparing" THEN polled \cup {n} ELSE {}
    /\ IF polled' = Nodes THEN Goto("recover") ELSE UNCHANGED job
    /\ UNCHANGED <<catalog, settings, plan, planned, changed, etcd, resets, stop, result, faults>>

\* bootstrap --recover-from on the first control plane (any, here).  By now it may be restarting.
Recover ==
    /\ At("recover")
    /\ \/ Refused /\ UNCHANGED etcd
       \/ \E n \in Nodes :
             /\ ~stop /\ etcd[n] = "preparing"
             /\ \/ etcd' = [etcd EXCEPT ![n] = "restored"] /\ Going("workers") /\ NoFault
                \/ Fails /\ etcd' \in {etcd, [etcd EXCEPT ![n] = "restored"]}
       \/ ~stop /\ (\E n \in Nodes : etcd[n] = "booting") /\ Finish("interrupted") /\ NoFault /\ UNCHANGED etcd
    /\ UNCHANGED <<catalog, settings, plan, planned, changed, resets>>

\* The kubelets of the workers are restarted; a cluster without workers goes on whatever was
\* requested.
RestartKubelets ==
    /\ At("workers")
    /\ (Going("health") /\ NoFault) \/ Refused \/ Fails
    /\ UNCHANGED <<catalog, settings, plan, planned, changed, etcd, resets>>

\* Quorum with a member on every control plane, nodes and components stay healthy for thirty seconds.
RestoreHealthy ==
    /\ At("health") /\ \A n \in Nodes : etcd[n] = "restored"
    /\ Finish("succeeded") /\ NoFault
    /\ UNCHANGED <<catalog, settings, plan, planned, changed, etcd, resets>>

\* Twenty minutes pass in one of the two waits, or an event cannot be saved.
RestoreTimesOut ==
    /\ At("wait") \/ At("health")
    /\ Fails
    /\ UNCHANGED <<catalog, settings, plan, planned, changed, etcd, resets>>

\* A control plane comes up with an empty etcd, restarts before it was recovered, or joins the
\* member that was.
EtcdMoves(n, from, to) ==
    /\ etcd[n] \in from /\ etcd' = [etcd EXCEPT ![n] = to]
    /\ UNCHANGED <<catalog, settings, plan, planned, changed, resets, outcome, job>>
NodePrepares(n) == EtcdMoves(n, {"resetting", "booting"}, "preparing") /\ NoFault
NodeRestarts(n) == EtcdMoves(n, {"preparing"}, "booting") /\ Fault
NodeJoins(n) == /\ \E m \in Nodes : etcd[m] = "restored"
                /\ EtcdMoves(n, {"preparing"}, "restored") /\ NoFault

-----------------------------------------------------------------------------
(* Environment. *)

Rot(b) ==
    /\ local[b] = "good" /\ Fault /\ local' = [local EXCEPT ![b] = "rotten"]
    /\ UNCHANGED <<partial, inventory, remote, objects, removing, settings, restore, job>>

InventoryChanges ==
    /\ Fault /\ changed' = ~changed
    /\ UNCHANGED <<catalog, settings, plan, planned, etcd, resets, outcome, job>>

Crash ==
    /\ Busy /\ Fault /\ End
    /\ IF job.kind = "restore" THEN Finish("interrupted") ELSE UNCHANGED outcome
    /\ UNCHANGED <<catalog, settings, plan, planned, changed, etcd, resets>>

Next ==
    \/ \E l \in Locations : SaveTarget(l)
    \/ \E t \in {"local", "s3"} : ScheduleDue(t) \/ CreateBackup(t)
    \/ Snapshot \/ Upload \/ RecordRemote \/ Ending \/ PruneRemote \/ Forget \/ PruneLocal
    \/ \E b \in Backups : Delete(b) \/ PlanRestore(b) \/ Rot(b)
    \/ DeleteLocal \/ ExpireRestore \/ SubmitRestore \/ RequestStop \/ RestoreCheck \/ ResetNode
    \/ \E n \in Nodes : PollNode(n) \/ NodePrepares(n) \/ NodeRestarts(n) \/ NodeJoins(n)
    \/ Recover \/ RestartKubelets \/ RestoreHealthy \/ RestoreTimesOut
    \/ InventoryChanges \/ Crash

Spec == Init /\ [][Next]_vars

-----------------------------------------------------------------------------
(* Properties. *)

TypeOK == /\ local \in [Backups -> {"none", "good", "rotten"}]
          /\ partial \cup inventory \cup remote \cup removing \subseteq Backups
          /\ objects \in [Backups -> Locations \cup {"none"}]
          /\ due \in 1..(MaxDue + 1) /\ keys \subseteq 1..MaxDue
          /\ plan \in {"none", "planned", "expired", "started"}
          /\ etcd \in [Nodes -> {"old", "resetting", "preparing", "booting", "restored"}]
          /\ stop \in BOOLEAN /\ polled \subseteq Nodes
          /\ result \in {"none", "stopped", "failed", "interrupted", "succeeded"}
          /\ faults \in 0..MaxFaults

\* Retention removes a copy only when the catalogue of its own location still lists Retention
\* newer complete copies whose removal nobody asked for or which an interrupted removal left
\* listed, and never a partial one: a failed upload evicts no remote restore point.
RetentionKeepsNewest ==
    job # Idle /\ job.kind = "backup"
    => /\ \A b \in Backups : objects[b] # "none" /\ objects'[b] = "none"
             => /\ Complete(b)
                /\ Cardinality({c \in RemoteCopies : c > b /\ (objects[c] = location \/ c \in removing)})
                   >= Retention
       /\ \A b \in Backups : local[b] # "none" /\ local'[b] = "none"
             => Complete(b) /\ Cardinality({c \in LocalCopies : c > b}) >= Retention

\* docs/backups.md: retention keeps the last N complete remote copies of every target, so it
\* removes one only when N newer ones exist.
RetentionKeepsCopies ==
    [][job # Idle /\ job.kind = "backup"
       => \A b \in Backups : objects[b] # "none" /\ objects'[b] = "none"
             => Cardinality({c \in RemoteCopies : c > b /\ objects[c] # "none"}) >= Retention]_vars

\* Every remote restore point in the catalogue can be read at the target's location, unless
\* its removal was requested.
RecordedIsThere == \A b \in remote \ removing : objects[b] = location /\ location # "none"

\* A scheduled time starts at most one backup, whatever was lost between journal and schedule.
DueStartsOnce == \A d \in 1..MaxDue : started[d] <= 1

\* The control plane is wiped at most once for one approved plan.
ResetOnce == resets <= 1

\* How a restore reads is what happened to the control planes: one that reads stopped or failed,
\* so that no operator has to look at it, has left every member of etcd as it was, whatever was
\* refused or went wrong meanwhile; one that reads succeeded has recovered every member.  And no
\* control plane comes back with the recovered state while another may still run the old one.
RestoreEndsHonestly ==
    /\ result \in {"stopped", "failed"} => \A n \in Nodes : etcd[n] = "old"
    /\ result = "succeeded" => \A n \in Nodes : etcd[n] = "restored"
    /\ (\E n \in Nodes : etcd[n] = "restored") => \A n \in Nodes : etcd[n] \notin {"old", "resetting"}
=============================================================================
