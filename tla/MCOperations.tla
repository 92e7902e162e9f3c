---------------------------- MODULE MCOperations ----------------------------
(***************************************************************************)
(* The components around the job journal, each on a small instance: worker *)
(* replacement, the evacuation of its node, provisioning, backups, machine *)
(* configuration, rollouts, the encrypted registry, the audit journal,     *)
(* sessions and the outbox of the alert center.  The initial state         *)
(* chooses the component; its own module says what it does, and the state  *)
(* space is the sum of theirs.  A component that has proofs is             *)
(* instantiated through its proof module, for any value of its constants,  *)
(* and MCOperationsProofs cites the lemmas.                                *)
(***************************************************************************)
EXTENDS Naturals, Sequences, FiniteSets, TLC

CONSTANTS
    ReplacementPlans, ReplacementFaults,       \* plans to replace a worker
    EvacuatedPods, PodLayouts, MaxInstances, LossAccepted,  \* Pods on a replaced worker
    ProvisionPlans, OwnedMachines, ProviderVmids, MachineRequests, ProvisionFaults,  \* new machines
    Configs, MaxRevisions, ConfigFaults,       \* configurations of a node, revisions
    Layouts, Targets, MaxRuns, RolloutFaults,  \* clusters to roll out to, versions
    KeyFiles, StoreKeys, StoreFaults,          \* the encrypted registry
    AuditRequests, MaxEntries, AuditFaults,    \* the audit journal
    Backups, Locations, ControlPlanes, Retention, MaxDue, BackupFaults,  \* archives, etcd
    Tokens, Tickets, TicketLimit, SigningKeys, Clients, MaxChanges, SessionFaults

\* A cluster has a control plane; the audit view has room for a record.
ASSUME OperationsAssumption ==
    /\ MaxInstances \in Nat \ {0} /\ MaxRevisions \in Nat
    /\ Layouts \subseteq Seq({"cp", "worker"})
    /\ \A l \in Layouts : \E n \in DOMAIN l : l[n] = "cp"
    /\ MaxEntries \in Nat \ {0} /\ 0 \notin AuditRequests /\ 0 \notin ReplacementPlans
    /\ 0 \notin ProvisionPlans /\ ProvisionPlans \subseteq Nat
    /\ 0 \notin OwnedMachines /\ OwnedMachines \subseteq Nat
    /\ ProviderVmids \subseteq Nat /\ ProvisionFaults \in Nat
    /\ \A x \in MachineRequests : x.roles \in Seq({"cp", "worker"}) /\ x.image \in {"manual", "profile"}
    /\ Backups \subseteq Nat /\ MaxDue \in Nat /\ BackupFaults \in Nat

\* focus is the component that runs; the others share its variables and are not there.
VARIABLES focus, s1, s2, s3, s4, s5, s6, s7, s8, s9, s10, s11, s12, s13, s14, s15, s16,
          s17, s18, s19, s20

vars == <<focus, s1, s2, s3, s4, s5, s6, s7, s8, s9, s10, s11, s12, s13, s14, s15, s16, s17,
          s18, s19, s20>>

\* Pods with a persistent volume beside emptyDir data, and beside a DaemonSet's local volume.
PodPair(x, y) == [n \in EvacuatedPods |-> IF n = "a" THEN x ELSE y]
VolumeLayouts == {PodPair([kind |-> "deployment", volume |-> "pv"], [kind |-> "deployment", volume |-> "emptyDir"]),
                  PodPair([kind |-> "deployment", volume |-> "pv"], [kind |-> "daemonset", volume |-> "local"])}

\* A new cluster of two machines from a manual image, and a single worker from an image profile.
MachineSpecs == {[roles |-> <<"cp", "worker">>, image |-> "manual"],
                 [roles |-> <<"worker">>, image |-> "profile"]}

\* Neither backup locations nor control planes are told apart.
Symmetry == Permutations(Locations) \cup Permutations(ControlPlanes)

ClusterLayouts == {<<"cp", "worker">>, <<"cp", "cp">>, <<"cp", "cp", "cp">>}

\* A route for alerts of the problems, with recoveries, and with reminders or without.
AlertRoute(problems, repeat) == [enabled |-> TRUE, min |-> 1, resolved |-> TRUE, repeat |-> repeat,
                                 problems |-> problems, channels |-> {"c"}]
PlainRoutes == {{AlertRoute({"p"}, FALSE)}}
ReminderRoutes == {{}, {AlertRoute({"p"}, TRUE)}}
EventRoutes == {{}, {AlertRoute({"p", "e"}, TRUE)}}

Worker == INSTANCE ReplacementProofs WITH Pods <- EvacuatedPods, Layouts <- PodLayouts,
    MaxUid <- MaxInstances, Ack <- LossAccepted, layout <- s1, uid <- s2, born <- s3,
    away <- s4, attached <- s5, sick <- s6, cordoned <- s7, pc <- s8, seen <- s9, report <- s10,
    reviewed <- s11, todo <- s12, listed <- s13, evicted <- s14, always <- s15,
    Plans <- ReplacementPlans, MaxFaults <- ReplacementFaults,
    plans <- s1, successor <- s2, child <- s3, queued <- s4, ran <- s5, run <- s6,
    vm <- s7, task <- s8, destroys <- s9, reused <- s10, back <- s11, node <- s12,
    ready <- s13, impact <- s14, record <- s15, overlooked <- s16, faults <- s17

Provision == INSTANCE ProvisioningProofs WITH Plans <- ProvisionPlans,
    Machines <- OwnedMachines, Vmids <- ProviderVmids, Specs <- MachineRequests,
    MaxFaults <- ProvisionFaults, plans <- s1, records <- s2, registry <- s3, provider <- s4,
    vms <- s5, pending <- s6, isos <- s7, taken <- s8, up <- s9, draft <- s10, removal <- s11,
    requested <- s12, starts <- s13, run <- s14, faults <- s15

Change == INSTANCE NodeChangesProofs WITH MaxFaults <- RolloutFaults, role <- s1, ver <- s2,
    kver <- s3, api <- s4, up <- s5, cordoned <- s6, booting <- s7, drained <- s8, job <- s9,
    stop <- s10, result <- s12, runs <- s13, down <- s14, unsettled <- s15, Revs <- 1..MaxRevisions, revs <- s1, expired <- s2,
    draft <- s3, ran <- s4, active <- s5, pending <- s6, applies <- s7, accepted <- s8,
    drift <- s10, faults <- s11

Storage == INSTANCE StorageProofs WITH Paths <- KeyFiles,
    Requests <- AuditRequests, Nodes <- ControlPlanes, files <- s1, db <- s2, exists <- s3,
    copy <- s4, proc <- s5, configured <- s6, misused <- s7, made <- s8, file <- s1, synced <- s2,
    events <- s3, up <- s4, closed <- s5, healthErr <- s6, writer <- s7, pc <- s8,
    performed <- s10, bare <- s11, local <- s1, partial <- s2, inventory <- s3, remote <- s4, objects <- s5,
    removing <- s6, location <- s7, due <- s8, keys <- s10, started <- s11, plan <- s12,
    planned <- s13, changed <- s14, etcd <- s15, resets <- s16, job <- s17,
    stop <- s18, polled <- s19, result <- s20, faults <- s9,
    Keys <- SigningKeys, MaxFaults <- SessionFaults, state <- s1, disk <- s2, tokens <- s3,
    client <- s5, code <- s6, tickets <- s7, opened <- s8, late <- s10, ended <- s11,
    changes <- s12

\* The alert center with failing sends, writes and retries, and twice at the limit of its outbox: with an
\* event beside a problem, and with reminders.
Queue == INSTANCE AlertDeliveryProofs WITH Problems <- {"p"}, Events <- {}, NoProblem <- "none",
    Channels <- {"c"}, Silences <- {}, Selects <- <<>>, Severities <- {3},
    RouteSets <- PlainRoutes, LegacyTelegram <- {"c"}, MaxAlerts <- 1,
    MaxTransitions <- 2, MaxSerials <- 0, MaxEdits <- 1, MaxFailures <- 1, MaxRestarts <- 1,
    MaxRetries <- 1, MaxTrouble <- 2, MaxAttempts <- 2, MaxDeliveries <- 2, MaxActive <- 1,
    MaxResolved <- 1, st <- s1, disk <- s2, degraded <- s3, up <- s4, flight <- s5,
    reached <- s6, phase <- s7, clock <- s8, born <- s9, serial <- s10, failures <- s11,
    restarts <- s12, retries <- s13, copies <- s14, tries <- s15, offered <- s16

Limit == INSTANCE AlertDeliveryProofs WITH Problems <- {"p", "e"}, Events <- {"e"},
    NoProblem <- "none", Channels <- {"c"}, Silences <- {}, Selects <- <<>>, Severities <- {3},
    RouteSets <- EventRoutes, LegacyTelegram <- {}, MaxAlerts <- 1,
    MaxTransitions <- 1, MaxSerials <- 0, MaxEdits <- 1, MaxFailures <- 0, MaxRestarts <- 0,
    MaxRetries <- 0, MaxTrouble <- 0, MaxAttempts <- 1, MaxDeliveries <- 1, MaxActive <- 1,
    MaxResolved <- 1, st <- s1, disk <- s2, degraded <- s3, up <- s4, flight <- s5,
    reached <- s6, phase <- s7, clock <- s8, born <- s9, serial <- s10, failures <- s11,
    restarts <- s12, retries <- s13, copies <- s14, tries <- s15, offered <- s16

Reminder == INSTANCE AlertDeliveryProofs WITH Problems <- {"p"}, Events <- {}, NoProblem <- "none",
    Channels <- {"c"}, Silences <- {}, Selects <- <<>>, Severities <- {3},
    RouteSets <- ReminderRoutes, LegacyTelegram <- {}, MaxAlerts <- 1,
    MaxTransitions <- 1, MaxSerials <- 1, MaxEdits <- 1, MaxFailures <- 0, MaxRestarts <- 0,
    MaxRetries <- 0, MaxTrouble <- 1, MaxAttempts <- 1, MaxDeliveries <- 1, MaxActive <- 1,
    MaxResolved <- 1, st <- s1, disk <- s2, degraded <- s3, up <- s4, flight <- s5,
    reached <- s6, phase <- s7, clock <- s8, born <- s9, serial <- s10, failures <- s11,
    restarts <- s12, retries <- s13, copies <- s14, tries <- s15, offered <- s16

-----------------------------------------------------------------------------
\* The variables from a number on are not used by the component.
Unused17 == s18 = 0 /\ s19 = 0 /\ s20 = 0
Unused16 == s17 = 0 /\ Unused17
Unused15 == s16 = 0 /\ Unused16
Unused13 == s14 = 0 /\ s15 = 0 /\ Unused15
Unused12 == s13 = 0 /\ Unused13
Unused11 == s12 = 0 /\ Unused12
Unused10 == s11 = 0 /\ Unused11
Unused9 == s10 = 0 /\ Unused10

rest17 == <<s18, s19, s20>>
rest16 == <<s17, rest17>>
rest15 == <<s16, rest16>>
rest13 == <<s14, s15, rest15>>
rest12 == <<s13, rest13>>
rest11 == <<s12, rest12>>
rest10 == <<s11, rest11>>
rest9 == <<s10, rest10>>

Init ==
  \/ focus = "replacement" /\ Worker!Work!Init /\ Unused17
  \/ focus = "evacuation" /\ Worker!Evac!Init /\ Unused15
  \/ focus = "provisioning" /\ Provision!Prov!Init /\ Unused15
  \/ focus = "backups" /\ Storage!Backup!Init
  \/ focus = "config" /\ Change!Conf!Init /\ Unused11
  \/ focus = "rollout" /\ Change!Init /\ Unused15
  \/ focus = "store" /\ Storage!Store!Init /\ Unused9
  \/ focus = "audit" /\ Storage!Audit!Init /\ Unused11
  \/ focus = "sessions" /\ Storage!Init /\ Unused12
  \/ focus = "outbox" /\ Queue!Init /\ Unused16
  \/ focus = "limit" /\ Limit!Init /\ Unused16
  \/ focus = "reminders" /\ Reminder!Init /\ Unused16

Next ==
  \/ focus = "replacement" /\ Worker!Work!Next /\ UNCHANGED <<focus, rest17>>
  \/ focus = "evacuation" /\ Worker!Evac!Next /\ UNCHANGED <<focus, rest15>>
  \/ focus = "provisioning" /\ Provision!Prov!Next /\ UNCHANGED <<focus, rest15>>
  \/ focus = "backups" /\ Storage!Backup!Next /\ UNCHANGED focus
  \/ focus = "config" /\ Change!Conf!Next /\ UNCHANGED <<focus, rest11>>
  \/ focus = "rollout" /\ Change!Next /\ UNCHANGED <<focus, rest15>>
  \/ focus = "store" /\ Storage!Store!Next /\ UNCHANGED <<focus, rest9>>
  \/ focus = "audit" /\ Storage!Audit!Next /\ UNCHANGED <<focus, rest11>>
  \/ focus = "sessions" /\ Storage!Next /\ UNCHANGED <<focus, rest12>>
  \/ focus = "outbox" /\ Queue!Next /\ UNCHANGED <<focus, rest16>>
  \/ focus = "limit" /\ Limit!Next /\ UNCHANGED <<focus, rest16>>
  \/ focus = "reminders" /\ Reminder!Next /\ UNCHANGED <<focus, rest16>>

Spec == Init /\ [][Next]_vars

-----------------------------------------------------------------------------
\* Every component keeps the types of its state.
TypeOK ==
  /\ focus = "replacement" => Worker!Work!TypeOK
  /\ focus = "evacuation" => Worker!Evac!TypeOK
  /\ focus = "provisioning" => Provision!Prov!TypeOK
  /\ focus = "backups" => Storage!Backup!TypeOK
  /\ focus = "config" => Change!Conf!TypeOK
  /\ focus = "rollout" => Change!TypeOK
  /\ focus = "store" => Storage!Store!TypeOK
  /\ focus = "audit" => Storage!Audit!TypeOK
  /\ focus = "sessions" => Storage!TypeOK

\* Nothing that cannot be repeated happens twice, whatever is lost, fails, crashes or is asked for
\* again: the request of a reviewed plan and its continuations to destroy the replaced VM ("never a
\* repeat delete" in replacementFence), and of one plan only unless a later one was accepted while
\* the continuation of the first was not published; the run of a confirmed provisioning plan, the
\* backup of a scheduled time, the wipe of the control plane for one approved restore, the apply
\* of one reviewed configuration.
NothingHappensTwice ==
  /\ focus = "replacement" => Worker!Work!DestroyedOnce /\ Worker!Work!OnlyOneActs
  /\ focus = "provisioning" => Provision!Prov!ExecutedOnce
  /\ focus = "backups" => Storage!Backup!DueStartsOnce /\ Storage!Backup!ResetOnce
  /\ focus = "config" => Change!Conf!AppliedOnce

\* Whatever was done to a replaced worker is known to a durable record that a later plan finds
\* (replacementStep saves before every mutation); a plan that reads successful has fenced the VM,
\* removed the pinned Node and made its own replacement Ready; and an interrupted plan has one
\* successor, the one its record names, also after a crash between the two saves of
\* PlanReplacementResume.
PlansTellTheTruth ==
  focus = "replacement" => /\ Worker!Work!EffectsAreRecorded
                           /\ Worker!Work!ReplacementIsDone
                           /\ Worker!Work!OneSuccessor

\* The Node is removed only while the VM is away, or has been back for less than the lifetime of
\* the evidence (the guard around DeleteStaleNode).
NodeOutlivesVM == [][focus = "replacement" => Worker!Work!NodeOutlivesVM]_vars

\* The old VM is destroyed only when every volume that one and the same Pod, attachment or disk held
\* to the node during the whole second inventory is one the operator reviewed, although the three
\* lists are read at different moments.
DestroyedWasReviewed == focus = "evacuation" => Worker!Evac!DestroyedWasReviewed

\* Only Pod instances that passed the drain's checks are evicted: a Pod that took a listed name
\* later, with data of its own, is not (the UID precondition of evictPodChecked). From the end of
\* the drain to the destruction no drainable Pod is on the node, unless somebody made it
\* schedulable again; evictions only announce that a Pod will leave.
DrainIsSafe == focus = "evacuation" => Worker!Evac!EvictedWasChecked /\ Worker!Evac!DrainedIsEmpty

\* Nothing the program made at the provider is orphaned: every VM that carries a marker, and
\* every one that may still appear, has an ownership record with its VMID that a durable
\* plan lists, and every boot image is named by its durable plan; and a machine closed as deleted
\* is gone for good, whatever requests were lost before.
MachinesAreAccountedFor ==
  focus = "provisioning" => Provision!Prov!NothingOrphaned /\ Provision!Prov!DeletedIsGone

\* The cleanup of a failed creation never destroys a machine of a registered cluster, and a VM of
\* another administrator disappears only when it took the VMID after the last ownership check,
\* between the check and the deletion request.
DeletesOnlyItsOwn ==
  [][focus = "provisioning" => Provision!Prov!CleanupSparesClusters /\ Provision!Prov!ForeignUntouched]_vars

\* docs/provisioning.md:65: a provider is not removed while retained machines or active plans
\* still reference it.
ProviderKept == focus = "provisioning" => Provision!Prov!ProviderKept

\* Every remote restore point in the catalogue can be read at the target's location, unless
\* its removal was requested.
RecordedIsThere == focus = "backups" => Storage!Backup!RecordedIsThere

\* What the outbox says about a notice is what happened to it: polls, restarts, failed writes and
\* trimming never make the receiver get the same change of an alert twice (only an operator's retry
\* may); confirmed refusals are repeated up to the limit of attempts, however often the process
\* restarts or the outbox cannot be saved; and what is being sent is on disk as a claim, so that
\* whenever the process dies the next one knows that the outcome is uncertain (DeliverOnce).
OutboxIsHonest == focus = "outbox" => Queue!AtMostOneCopy /\ Queue!AttemptsAreBounded /\ Queue!ClaimIsDurable

\* The changes of one alert are sent to a channel in the order in which they happened, although
\* refused ones are tried again later. And a delivery that failed, whose outcome is uncertain or
\* that is being sent is never forgotten, an outstanding one only if the tick that trims it found
\* it out of date (DeliverOnce, eligible, trimHistory).
OutboxIsOrderly == [][focus = "outbox" => Queue!ChangesInOrder /\ Queue!NothingForgotten]_vars

\* A store at its limit gives up only what it may. Retention removes a copy only when the catalogue
\* of its own location still lists Retention newer complete copies whose removal nobody asked for
\* or which an interrupted removal left listed, and never a partial one: a failed upload evicts no
\* remote restore point (prune). The outbox with room for one delivery never forgets a notice,
\* reminder or test that failed, is uncertain or is being sent, and an outstanding one only if the
\* tick that trims it found it out of date (trimHistory).
TrimmingIsSafe ==
  [][/\ focus = "backups" => Storage!Backup!RetentionKeepsNewest
     /\ focus = "limit" => Limit!NothingForgotten
     /\ focus = "reminders" => Reminder!NothingForgotten]_vars

\* How a restore of etcd reads is what happened to the control planes: one that reads stopped or
\* failed has left every member as it was, whatever was refused or went wrong meanwhile; one that
\* reads succeeded has recovered every member; and no control plane comes back with the recovered
\* state while another may still run the old one (runRestore's mutated flag, its wait for all).
RestoreEndsHonestly == focus = "backups" => Storage!Backup!RestoreEndsHonestly

\* A revision that reads succeeded is one the node ran after it was applied (or the baseline it
\* was running), and one that reads staged is one the node said it took: RestorePlan goes back
\* to nothing else.
AppliedIsProved == focus = "config" => Change!Conf!AppliedIsProved

\* An apply replaces the configuration the reviewed plan was made from, unless the node was
\* changed by somebody else after this very execution had compared it: the window between the
\* comparison and the apply in Run is the only one.
ReplacesReviewed == [][focus = "config" => Change!Conf!ReplacesReviewed]_vars

\* At most one node at a time is out of service because of rollouts, drained or with a commanded
\* reboot still to come, across failed steps, lost answers, crashes and rollouts started after
\* them (Preflight refuses while the node of an unfinished rollout is still cordoned or away), and
\* the control planes they are rebooting leave etcd a quorum, unless there is only one (then the
\* operator accepted the downtime in this request). A node that an operator makes schedulable
\* before its reboot is excepted: Preflight cannot see that it will go.
ServiceSurvives == focus = "rollout" => Change!OneNodeAtATime /\ Change!QuorumSurvives

\* A rollout leaves a node drained only when it reads interrupted, so that no job starts before an
\* operator has looked (ErrUncertain around every step of a node in Run). One that reads succeeded
\* has brought every node to its target, and none is left out of service by it (the checks after
\* the last node).
RolloutEndsClean == [][focus = "rollout" => Change!StrandedIsReviewed /\ Change!RolloutIsDone]_vars

\* service.go:512: a stop requested during the drain does not strand the node cordoned after
\* verified recovery.
StopStrandsNothing == [][focus = "rollout" => Change!StopStrandsNothing]_vars

\* With the key file the operator has configured every record is readable, of all three tables,
\* and so is an older database backup: after a completed, a failed or an interrupted rotation,
\* wherever it stopped, and after the next one (RotateKey, writeKeys). And a running server reads
\* every cluster credential and private record, whatever key file it was started with: a keyring
\* that lacks a needed key is refused at start, not later (Open).
RecordsReadable == focus = "store" => Storage!Store!RecordsReadable /\ Storage!Store!WrongKeyIsRefused

\* A mutation that was carried out has its intent among the synced records of the journal, so
\* that no crash, failed write or repair can lose the trace of it (auditMutationGuard: "A disk
\* failure must not silently turn an installation into an unaudited control plane").
PerformedIsAudited == focus = "audit" => Storage!Audit!PerformedIsAudited

\* A record that lost more than its newline is never followed by another one: the failure sticks
\* until the journal is repaired (Record's healthErr, NewAuditManager's refusal). One that lost only
\* its newline passes the next start, and the records of that process share its line; it is the
\* only one, because the start after that refuses the journal. And what the audit view shows is
\* the newest maxEntries records of the journal in the order they were written, after any number
\* of failures and restarts; only a record whose own write is not confirmed may be missing at the
\* end (Record's window, NewAuditManager's ring).
JournalReadsTrue == focus = "audit" => Storage!Audit!TornIsLast /\ Storage!Audit!GluedOnce
                                      /\ Storage!Audit!ViewIsNewest

\* A session whose end was confirmed (by a logout, by a change of the user's password, role or
\* status, by a revocation, by a new signing key) is never accepted again before it expires:
\* neither by the process nor by one that starts from the record on disk, whatever writes fail,
\* and also when the account is enabled again or an old signing key is put back
\* (changeState, Version, Revoked, NewPersistentAuthManager).
EndedStaysEnded == focus = "sessions" => Storage!EndedStaysEnded

\* There is always an enabled local administrator, in memory and on disk, so the installation
\* can be administered when the identity provider is gone (UpdateUser's count, ErrConflict).
AdminRemains == focus = "sessions" => Storage!AdminRemains

\* A download ticket opens at most one download, however many requests present it at the same
\* time, and none once the session it was issued in had ended when it was presented
\* (DownloadTickets.Authenticate takes it out under the lock and validates the session again).
TicketIsSafe == focus = "sessions" => Storage!TicketOpensOnce /\ Storage!TicketNeedsSession

=============================================================================
