------------------------- MODULE MCOperationsProofs -------------------------
(***************************************************************************)
(* The properties of the operations model that follow from the proofs of   *)
(* its components: the component in focus keeps its inductive invariant,   *)
(* and the others are not there.                                           *)
(***************************************************************************)
EXTENDS MCOperations, Integers, TLAPS

\* The invariants of the proof modules, each for the component in focus.
Kept ==
  /\ focus = "replacement" => Worker!WorkInv
  /\ focus = "evacuation" => Worker!EvacInv
  /\ focus = "provisioning" => Provision!ProvInv
  /\ focus = "store" => Storage!StoreInv
  /\ focus = "audit" => Storage!AuditInv
  /\ focus = "backups" => Storage!BackupInv
  /\ focus = "config" => Change!ConfigInv
  /\ focus = "rollout" => Change!Inv
  /\ focus = "sessions" => Storage!SessionInv /\ Storage!TicketInv
  /\ focus = "outbox" => Queue!OutboxInv
  /\ focus = "limit" => Limit!OutboxInv
  /\ focus = "reminders" => Reminder!OutboxInv

-----------------------------------------------------------------------------
\* The hypotheses of the components' theorems.
LEMMA PodsPopulated == Worker!Populated
BY OperationsAssumption DEF Worker!Populated

LEMMA PlansNumbered == Worker!Numbered
BY OperationsAssumption DEF Worker!Numbered

LEMMA MachinesStocked == Provision!Stocked
BY OperationsAssumption DEF Provision!Stocked

LEMMA AuditSensible == Storage!Sensible
BY OperationsAssumption DEF Storage!Sensible, Storage!Audit!Idle

LEMMA BackupsDated == Storage!Dated
BY OperationsAssumption DEF Storage!Dated

LEMMA ConfigNumbered == Change!Numbered
BY OperationsAssumption DEF Change!Numbered

LEMMA RollClusters == Change!Clusters
<1>1. SUFFICES ASSUME NEW l \in Layouts
               PROVE  Change!IsFiniteSet(DOMAIN l) /\ \E n \in DOMAIN l : l[n] = "cp"
  BY DEF Change!Clusters
<1>2. l \in Seq({"cp", "worker"}) /\ \E n \in DOMAIN l : l[n] = "cp" BY OperationsAssumption
<1>3. DOMAIN l = 1..Len(l) /\ 1 \in Int /\ Len(l) \in Int BY <1>2
<1>4. Change!IsFiniteSet(1..Len(l)) BY <1>3, Change!FS_Interval, Zenon
<1> QED BY <1>2, <1>3, <1>4

LEMMA LimitConstants == Limit!AlertConstants /\ Limit!Bounded
<1>1. Limit!AlertConstants BY DEF Limit!AlertConstants
<1>2. Limit!IsFiniteSet({"p", "e"}) /\ Limit!IsFiniteSet({"c"})
  <2>1. ASSUME NEW x PROVE Limit!IsFiniteSet({x}) BY <1>1, Limit!FS_Singleton, Zenon DEF Limit!AlertConstants
  <2>2. Limit!IsFiniteSet({"p"} \cup {"e"}) BY <1>1, <2>1, Limit!FS_AddElement, Zenon DEF Limit!AlertConstants
  <2>3. {"p"} \cup {"e"} = {"p", "e"} OBVIOUS
  <2> QED BY <2>1, <2>2, <2>3
<1> QED BY <1>1, <1>2 DEF Limit!Bounded

LEMMA QueueConstants == Queue!AlertConstants /\ Queue!Bounded
<1>1. Queue!AlertConstants BY DEF Queue!AlertConstants
<1>2. Queue!IsFiniteSet({"p"}) /\ Queue!IsFiniteSet({"c"})
  <2>1. ASSUME NEW x PROVE Queue!IsFiniteSet({x}) BY <1>1, Queue!FS_Singleton, Zenon DEF Queue!AlertConstants
  <2> QED BY <2>1
<1> QED BY <1>1, <1>2 DEF Queue!Bounded

LEMMA ReminderConstants == Reminder!AlertConstants /\ Reminder!Bounded
<1>1. Reminder!AlertConstants BY DEF Reminder!AlertConstants
<1>2. Reminder!IsFiniteSet({"p"}) /\ Reminder!IsFiniteSet({"c"})
  <2>1. ASSUME NEW x PROVE Reminder!IsFiniteSet({x}) BY <1>1, Reminder!FS_Singleton, Zenon DEF Reminder!AlertConstants
  <2> QED BY <2>1
<1> QED BY <1>1, <1>2 DEF Reminder!Bounded

\* A step leaves the focus where it is, and is a step of the component in focus or none.
LEMMA StepOfFocus ==
    ASSUME [Next]_vars
    PROVE  /\ focus' = focus
           /\ focus = "replacement" => [Worker!Work!Next]_(Worker!Work!vars)
           /\ focus = "evacuation" => [Worker!Evac!Next]_(Worker!Evac!vars)
           /\ focus = "provisioning" => [Provision!Prov!Next]_(Provision!Prov!vars)
           /\ focus = "store" => [Storage!Store!Next]_(Storage!Store!vars)
           /\ focus = "audit" => [Storage!Audit!Next]_(Storage!Audit!vars)
           /\ focus = "backups" => [Storage!Backup!Next]_(Storage!Backup!vars)
           /\ focus = "config" => [Change!Conf!Next]_(Change!Conf!vars)
           /\ focus = "rollout" => [Change!Next]_(Change!vars)
           /\ focus = "sessions" => [Storage!Next]_(Storage!vars)
           /\ focus = "outbox" => [Queue!Next]_(Queue!vars)
           /\ focus = "limit" => [Limit!Next]_(Limit!vars)
           /\ focus = "reminders" => [Reminder!Next]_(Reminder!vars)
<1>1. CASE Next BY <1>1 DEF Next
<1>2. CASE UNCHANGED vars
  <2>1. UNCHANGED <<focus, s1, s2, s3, s4, s5, s6, s7, s8, s9, s10, s11, s12, s13,
                   s14, s15, s16, s17, s18, s19, s20>> BY <1>2 DEF vars
  <2> QED BY <2>1 DEF Worker!Work!vars, Worker!Work!worldVars, Worker!Evac!vars,
        Worker!Evac!clusterVars, Provision!Prov!vars, Provision!Prov!durable, Provision!Prov!world,
        Provision!Prov!handlers, Storage!Store!vars, Storage!Audit!vars, Storage!Backup!vars,
        Storage!Backup!catalog, Storage!Backup!settings, Storage!Backup!restore, Storage!Backup!outcome, Change!Conf!vars,
        Change!Conf!node, Change!Conf!history, Change!vars, Change!cluster, Storage!vars,
        Queue!vars, Queue!worker, Queue!env, Queue!history, Limit!vars, Limit!worker, Limit!env, Limit!history,
        Reminder!vars, Reminder!worker, Reminder!env, Reminder!history
<1> QED BY <1>1, <1>2

\* The invariants hold at the start, whichever component is chosen.
LEMMA KeptInit == ASSUME Init PROVE Kept
<1>1. focus = "store" => Storage!StoreInv BY Storage!StoreInit DEF Init
<1>2. focus = "audit" => Storage!AuditInv BY Storage!AuditInit, AuditSensible DEF Init
<1>3. focus = "config" => Change!ConfigInv BY Change!ConfigInit, ConfigNumbered DEF Init
<1>4. focus = "rollout" => Change!Inv BY Change!RolloutInit, RollClusters DEF Init
<1>5. focus = "sessions" => Storage!SessionInv /\ Storage!TicketInv
  BY Storage!SessionInit, Storage!TicketInit DEF Init
<1>6. focus = "evacuation" => Worker!EvacInv BY Worker!EvacInit, PodsPopulated DEF Init
<1>7. focus = "replacement" => Worker!WorkInv BY Worker!WorkInit, PlansNumbered DEF Init
<1>8. focus = "backups" => Storage!BackupInv BY Storage!BackupInit, BackupsDated DEF Init
<1>9. focus = "provisioning" => Provision!ProvInv BY Provision!ProvInit, MachinesStocked DEF Init
<1>10. focus = "limit" => Limit!OutboxInv BY Limit!OutboxInit, LimitConstants DEF Init
<1>11. focus = "reminders" => Reminder!OutboxInv BY Reminder!OutboxInit, ReminderConstants DEF Init
<1>12. focus = "outbox" => Queue!OutboxInv BY Queue!OutboxInit, QueueConstants DEF Init
<1> QED BY <1>1, <1>2, <1>3, <1>4, <1>5, <1>6, <1>7, <1>8, <1>9, <1>10, <1>11, <1>12 DEF Kept

\* Every step keeps them.
LEMMA KeptNext == ASSUME Kept, [Next]_vars PROVE Kept'
<1>1. focus = "store" => Storage!StoreInv' BY StepOfFocus, Storage!StoreNext DEF Kept
<1>2. focus = "audit" => Storage!AuditInv' BY StepOfFocus, Storage!AuditNext DEF Kept
<1>3. focus = "config" => Change!ConfigInv' BY StepOfFocus, Change!ConfigNext DEF Kept
<1>4. focus = "rollout" => Change!Inv' BY StepOfFocus, Change!RolloutNext DEF Kept
<1>5. focus = "sessions" => Storage!SessionInv' /\ Storage!TicketInv'
  BY StepOfFocus, Storage!SessionNext, Storage!TicketNext, Storage!EndedIsRefused DEF Kept
<1>6. focus = "evacuation" => Worker!EvacInv' BY StepOfFocus, Worker!EvacNext DEF Kept
<1>7. focus = "replacement" => Worker!WorkInv' BY StepOfFocus, Worker!WorkNext DEF Kept
<1>8. focus = "backups" => Storage!BackupInv' BY StepOfFocus, Storage!BackupNext DEF Kept
<1>9. focus = "provisioning" => Provision!ProvInv' BY StepOfFocus, Provision!ProvNext DEF Kept
<1>10. focus = "limit" => Limit!OutboxInv'
  BY StepOfFocus, Limit!NextStep, LimitConstants DEF Kept, Limit!Safe
<1>11. focus = "reminders" => Reminder!OutboxInv'
  BY StepOfFocus, Reminder!NextStep, ReminderConstants DEF Kept, Reminder!Safe
<1>12. focus = "outbox" => Queue!OutboxInv'
  BY StepOfFocus, Queue!NextStep, QueueConstants DEF Kept, Queue!Safe
<1>13. focus' = focus BY StepOfFocus
<1> QED
  BY <1>1, <1>2, <1>3, <1>4, <1>5, <1>6, <1>7, <1>8, <1>9, <1>10, <1>11, <1>12, <1>13 DEF Kept

-----------------------------------------------------------------------------
\* The component in focus keeps its inductive invariant.
THEOREM OperationsInvariant == Spec => []Kept
<1>1. Init => Kept BY KeptInit
<1>2. Kept /\ [Next]_vars => Kept' BY KeptNext
<1> QED BY <1>1, <1>2, PTL DEF Spec

\* Nothing that cannot be repeated happens twice (replacementFence, Run's check of the plan, the
\* journal's key of a due time, the started mark of a restore, the status of a revision).
THEOREM NothingTwice == Spec => []NothingHappensTwice
<1>1. Kept => NothingHappensTwice
  <2>1. Provision!ProvInv => Provision!Prov!ExecutedOnce BY Provision!ProvPromises
  <2>2. Worker!WorkInv => Worker!Work!DestroyedOnce /\ Worker!Work!OnlyOneActs BY Worker!WorkPromises
  <2>3. Storage!BackupInv => Storage!Backup!DueStartsOnce /\ Storage!Backup!ResetOnce BY Storage!BackupPromises
  <2>4. Change!ConfigInv => Change!Conf!AppliedOnce BY DEF Change!ConfigInv, Change!Once, Change!Conf!AppliedOnce
  <2> QED BY <2>1, <2>2, <2>3, <2>4 DEF Kept, NothingHappensTwice
<1> QED BY <1>1, OperationsInvariant, PTL

\* What the program made at the provider has its record and its plan, and what was closed as
\* deleted is gone (saveOwned before CreateMachine, DeleteOwned before the record).
THEOREM MachinesAccounted == Spec => []MachinesAreAccountedFor
<1>1. Kept => MachinesAreAccountedFor BY Provision!ProvPromises DEF Kept, MachinesAreAccountedFor
<1> QED BY <1>1, OperationsInvariant, PTL

\* Cleanups spare registered clusters, and a foreign VM is lost only in the window after the last
\* ownership check (cleanupRecord, DeleteOwned).
THEOREM DeletionsOwned == Spec => DeletesOnlyItsOwn
<1>1. Kept /\ [Next]_vars
        => [focus = "provisioning" => Provision!Prov!CleanupSparesClusters /\ Provision!Prov!ForeignUntouched]_vars
  BY StepOfFocus, Provision!CleanupSpares, Provision!ForeignSpared DEF Kept
<1> QED BY <1>1, OperationsInvariant, PTL DEF Spec, DeletesOnlyItsOwn

\* A durable record knows what was done to a replaced worker, a successful plan is done, and an
\* interrupted one has one successor (replacementStep, RunReplacement, PlanReplacementResume).
THEOREM PlansAreTruthful == Spec => []PlansTellTheTruth
<1>1. Kept => PlansTellTheTruth BY Worker!WorkPromises DEF Kept, PlansTellTheTruth
<1> QED BY <1>1, OperationsInvariant, PTL

\* The Node is removed only while the VM is away or its evidence is fresh (DeleteStaleNode's guard).
THEOREM NodesOutliveVMs == Spec => NodeOutlivesVM
<1>1. Kept /\ [Next]_vars => [focus = "replacement" => Worker!Work!NodeOutlivesVM]_vars
  BY StepOfFocus, Worker!NodeGuarded DEF Kept
<1> QED BY <1>1, OperationsInvariant, PTL DEF Spec, NodeOutlivesVM

\* The old VM is destroyed only when what held a volume to its node during the whole second
\* inventory was reviewed (ReplacementImpact, replacementImpactSubset).
THEOREM NothingDestroyedUnreviewed == Spec => []DestroyedWasReviewed
<1>1. Kept => DestroyedWasReviewed BY DEF Kept, DestroyedWasReviewed, Worker!EvacInv
<1> QED BY <1>1, OperationsInvariant, PTL

\* Only checked Pod instances are evicted, and a drained node stays empty (evictPodChecked).
THEOREM DrainsAreSafe == Spec => []DrainIsSafe
<1>1. Kept => DrainIsSafe BY DEF Kept, DrainIsSafe, Worker!EvacInv
<1> QED BY <1>1, OperationsInvariant, PTL

\* Every record is readable with the configured key file, and a keyring that lacks a needed key
\* is refused at start (RotateKey, writeKeys, Open).
THEOREM RegistryReadable == Spec => []RecordsReadable
<1>1. Kept => RecordsReadable BY DEF Kept, RecordsReadable, Storage!StoreInv
<1> QED BY <1>1, OperationsInvariant, PTL

\* What was carried out has a synced intent in the journal (auditMutationGuard).
THEOREM MutationsTraced == Spec => []PerformedIsAudited
<1>1. Kept => PerformedIsAudited BY Storage!AuditSafe DEF Kept, PerformedIsAudited
<1> QED BY <1>1, OperationsInvariant, PTL

\* A record that lost more than its newline is the last one, at most one lost only that, and the view shows the newest records (Record, NewAuditManager).
THEOREM JournalTrue == Spec => []JournalReadsTrue
<1>1. Kept => JournalReadsTrue BY Storage!AuditSafe DEF Kept, JournalReadsTrue
<1> QED BY <1>1, OperationsInvariant, PTL

\* Every listed remote restore point is at the target's location, or its removal was requested
\* (Run, prune).
THEOREM RecordsAreThere == Spec => []RecordedIsThere
<1>1. Kept => RecordedIsThere BY Storage!BackupPromises DEF Kept, RecordedIsThere
<1> QED BY <1>1, OperationsInvariant, PTL

\* A restore that reads stopped or failed touched no control plane, one that reads succeeded
\* recovered them all, and none is recovered beside an old one (runRestore).
THEOREM RestoresEndHonestly == Spec => []RestoreEndsHonestly
<1>1. Kept => RestoreEndsHonestly BY Storage!BackupPromises DEF Kept, RestoreEndsHonestly
<1> QED BY <1>1, OperationsInvariant, PTL

\* No change of an alert is sent twice without an operator's retry, attempts are bounded, and a send
\* is on disk as a claim before it happens (DeliverOnce).
THEOREM OutboxHonest == Spec => []OutboxIsHonest
<1>1. Kept => OutboxIsHonest BY Queue!InvHonest DEF Kept, OutboxIsHonest, Queue!OutboxIsHonest
<1> QED BY <1>1, OperationsInvariant, PTL

\* The changes of an alert are sent in their order, and what is stuck, being sent or still current
\* is never forgotten (DeliverOnce, eligible, trimHistory).
THEOREM OutboxOrderly == Spec => OutboxIsOrderly
<1>1. Kept /\ [Next]_vars => [focus = "outbox" => Queue!ChangesInOrder /\ Queue!NothingForgotten]_vars
  BY StepOfFocus, Queue!NextStep, QueueConstants DEF Kept, Queue!Safe
<1> QED BY <1>1, OperationsInvariant, PTL DEF Spec, OutboxIsOrderly

\* Old archives are given up for newer complete copies only, and the outbox at its limit forgets
\* nothing that still matters (prune, trimHistory).
THEOREM TrimmingSafe == Spec => TrimmingIsSafe
<1>1. Kept /\ [Next]_vars => /\ focus = "backups" => Storage!Backup!RetentionKeepsNewest
                             /\ focus = "limit" => Limit!NothingForgotten
                             /\ focus = "reminders" => Reminder!NothingForgotten
  <2>1. SUFFICES ASSUME Kept, [Next]_vars
                 PROVE  /\ focus = "backups" => Storage!Backup!RetentionKeepsNewest
                        /\ focus = "limit" => Limit!NothingForgotten
                        /\ focus = "reminders" => Reminder!NothingForgotten
    OBVIOUS
  <2>2. focus = "backups" => Storage!Backup!RetentionKeepsNewest
    BY <2>1, StepOfFocus, Storage!NewestKept DEF Kept
  <2>3. focus = "limit" => Limit!NothingForgotten
    BY <2>1, StepOfFocus, Limit!NextStep, LimitConstants DEF Kept, Limit!Safe
  <2>4. focus = "reminders" => Reminder!NothingForgotten
    BY <2>1, StepOfFocus, Reminder!NextStep, ReminderConstants DEF Kept, Reminder!Safe
  <2> QED BY <2>2, <2>3, <2>4
<1> QED BY <1>1, OperationsInvariant, PTL DEF Spec, TrimmingIsSafe

\* A revision that reads applied is one the node ran or accepted (Run, verify).
THEOREM AppliedProved == Spec => []AppliedIsProved
<1>1. Kept => AppliedIsProved BY DEF Kept, AppliedIsProved, Change!ConfigInv
<1> QED BY <1>1, OperationsInvariant, PTL

\* An apply replaces the configuration its plan was made from (the comparison in Run).
THEOREM ReviewedReplaced == Spec => ReplacesReviewed
<1>1. Kept /\ [Next]_vars => [focus = "config" => Change!Conf!ReplacesReviewed]_vars
  BY StepOfFocus, Change!ConfigReplaces DEF Kept
<1> QED BY <1>1, OperationsInvariant, PTL DEF Spec, ReplacesReviewed

\* At most one node is out of service because of rollouts, and etcd keeps its quorum (Preflight).
THEOREM ServiceSurvivesRollouts == Spec => []ServiceSurvives
<1>1. Kept => ServiceSurvives BY Change!RolloutSafe DEF Kept, ServiceSurvives
<1> QED BY <1>1, OperationsInvariant, PTL

\* A rollout strands a node only when it reads interrupted, and one that reads succeeded is done
\* (ErrUncertain and the checks after the last node in Run).
THEOREM RolloutsEndClean == Spec => RolloutEndsClean
<1>1. Kept /\ [Next]_vars => [focus = "rollout" => Change!StrandedIsReviewed /\ Change!RolloutIsDone]_vars
  BY StepOfFocus, Change!RolloutEnds DEF Kept
<1> QED BY <1>1, OperationsInvariant, PTL DEF Spec, RolloutEndsClean

\* A session that ended is never accepted again (changeState, NewPersistentAuthManager).
THEOREM SessionsStayEnded == Spec => []EndedStaysEnded
<1>1. Kept => EndedStaysEnded BY Storage!EndedIsRefused DEF Kept, EndedStaysEnded
<1> QED BY <1>1, OperationsInvariant, PTL

\* An enabled local administrator remains (UpdateUser).
THEOREM AdministratorRemains == Spec => []AdminRemains
<1>1. Kept => AdminRemains BY DEF Kept, AdminRemains, Storage!SessionInv
<1> QED BY <1>1, OperationsInvariant, PTL

\* A ticket opens one download, of a session that has not ended (DownloadTickets.Authenticate).
THEOREM TicketsSafe == Spec => []TicketIsSafe
<1>1. Kept => TicketIsSafe BY Storage!TicketSafe DEF Kept, TicketIsSafe
<1> QED BY <1>1, OperationsInvariant, PTL
=============================================================================
