---------------------------- MODULE Provisioning ----------------------------
(***************************************************************************)
(* Machines the program creates and removes at a provider: plans, the      *)
(* encrypted ownership records, the job that executes a plan, and the      *)
(* removal of a provider (internal/operations/provision*.go, with          *)
(* internal/proxmox/provider.go and internal/api/providers.go).            *)
(*                                                                         *)
(* Scope 0 is the fleet, which creates clusters and cleans up after failed *)
(* plans; the cluster that plan p registered has scope p, which adds and   *)
(* deletes workers.  Each scope has a job manager of its own, so one job   *)
(* per scope runs at a time.  The provider is shared with administrators   *)
(* who create and remove VMs: a VM carries the ownership marker of one     *)
(* machine record, or is Foreign.  Failing saves and calls, crashes,       *)
(* interfering administrators, expiries, repeated confirmations and        *)
(* provider removals draw on the budget MaxFaults.                         *)
(***************************************************************************)
EXTENDS Naturals, FiniteSets, Sequences, SequencesExt, FiniteSetsExt

CONSTANTS Plans,       \* ids of plans, 1..n
          Machines,    \* ids of ownership records, 1..n
          Vmids,       \* VMIDs of the provider, a set of numbers
          Specs,       \* requests for machines: [roles: sequence of cp and worker, image]
          MaxFaults    \* faults in one behaviour

VARIABLES plans,       \* [Plans -> Plan or NoPlan], durable
          records,     \* [Machines -> ownership record], durable
          registry,    \* plans whose cluster is registered, durable
          provider,    \* the provider record: none, saved or deleted, durable
          vms,         \* [occupied VMIDs -> Machines or Foreign]
          pending,     \* machines whose lost creation request may still take effect
          isos,        \* plans whose boot image is on the provider
          taken,       \* scopes whose job is to delete a VMID an administrator took since its check
          up,          \* the process: down, starting or up
          draft,       \* the plan a handler is preparing: <<>> or <<id, Plan>>
          removal,     \* the provider removal in progress: idle, plans, machines
          requested,   \* [Plans -> jobs accepted and not started]
          starts,      \* [Plans -> executions that got past the status check]
          run,         \* [Scopes -> the executing job, or Idle]
          faults

durable == <<plans, records, registry, provider>>
world == <<vms, pending, isos, taken>>
handlers == <<up, draft, removal, requested>>
vars == <<durable, world, handlers, starts, run, faults>>

Fleet == 0
Foreign == 0
Scopes == Plans \cup {Fleet}
Idle == [pc |-> "idle"]
NoPlan == [status |-> "none"]
NoRecord == [status |-> "none"]

\* provisionState; "image" is how far the boot image got, "configs" that credentials exist.
Plan == [kind : {"cluster-create", "worker-create", "worker-delete", "machine-cleanup"},
         scope : Scopes, roles : {x.roles : x \in Specs} \cup {<<>>}, target : Machines \cup {0},
         status : {"planned", "running", "succeeded", "failed", "interrupted"},
         machines : Seq(Machines), image : {"manual", "profile", "named"},
         configs : BOOLEAN, imported : BOOLEAN, expired : BOOLEAN]

\* OwnedMachineRecord.
Record == [status : {"reserved", "created", "booting", "maintenance", "config-applied",
                     "ready", "deleted"},
           cluster : Scopes, plan : Plans, vmid : Vmids, role : {"cp", "worker"}]

Init == /\ plans = [p \in Plans |-> NoPlan] /\ records = [m \in Machines |-> NoRecord]
        /\ registry = {} /\ provider = "none"
        /\ vms = <<>> /\ pending = {} /\ isos = {} /\ taken = {}
        /\ up = "up" /\ draft = <<>> /\ removal = "idle"
        /\ requested = [p \in Plans |-> 0] /\ starts = requested
        /\ run = [s \in Scopes |-> Idle] /\ faults = 0

Fault == faults < MaxFaults /\ faults' = faults + 1
NoFault == UNCHANGED faults
Live(m) == records[m].status \notin {"none", "deleted"}

\* The VMs when v holds a VM of m, and when it holds none.
Holding(v, m) == [w \in DOMAIN vms \cup {v} |-> IF w = v THEN m ELSE vms[w]]
Without(v) == [w \in DOMAIN vms \ {v} |-> vms[w]]

\* VerifyOwned: the VM at the recorded VMID carries the record's name, marker, UUID and MAC.
Owned(m) == Live(m) /\ records[m].vmid \in DOMAIN vms /\ vms[records[m].vmid] = m

-----------------------------------------------------------------------------
(* Planning and confirmation. *)

\* ValidateProvision: which lists of machines a kind accepts, and in which scope.
ValidateProvision(kind, s, roles) ==
    LET cp == Cardinality({i \in DOMAIN roles : roles[i] = "cp"})
    IN CASE kind = "cluster-create"  -> s = Fleet /\ cp \in {1, 3}
         [] kind = "worker-create"   -> s # Fleet /\ roles # <<>> /\ cp = 0
         [] kind = "worker-delete"   -> s # Fleet /\ roles = <<>>
         [] kind = "machine-cleanup" -> s = Fleet /\ roles = <<>>

\* Mutant: the registration of the source plan's cluster is not looked at.
UnimportedAny(p) == TRUE

\* Neither an import that was begun nor a registered cluster of the plan's identity.
Unimported(p) == ~plans[p].imported /\ (plans[p].configs => p \notin registry)

\* cleanupRecord: a machine of a failed cluster creation that never became a cluster.
CleanupRecord(m) ==
    /\ Live(m) /\ records[m].status # "ready" /\ records[m].cluster = Fleet
    /\ LET source == plans[records[m].plan]
       IN /\ source.status \in {"failed", "interrupted"} /\ source.scope = Fleet
          /\ m \in ToSet(source.machines)
    /\ Unimported(records[m].plan)

\* A registered worker of this cluster.
DeletableWorker(m, s) == Live(m) /\ records[m].cluster = s /\ records[m].role = "worker"

\* The id of the next plan; none while another one is being made.
NewId == {p \in Plans : /\ up = "up" /\ draft = <<>> /\ plans[p] = NoPlan
                        /\ \A q \in 1..(p - 1) : plans[q] # NoPlan}

\* plan(): everything is validated against the provider before the plan is saved.
PreparePlan(p, kind, s, roles, target, image) ==
    /\ p \in NewId /\ provider = "saved" /\ s \in registry \cup {Fleet}
    /\ ValidateProvision(kind, s, roles)
    /\ IF roles # <<>> THEN target = 0
       ELSE /\ target # 0 /\ image = "manual" /\ Owned(target)
            /\ IF kind = "worker-delete" THEN DeletableWorker(target, s) ELSE CleanupRecord(target)
    /\ draft' = <<p, [kind |-> kind, scope |-> s, roles |-> roles, target |-> target,
                      status |-> "planned", machines |-> <<>>, image |-> image,
                      configs |-> FALSE, imported |-> FALSE, expired |-> FALSE]>>
    /\ UNCHANGED <<durable, world, up, removal, requested, starts, run, faults>>

SavePlan ==
    /\ draft # <<>>
    /\ plans' = [plans EXCEPT ![draft[1]] = draft[2]] /\ draft' = <<>>
    /\ UNCHANGED <<records, registry, provider, world, up, removal, requested, starts, run, faults>>

\* Thirty minutes pass.
ExpirePlan(p) ==
    /\ plans[p].status = "planned" /\ ~plans[p].expired /\ Fault
    /\ plans' = [plans EXCEPT ![p].expired = TRUE]
    /\ UNCHANGED <<records, registry, provider, world, handlers, starts, run>>

\* Request and Submit: nothing marks the plan, so it can be confirmed twice.
Request(p) ==
    /\ up = "up" /\ plans[p].status = "planned" /\ ~plans[p].expired /\ requested[p] < 2
    /\ requested' = [requested EXCEPT ![p] = @ + 1]
    /\ IF requested[p] = 0 THEN NoFault ELSE Fault
    /\ UNCHANGED <<durable, world, up, draft, removal, starts, run>>

-----------------------------------------------------------------------------
(* Execution.  The job works on run[s].mem and saves it where the code does. *)

Job(s, pc) == run[s].pc = pc
Mem(s) == run[s].mem
Cur(s) == run[s].mem.machines[run[s].i]
Past(s) == run[s].i > Len(run[s].mem.machines)

Goto(s, pc) == run' = [run EXCEPT ![s].pc = pc]
Rewind(s, pc) == run' = [run EXCEPT ![s].pc = pc, ![s].i = 1]
NextMachine(s, pc) == run' = [run EXCEPT ![s].pc = pc, ![s].i = @ + 1]
Fails(s, err) == run' = [run EXCEPT ![s].pc = "end", ![s].err = err]
FailsSaving(s, mem) == run' = [run EXCEPT ![s].pc = "end", ![s].err = "failed", ![s].mem = mem]
Record1(m, status) == records' = [records EXCEPT ![m].status = status]

\* Mutant: the status of the plan is not checked again when the job starts.
RunStartAgain(s, p) ==
    /\ up = "up" /\ run[s] = Idle /\ requested[p] > 0 /\ plans[p].scope = s
    /\ requested' = [requested EXCEPT ![p] = @ - 1] /\ NoFault
    /\ plans' = [plans EXCEPT ![p].status = "running"] /\ starts' = [starts EXCEPT ![p] = @ + 1]
    /\ run' = [run EXCEPT ![s] = [pc |-> "image", plan |-> p, mem |-> plans'[p], i |-> 1, err |-> "none"]]
    /\ UNCHANGED <<records, registry, provider, world, up, draft, removal>>

\* Run: a consumed or expired plan ends the job; otherwise "running" is saved first.
RunStart(s, p) ==
    /\ up = "up" /\ run[s] = Idle /\ requested[p] > 0 /\ plans[p].scope = s
    /\ requested' = [requested EXCEPT ![p] = @ - 1]
    /\ IF plans[p].status = "planned" /\ ~plans[p].expired
       THEN \/ /\ plans' = [plans EXCEPT ![p].status = "running"] /\ NoFault
               /\ starts' = [starts EXCEPT ![p] = @ + 1]
               /\ run' = [run EXCEPT ![s] =
                      [pc |-> CASE plans[p].kind = "worker-delete" -> "drain"
                                [] plans[p].kind = "machine-cleanup" -> "cleanup"
                                [] OTHER -> "image",
                       plan |-> p, mem |-> plans'[p], i |-> 1, err |-> "none"]]
            \/ Fault /\ UNCHANGED <<plans, starts, run>>
       ELSE UNCHANGED <<plans, starts, run>> /\ NoFault
    /\ UNCHANGED <<records, registry, provider, world, up, draft, removal>>

\* prepareImage and providerPreflight: the file's name is saved before it is asked for.
PrepareImage(s) ==
    LET named == [Mem(s) EXCEPT !.image = "named"]
    IN /\ Job(s, "image")
       /\ \/ Mem(s).image = "manual" /\ Goto(s, "allocate") /\ NoFault /\ UNCHANGED plans
          \/ /\ Mem(s).image = "profile" /\ NoFault
             /\ plans' = [plans EXCEPT ![run[s].plan] = named]
             /\ run' = [run EXCEPT ![s].pc = "download", ![s].mem = named]
          \/ Fault /\ UNCHANGED plans
             /\ (Fails(s, "failed") \/ (Mem(s).image = "profile" /\ FailsSaving(s, named)))
       /\ UNCHANGED <<records, registry, provider, world, handlers, starts>>

DownloadISO(s) ==
    /\ Job(s, "download")
    /\ \/ isos' = isos \cup {run[s].plan} /\ Goto(s, "allocate") /\ NoFault
       \/ Fault /\ isos' \in {isos, isos \cup {run[s].plan}} /\ Fails(s, "uncertain")
    /\ UNCHANGED <<durable, vms, pending, taken, handlers, starts>>

\* NextID and saveOwned: the VMID is free now and is not reserved at the provider.
Reserve(s) ==
    LET free == Vmids \ DOMAIN vms
        new  == {n \in Machines : records[n].status = "none"}
        mem  == [Mem(s) EXCEPT !.machines = Append(Mem(s).machines, Min(new))]
    IN /\ Job(s, "allocate") /\ run[s].i <= Len(Mem(s).roles) /\ free # {} /\ new # {}
       /\ \/ /\ records' = [records EXCEPT ![Min(new)] =
                    [status |-> "reserved", cluster |-> s, plan |-> run[s].plan,
                     vmid |-> Min(free), role |-> Mem(s).roles[run[s].i]]]
             /\ run' = [run EXCEPT ![s].pc = "list", ![s].mem = mem]
             /\ NoFault
          \/ Fault /\ Fails(s, "failed") /\ UNCHANGED records
       /\ UNCHANGED <<plans, registry, provider, world, handlers, starts>>

\* Mutant: the machine is requested before the plan that lists it is saved.
ListMachineLater(s) ==
    /\ Job(s, "list") /\ Goto(s, "create") /\ NoFault
    /\ UNCHANGED <<durable, world, handlers, starts>>

ListMachine(s) ==
    /\ Job(s, "list")
    /\ \/ plans' = [plans EXCEPT ![run[s].plan] = Mem(s)] /\ Goto(s, "create") /\ NoFault
       \/ Fault /\ Fails(s, "failed") /\ UNCHANGED plans
    /\ UNCHANGED <<records, registry, provider, world, handlers, starts>>

\* beginMachineIntent and CreateMachine; the provider refuses an occupied VMID.
CreateMachine(s) ==
    LET m == Cur(s)
        v == records[m].vmid
    IN /\ Job(s, "create")
       /\ \/ /\ v \notin DOMAIN vms /\ NoFault
             /\ vms' = Holding(v, m) /\ Goto(s, "verify") /\ UNCHANGED pending
          \/ v \in DOMAIN vms /\ NoFault /\ Fails(s, "uncertain") /\ UNCHANGED <<vms, pending>>
          \/ Fault /\ Fails(s, "failed") /\ UNCHANGED <<vms, pending>>
          \/ Fault /\ Fails(s, "uncertain") /\ pending' = pending \cup {m} /\ UNCHANGED vms
       /\ UNCHANGED <<durable, isos, taken, handlers, starts>>

\* A creation request whose answer was lost takes effect.
LateCreate(m) ==
    LET v == records[m].vmid
    IN /\ m \in pending /\ pending' = pending \ {m}
       /\ vms' = IF v \in DOMAIN vms THEN vms ELSE Holding(v, m)
       /\ UNCHANGED <<durable, isos, taken, handlers, starts, run, faults>>

\* A step on the current machine that needs the VM to be the recorded one.
OwnedStep(s, status, done, lost) ==
    \/ Owned(Cur(s)) /\ Record1(Cur(s), status) /\ done /\ NoFault
    \/ ~Owned(Cur(s)) /\ Fails(s, lost) /\ NoFault /\ UNCHANGED records
    \/ Fault /\ Fails(s, "failed") /\ UNCHANGED records
    \/ Fault /\ Fails(s, lost) /\ UNCHANGED records

\* WaitTask, VerifyOwned, the proof of the intent and the record.
VerifyCreated(s) ==
    /\ Job(s, "verify") /\ OwnedStep(s, "created", Goto(s, "boot"), "uncertain")
    /\ UNCHANGED <<plans, registry, provider, world, handlers, starts>>

StartOwned(s) ==
    /\ Job(s, "boot") /\ OwnedStep(s, "booting", NextMachine(s, "allocate"), "uncertain")
    /\ UNCHANGED <<plans, registry, provider, world, handlers, starts>>

\* Every machine exists: go on from the first one.
Allocated(s) ==
    /\ Job(s, "allocate") /\ run[s].i > Len(Mem(s).roles) /\ Rewind(s, "address")
    /\ UNCHANGED <<durable, world, handlers, starts, faults>>

\* MachineAddress polled until the guest agent answers or ten minutes pass.
MachineAddress(s) ==
    /\ Job(s, "address") /\ ~Past(s)
    /\ OwnedStep(s, "maintenance", NextMachine(s, "address"), "failed")
    /\ UNCHANGED <<plans, registry, provider, world, handlers, starts>>

\* generateConfigs: credentials are saved before any machine receives them.
GenerateConfigs(s) ==
    LET mem == [Mem(s) EXCEPT !.configs = Mem(s).kind = "cluster-create"]
    IN /\ Job(s, "address") /\ Past(s)
       /\ \/ /\ plans' = [plans EXCEPT ![run[s].plan] = mem] /\ NoFault
             /\ run' = [run EXCEPT ![s].pc = "apply", ![s].i = 1, ![s].mem = mem]
          \/ Fault /\ (FailsSaving(s, mem) \/ Fails(s, "failed")) /\ UNCHANGED plans
       /\ UNCHANGED <<records, registry, provider, world, handlers, starts>>

\* configureMachines: the maintenance API of the address is reached without proof of ownership.
ApplyConfig(s) ==
    /\ Job(s, "apply") /\ ~Past(s)
    /\ \/ /\ Owned(Cur(s)) /\ Record1(Cur(s), "config-applied") /\ NextMachine(s, "apply") /\ NoFault
       \/ ~Owned(Cur(s)) /\ Fails(s, "failed") /\ NoFault /\ UNCHANGED records
       \/ Fault /\ (\E e \in {"failed", "uncertain"} : Fails(s, e)) /\ UNCHANGED records
    /\ UNCHANGED <<plans, registry, provider, world, handlers, starts>>

\* verifyConfiguredMachines up to the registration: bootstrap, add-ons, every machine Ready.
Join(s) ==
    /\ Job(s, "apply") /\ Past(s)
    /\ \/ /\ \A m \in ToSet(Mem(s).machines) : Owned(m)
          /\ Rewind(s, IF Mem(s).kind = "cluster-create" THEN "import" ELSE "ready") /\ NoFault
       \/ (\E m \in ToSet(Mem(s).machines) : ~Owned(m)) /\ Fails(s, "failed") /\ NoFault
       \/ Fault /\ (\E e \in {"failed", "uncertain"} : Fails(s, e))
    /\ UNCHANGED <<durable, world, handlers, starts>>

\* ImportStarted is saved before the registry is asked.
ImportStarted(s) ==
    LET mem == [Mem(s) EXCEPT !.imported = TRUE]
    IN /\ Job(s, "import")
       /\ \/ /\ plans' = [plans EXCEPT ![run[s].plan] = mem] /\ NoFault
             /\ run' = [run EXCEPT ![s].pc = "register", ![s].mem = mem]
          \/ Fault /\ FailsSaving(s, mem) /\ UNCHANGED plans
       /\ UNCHANGED <<records, registry, provider, world, handlers, starts>>

RegisterCluster(s) ==
    /\ Job(s, "register")
    /\ \/ registry' = registry \cup {run[s].plan} /\ Goto(s, "ready") /\ NoFault
       \/ Fault /\ registry' \in {registry, registry \cup {run[s].plan}} /\ Fails(s, "failed")
    /\ UNCHANGED <<plans, records, provider, world, handlers, starts>>

\* The records of the created machines move to the cluster, one after the other.
AdoptMachine(s) ==
    /\ Job(s, "ready") /\ ~Past(s)
    /\ \/ /\ records' = [records EXCEPT ![Cur(s)].status = "ready",
                             ![Cur(s)].cluster = IF Mem(s).kind = "cluster-create" THEN run[s].plan ELSE s]
          /\ NextMachine(s, "ready") /\ NoFault
       \/ Fault /\ Fails(s, "failed") /\ UNCHANGED records
    /\ UNCHANGED <<plans, registry, provider, world, handlers, starts>>

Complete(s) ==
    /\ Job(s, "ready") /\ Past(s) /\ Goto(s, "end")
    /\ UNCHANGED <<durable, world, handlers, starts, faults>>

-----------------------------------------------------------------------------
(* Deletion: worker-delete in a cluster, machine-cleanup in the fleet. *)

\* deleteWorker up to the intent: the record, whatever its status but deleted, and the ownership,
\* then a Node with its name and address, the Talos role and the drain, each of which may refuse.
DrainWorker(s) ==
    LET m == Mem(s).target
    IN /\ Job(s, "drain")
       /\ \/ DeletableWorker(m, s) /\ Owned(m) /\ Goto(s, "stop")
          \/ Fails(s, "failed")
       /\ UNCHANGED <<durable, world, handlers, starts, faults>>

CleanupMachine(s) ==
    LET m == Mem(s).target
    IN /\ Job(s, "cleanup")
       /\ IF CleanupRecord(m) /\ Owned(m) THEN Goto(s, "stop") ELSE Fails(s, "failed")
       /\ UNCHANGED <<durable, world, handlers, starts, faults>>

\* DeleteOwned's first half: the intent, the first ownership check, the stop.
StopOwned(s) ==
    /\ Job(s, "stop")
    /\ \/ Owned(Mem(s).target) /\ Goto(s, "recheck") /\ NoFault
       \/ ~Owned(Mem(s).target) /\ Fails(s, "uncertain") /\ NoFault
       \/ Fault /\ (\E e \in {"failed", "uncertain"} : Fails(s, e))
    /\ UNCHANGED <<durable, world, handlers, starts>>

\* Its second half: the VM must still be the one the record names once it has stopped.
Recheck(s) ==
    /\ Job(s, "recheck")
    /\ IF Owned(Mem(s).target) THEN Goto(s, "delete") ELSE Fails(s, "uncertain")
    /\ taken' = taken \ {s}
    /\ UNCHANGED <<durable, vms, pending, isos, handlers, starts, faults>>

\* DELETE of the VMID, then its task: whatever holds the VMID is destroyed.
DeleteOwned(s) ==
    LET v == records[Mem(s).target].vmid
    IN /\ Job(s, "delete")
       /\ \/ v \in DOMAIN vms /\ vms' = Without(v) /\ Goto(s, "gone") /\ NoFault
          \/ v \notin DOMAIN vms /\ Fails(s, "uncertain") /\ NoFault /\ UNCHANGED vms
          \/ Fault /\ vms' \in {vms, Without(v)} /\ Fails(s, "uncertain")
       /\ UNCHANGED <<durable, pending, isos, taken, handlers, starts>>

\* The proof of the intent, then the record.
RecordDeleted(s) ==
    /\ Job(s, "gone")
    /\ \/ Record1(Mem(s).target, "deleted") /\ NoFault
          /\ (Goto(s, "end") \/ Fails(s, "failed"))   \* the Node object may not be removable
       \/ Fault /\ Fails(s, "failed") /\ UNCHANGED records
    /\ UNCHANGED <<plans, registry, provider, world, handlers, starts>>

\* The deferred save of the outcome.
RunEnd(s) ==
    LET status == CASE run[s].err = "none" -> "succeeded"
                    [] run[s].err = "failed" -> "failed"
                    [] run[s].err = "uncertain" -> "interrupted"
    IN /\ Job(s, "end") /\ run' = [run EXCEPT ![s] = Idle]
       /\ \/ plans' = [plans EXCEPT ![run[s].plan] = [Mem(s) EXCEPT !.status = status]] /\ NoFault
          \/ Fault /\ UNCHANGED plans
       /\ UNCHANGED <<records, registry, provider, world, handlers, starts>>

-----------------------------------------------------------------------------
(* Providers, administrators and the process. *)

SaveProvider ==
    /\ up = "up" /\ provider = "none" /\ provider' = "saved"
    /\ UNCHANGED <<plans, records, registry, world, handlers, starts, run, faults>>

ActivePlan(p) == plans[p].status = "running" \/ (plans[p].status = "planned" /\ ~plans[p].expired)

\* DeleteProvider reads the plans, then the machines, then deletes: three store accesses.
DeleteProvider ==
    /\ provider = "saved"
    /\ \/ /\ removal = "idle" /\ up = "up" /\ \A p \in Plans : ~ActivePlan(p)
          /\ removal' = "plans" /\ UNCHANGED provider /\ Fault
       \/ /\ removal = "plans" /\ UNCHANGED provider /\ NoFault
          /\ removal' = IF \E m \in Machines : Live(m) THEN "idle" ELSE "machines"
       \/ removal = "machines" /\ removal' = "idle" /\ provider' = "deleted" /\ NoFault
    /\ UNCHANGED <<plans, records, registry, world, up, draft, requested, starts, run>>

\* The jobs about to delete what holds v.
Deleting(v) == {s \in Scopes : Job(s, "delete") /\ records[Mem(s).target].vmid = v}

\* An administrator removes one of our VMs, and may give its VMID to another VM.
AdminRemoves(v) ==
    /\ v \in DOMAIN vms /\ vms[v] # Foreign /\ Fault
    /\ \/ vms' = Without(v) /\ UNCHANGED taken
       \/ vms' = Holding(v, Foreign) /\ taken' = taken \cup Deleting(v)
    /\ UNCHANGED <<durable, pending, isos, handlers, starts, run>>

AdminTakes(v) ==
    /\ v \notin DOMAIN vms /\ Fault
    /\ vms' = Holding(v, Foreign) /\ taken' = taken \cup Deleting(v)
    /\ UNCHANGED <<durable, pending, isos, handlers, starts, run>>

\* A request that was being answered when the process died may still take effect.
Crash ==
    /\ up # "down" /\ Fault
    /\ up' = "down" /\ draft' = <<>> /\ removal' = "idle"
    /\ requested' = [p \in Plans |-> 0] /\ run' = [s \in Scopes |-> Idle]
    /\ UNCHANGED <<durable, world, starts>>

\* ReconcileInterrupted: nothing is resumed; the plans that were running are interrupted.
ReconcileInterrupted ==
    \/ /\ up = "down" /\ up' = "starting" /\ UNCHANGED plans
    \/ /\ up = "starting"
       /\ LET left == {p \in Plans : plans[p].status = "running"}
          IN IF left = {} THEN up' = "up" /\ UNCHANGED plans
             ELSE UNCHANGED up /\ plans' = [plans EXCEPT ![Min(left)].status = "interrupted"]

Restart == /\ ReconcileInterrupted
           /\ UNCHANGED <<records, registry, provider, world, draft, removal, requested, starts, run, faults>>

Next ==
    \/ \E p \in NewId, s \in Scopes, x \in Specs, kind \in {"cluster-create", "worker-create"} :
          PreparePlan(p, kind, s, x.roles, 0, x.image)
    \/ \E p \in NewId, s \in Scopes, m \in Machines, kind \in {"worker-delete", "machine-cleanup"} :
          PreparePlan(p, kind, s, <<>>, m, "manual")
    \/ SavePlan \/ SaveProvider \/ DeleteProvider \/ Crash \/ Restart
    \/ \E p \in Plans : ExpirePlan(p) \/ Request(p)
    \/ \E v \in Vmids : AdminRemoves(v) \/ AdminTakes(v)
    \/ \E m \in Machines : LateCreate(m)
    \/ \E s \in Scopes, p \in Plans : RunStart(s, p)
    \/ \E s \in Scopes :
          \/ PrepareImage(s) \/ DownloadISO(s) \/ Reserve(s) \/ ListMachine(s) \/ CreateMachine(s)
          \/ VerifyCreated(s) \/ StartOwned(s) \/ Allocated(s) \/ MachineAddress(s)
          \/ GenerateConfigs(s) \/ ApplyConfig(s) \/ Join(s) \/ ImportStarted(s)
          \/ RegisterCluster(s) \/ AdoptMachine(s) \/ Complete(s) \/ DrainWorker(s)
          \/ CleanupMachine(s) \/ StopOwned(s) \/ Recheck(s) \/ DeleteOwned(s)
          \/ RecordDeleted(s) \/ RunEnd(s)

Spec == Init /\ [][Next]_vars

-----------------------------------------------------------------------------
(* Properties. *)

TypeOK == /\ \A p \in Plans : plans[p] = NoPlan \/ plans[p] \in Plan
          /\ \A m \in Machines : records[m] = NoRecord \/ records[m] \in Record
          /\ \A v \in DOMAIN vms : v \in Vmids /\ vms[v] \in Machines \cup {Foreign}
          /\ registry \subseteq Plans /\ isos \subseteq Plans /\ pending \subseteq Machines
          /\ faults \in 0..MaxFaults

\* Nothing the program made at the provider is orphaned: every VM that carries a marker, and
\* every one that may still appear, has an ownership record with its VMID that a durable
\* plan lists, and every boot image is named by its durable plan.
NothingOrphaned ==
    /\ \A m \in Machines :
          m \in pending \/ (\E v \in DOMAIN vms : vms[v] = m)
          => /\ records[m] # NoRecord /\ m \in ToSet(plans[records[m].plan].machines)
             /\ \A v \in DOMAIN vms : vms[v] = m => v = records[m].vmid
    /\ \A p \in isos : plans[p] # NoPlan /\ plans[p].image = "named"

\* A machine closed as deleted is gone for good, whatever requests were lost before.
DeletedIsGone ==
    \A m \in Machines : records[m].status = "deleted"
        => m \notin pending /\ \A v \in DOMAIN vms : vms[v] # m

\* A plan is executed at most once, however often it was confirmed and restarted.
ExecutedOnce == \A p \in Plans : starts[p] <= 1

\* A step that cleans up a failed creation never destroys a machine of a registered cluster.
CleanupSparesClusters ==
    \A s \in Scopes :
       run[s].pc = "delete" /\ run'[s].pc # "delete" /\ run[s].mem.kind = "machine-cleanup"
       => records[run[s].mem.target].plan \notin registry

\* A VM of another administrator disappears only by a deletion whose job had found its own machine
\* at the VMID in its last ownership check, and only if the VMID was taken after that check.
ForeignUntouched ==
    \A v \in DOMAIN vms : vms[v] = Foreign /\ v \notin DOMAIN vms' => Deleting(v) \cap taken # {}

\* docs/provisioning.md:65: a provider is not removed while retained machines or active plans
\* still reference it.
ProviderKept ==
    provider = "deleted" => /\ \A p \in Plans : ~ActivePlan(p)
                            /\ \A m \in Machines : ~Live(m)
=============================================================================
