------------------------- MODULE ProvisioningProofs -------------------------
(***************************************************************************)
(* What provisioning promises, for any numbers of plans, machines, VMIDs   *)
(* and faults: a plan is executed once, nothing made at the provider is    *)
(* orphaned, what is closed as deleted is gone for good, and deletions hit *)
(* the program's own machines.                                             *)
(*                                                                         *)
(* The invariant says of every job what its memory knows beyond the        *)
(* durable plan, that its machines are its own, and how far it is with     *)
(* them: until it asks for a machine nobody has asked for it, and a        *)
(* machine that is about to be deleted was seen, so that no request for it *)
(* can still take effect.  A step is either of one job, of the provider's  *)
(* VMs, or of the plans; JobStep, WorldStep and PlanStep say for each what *)
(* it must keep.                                                           *)
(***************************************************************************)
EXTENDS Integers, Sequences, FiniteSets, WellFoundedInduction, TLAPS

CONSTANTS Plans, Machines, Vmids, Specs, MaxFaults
VARIABLES plans, records, registry, provider, vms, pending, isos, taken, up, draft, removal,
          requested, starts, run, faults

Prov == INSTANCE Provisioning

\* The hypothesis: ids are numbers, and 0 is none of them; requests are well formed.
Stocked ==
    /\ 0 \notin Plans /\ 0 \notin Machines /\ Plans \subseteq Nat /\ Machines \subseteq Nat
    /\ Vmids \subseteq Nat /\ MaxFaults \in Nat
    /\ \A x \in Specs : x.roles \in Seq({"cp", "worker"}) /\ x.image \in {"manual", "profile"}

\* An executing job.
Stages == {"image", "download", "allocate", "list", "create", "verify", "boot", "address", "apply",
           "import", "register", "ready", "drain", "cleanup", "stop", "recheck", "delete", "gone", "end"}
Execution == [pc : Stages, plan : Plans, mem : Prov!Plan, i : Nat \ {0},
              err : {"none", "failed", "uncertain"}]

\* The shapes of the state.
ProvShapes ==
    /\ plans \in [Plans -> Prov!Plan \cup {Prov!NoPlan}]
    /\ records \in [Machines -> Prov!Record \cup {Prov!NoRecord}]
    /\ \A v \in DOMAIN vms : v \in Vmids /\ vms[v] \in Machines \cup {Prov!Foreign}
    /\ registry \subseteq Plans /\ isos \subseteq Plans /\ pending \subseteq Machines
    /\ draft \in {<<>>} \cup (Plans \X Prov!Plan)
    /\ starts \in [Plans -> Nat] /\ faults \in 0..MaxFaults
    /\ run \in [Prov!Scopes -> Execution \cup {Prov!Idle}]

Present(m) == \E v \in DOMAIN vms : vms[v] = m
Busy(s) == run[s] # Prov!Idle
\* The machine of the job at s is reserved and not asked for.
Asking(s) == run[s].pc \in {"list", "create"}

\* A plan that removes a machine has one.
Aimed(x) == x.kind \in {"worker-delete", "machine-cleanup"} => x.target \in Machines

\* A plan that has not run has no machines, and one that has does not run again.
Untouched ==
    \A p \in Plans :
        /\ starts[p] <= 1
        /\ plans[p].status \in {"none", "planned"} => starts[p] = 0
        /\ plans[p].status = "planned" => plans[p].machines = <<>>
        /\ plans[p] # Prov!NoPlan => Aimed(plans[p])

Drafted ==
    draft # <<>> => /\ plans[draft[1]] = Prov!NoPlan /\ draft[2].status = "planned"
                    /\ draft[2].machines = <<>> /\ Aimed(draft[2])

\* What the runner knows beyond the durable plan x: nothing durable is taken back by saving mem.
Extends(mem, x) ==
    /\ mem.scope = x.scope /\ mem.status = x.status
    /\ Prov!ToSet(x.machines) \subseteq Prov!ToSet(mem.machines)
    /\ x.image = "named" => mem.image = "named"
    /\ x.imported => mem.imported

\* The plan of a job is running in its scope, and its machines have records of this plan.
Executing(s) ==
    /\ up = "up" /\ plans[run[s].plan].status = "running" /\ plans[run[s].plan].scope = s
    /\ Extends(run[s].mem, plans[run[s].plan]) /\ Aimed(run[s].mem)
    /\ \A m \in Prov!ToSet(run[s].mem.machines) :
          m \in Machines /\ records[m] # Prov!NoRecord /\ records[m].plan = run[s].plan

\* How far the job at s is with its machines; the one it will ask for has not been asked for.
Allocating(s) ==
    /\ run[s].pc \in {"image", "download", "allocate"} => Len(run[s].mem.machines) = run[s].i - 1
    /\ run[s].pc \in {"list", "create", "verify", "boot"} => Len(run[s].mem.machines) = run[s].i
    /\ run[s].pc = "download" => plans[run[s].plan].image = "named"
    /\ run[s].pc = "register" => plans[run[s].plan].imported
    /\ run[s].pc = "create" => Prov!Cur(s) \in Prov!ToSet(plans[run[s].plan].machines)
    /\ Asking(s) => /\ records[Prov!Cur(s)].status # "deleted"
                    /\ Prov!Cur(s) \notin pending /\ ~Present(Prov!Cur(s))

\* What the job at s knows of the machine it removes: the source of a cleanup never becomes a
\* cluster, and once the machine was seen at the provider nothing can bring it back.
Removing(s) ==
    LET t == run[s].mem.target
    IN /\ run[s].pc \in {"drain", "cleanup", "stop", "recheck", "delete", "gone"}
            => run[s].mem.kind \in {"worker-delete", "machine-cleanup"}
       /\ run[s].pc = "drain" => run[s].mem.kind = "worker-delete"
       /\ run[s].pc \in {"stop", "recheck", "delete", "gone"}
            => /\ records[t] # Prov!NoRecord
               /\ run[s].mem.kind = "machine-cleanup"
                    => /\ plans[records[t].plan].status \in {"failed", "interrupted"}
                       /\ records[t].plan \notin registry
       /\ run[s].pc \in {"delete", "gone"}
            => t \notin pending /\ \A q \in Prov!Scopes : Asking(q) => Prov!Cur(q) # t
       /\ run[s].pc = "delete" /\ records[t].vmid \in DOMAIN vms /\ vms[records[t].vmid] = Prov!Foreign
            => s \in taken
       /\ run[s].pc = "gone" => ~Present(t)

Jobs == \A s \in Prov!Scopes : Busy(s) => Executing(s) /\ Allocating(s) /\ Removing(s)

\* A request that may still take effect has not taken effect.
Awaited == \A m \in pending : ~Present(m)
Registered == \A p \in registry : plans[p] # Prov!NoPlan /\ plans[p].imported
Sourced == \A m \in Machines : records[m] # Prov!NoRecord => plans[records[m].plan] # Prov!NoPlan

\* The inductive invariant.
ProvInv == Stocked /\ ProvShapes /\ Untouched /\ Drafted /\ Jobs /\ Awaited /\ Registered /\ Sourced
           /\ Prov!NothingOrphaned /\ Prov!DeletedIsGone

-----------------------------------------------------------------------------
\* A job executes a plan that exists.
LEMMA ScopePlans == ASSUME ProvInv, NEW s \in Prov!Scopes, Busy(s)
  PROVE run[s] \in Execution /\ run[s].plan \in Plans /\ plans[run[s].plan] \in Prov!Plan
<1>1. run[s] \in Execution BY DEF ProvInv, ProvShapes, Busy
<1>2. run[s].plan \in Plans BY <1>1 DEF Execution
<1>3. plans[run[s].plan].status = "running" BY DEF ProvInv, Jobs, Executing
<1> QED BY <1>1, <1>2, <1>3 DEF ProvInv, ProvShapes, Prov!NoPlan

\* Two jobs execute two plans.
LEMMA OnePlanEach ==
  ASSUME ProvInv, NEW s \in Prov!Scopes, NEW q \in Prov!Scopes, Busy(s), Busy(q), s # q
  PROVE  run[s].plan # run[q].plan
  BY DEF ProvInv, Jobs, Executing

\* ... on machines of their own.
LEMMA OwnMachines ==
  ASSUME ProvInv, NEW s \in Prov!Scopes, NEW q \in Prov!Scopes, Busy(s), Busy(q), s # q,
         NEW m \in Prov!ToSet(run[s].mem.machines)
  PROVE  m \notin Prov!ToSet(run[q].mem.machines)
  BY OnePlanEach DEF ProvInv, Jobs, Executing

\* The current machine is one of the plan's.
LEMMA CurIsListed ==
  ASSUME ProvInv, NEW s \in Prov!Scopes, Busy(s),
         run[s].pc \in {"list", "create", "verify", "boot"} \/ run[s].i <= Len(run[s].mem.machines)
  PROVE  /\ Prov!Cur(s) \in Prov!ToSet(run[s].mem.machines)
         /\ Prov!Cur(s) \in Machines /\ records[Prov!Cur(s)] # Prov!NoRecord
         /\ records[Prov!Cur(s)].plan = run[s].plan
<1>1. run[s] \in Execution BY ScopePlans
<1>2. run[s].mem.machines \in Seq(Machines) /\ run[s].i \in Nat \ {0} BY <1>1 DEF Execution, Prov!Plan
<1>3. run[s].i <= Len(run[s].mem.machines) BY <1>2 DEF ProvInv, Jobs, Allocating
<1>4. run[s].i \in DOMAIN run[s].mem.machines BY <1>2, <1>3
<1>5. Prov!Cur(s) \in Prov!ToSet(run[s].mem.machines) BY <1>4 DEF Prov!Cur, Prov!ToSet
<1> QED BY <1>5 DEF ProvInv, Jobs, Executing

-----------------------------------------------------------------------------
\* What a step of the job at s may do to the ownership records: none is lost or moved, a new one
\* is of its plan, and only a machine that is gone is closed as deleted.
Remembers(s) ==
    /\ records' \in [Machines -> Prov!Record \cup {Prov!NoRecord}]
    /\ \A m \in Machines : records[m] # Prov!NoRecord =>
          /\ records'[m] # Prov!NoRecord
          /\ records'[m].plan = records[m].plan /\ records'[m].vmid = records[m].vmid
    /\ \A m \in Machines : records[m] = Prov!NoRecord /\ records'[m] # Prov!NoRecord
          => records'[m].plan = run[s].plan
    /\ \A m \in Machines : records'[m].status = "deleted" => m \notin pending /\ ~Present(m)
    /\ \A q \in Prov!Scopes : q # s /\ Asking(q) => records'[Prov!Cur(q)].status # "deleted"

\* What a step that leaves the VMs alone does beside the job: it may save the plan as mem, change
\* the ownership records, register the cluster or name the image.
Leaves(s, mem) ==
    /\ plans' \in {plans, [plans EXCEPT ![run[s].plan] = mem]}
    /\ Remembers(s)
    /\ \/ registry' = registry
       \/ registry' = registry \cup {run[s].plan} /\ plans[run[s].plan].imported
    /\ \/ isos' = isos
       \/ isos' = isos \cup {run[s].plan} /\ plans[run[s].plan].image = "named"
    /\ taken' \in {taken, taken \ {s}}
    /\ faults' \in 0..MaxFaults
    /\ UNCHANGED <<vms, pending, up, draft, starts>>

\* A step of the job at s that leaves the VMs alone.
JobMoves(s, r) ==
    /\ run' = [run EXCEPT ![s] = r] /\ r \in Execution /\ r.plan = run[s].plan
    /\ Extends(r.mem, run[s].mem)
    /\ r.mem.kind = run[s].mem.kind /\ r.mem.target = run[s].mem.target
    /\ \A m \in Prov!ToSet(r.mem.machines) :
          m \in Machines /\ records'[m] # Prov!NoRecord /\ records'[m].plan = run[s].plan
    /\ r.pc \in {"list", "create"} =>
          \A q \in Prov!Scopes : q # s /\ run[q].pc \in {"delete", "gone"}
              => r.mem.machines[r.i] # run[q].mem.target
    /\ Leaves(s, r.mem)

\* The step of a job that leaves the VMs alone keeps the invariant, if the job still knows its place.
LEMMA JobStep ==
  ASSUME ProvInv, NEW s \in Prov!Scopes, Busy(s), NEW r, JobMoves(s, r),
         Allocating(s)', Removing(s)'
  PROVE  ProvInv'
<1> DEFINE p == run[s].plan
<1>1. /\ run[s] \in Execution /\ p \in Plans /\ plans[p] \in Prov!Plan
      /\ Executing(s) /\ Allocating(s) /\ Removing(s)
  BY ScopePlans DEF ProvInv, Jobs
<1>2. /\ run'[s] = r /\ r \in Execution /\ r.mem \in Prov!Plan
      /\ \A q \in Prov!Scopes : q # s => run'[q] = run[q]
  BY DEF JobMoves, Leaves, ProvInv, ProvShapes, Execution
<1>3. /\ plans'[p] \in {plans[p], r.mem} /\ plans'[p] \in Prov!Plan
      /\ \A q \in Plans : q # p => plans'[q] = plans[q]
      /\ plans' \in [Plans -> Prov!Plan \cup {Prov!NoPlan}]
  <2>1. plans \in [Plans -> Prov!Plan \cup {Prov!NoPlan}] BY DEF ProvInv, ProvShapes
  <2>2. plans' \in {plans, [plans EXCEPT ![p] = r.mem]} BY DEF JobMoves, Leaves
  <2>3. p \in Plans /\ plans[p] \in Prov!Plan /\ r.mem \in Prov!Plan BY <1>1, <1>2
  <2> HIDE DEF p
  <2> QED BY <2>1, <2>2, <2>3
<1>4. /\ records' \in [Machines -> Prov!Record \cup {Prov!NoRecord}]
      /\ \A m \in Machines : records[m] # Prov!NoRecord =>
              /\ records'[m] # Prov!NoRecord
              /\ records'[m].plan = records[m].plan /\ records'[m].vmid = records[m].vmid
      /\ \A m \in Machines : records[m] = Prov!NoRecord /\ records'[m] # Prov!NoRecord
              => records'[m].plan = p
      /\ \A m \in Machines : records'[m].status = "deleted" => m \notin pending /\ ~Present(m)
      /\ \A q \in Prov!Scopes : q # s /\ Asking(q) => records'[Prov!Cur(q)].status # "deleted"
  BY DEF JobMoves, Leaves, Remembers
<1>5. /\ plans'[p].status = "running" /\ plans[p].status = "running"
      /\ plans'[p].scope = s /\ r.mem.status = "running"
      /\ Prov!ToSet(plans[p].machines) \subseteq Prov!ToSet(plans'[p].machines)
      /\ plans[p].image = "named" => plans'[p].image = "named"
      /\ plans[p].imported => plans'[p].imported
      /\ Extends(r.mem, plans'[p]) /\ Aimed(r.mem) /\ Aimed(plans'[p])
  <2>1. Extends(run[s].mem, plans[p]) /\ Extends(r.mem, run[s].mem) /\ Aimed(run[s].mem) /\ Aimed(plans[p])
    <3>1. Extends(run[s].mem, plans[p]) /\ Aimed(run[s].mem) /\ plans[p].status = "running" BY <1>1 DEF Executing
    <3>2. Extends(r.mem, run[s].mem) BY DEF JobMoves
    <3>3. plans[p] # Prov!NoPlan BY <3>1 DEF Prov!NoPlan
    <3>4. Aimed(plans[p]) BY <1>1, <3>3 DEF ProvInv, Untouched
    <3> QED BY <3>1, <3>2, <3>4
  <2>2. Extends(r.mem, plans[p]) BY <2>1 DEF Extends
  <2>3. Extends(r.mem, r.mem) BY DEF Extends
  <2>4. Extends(r.mem, plans'[p]) BY <1>3, <2>2, <2>3
  <2>5. Aimed(r.mem) BY <2>1 DEF Aimed, JobMoves, Leaves
  <2>6. Prov!ToSet(plans[p].machines) \subseteq Prov!ToSet(r.mem.machines)
        /\ (plans[p].image = "named" => r.mem.image = "named") /\ (plans[p].imported => r.mem.imported)
        /\ r.mem.scope = plans[p].scope /\ r.mem.status = plans[p].status
    BY <2>2 DEF Extends
  <2>7. Aimed(plans'[p]) BY <1>3, <2>1, <2>5
  <2> QED BY <1>1, <1>3, <2>4, <2>5, <2>6, <2>7 DEF Executing
<1> HIDE DEF p
<1>6. ProvShapes'
  <2>1. run' \in [Prov!Scopes -> Execution \cup {Prov!Idle}] BY <1>2 DEF JobMoves, Leaves, ProvInv, ProvShapes
  <2>2. registry' \subseteq Plans /\ isos' \subseteq Plans
    BY <1>1 DEF JobMoves, Leaves, ProvInv, ProvShapes, p
  <2> QED BY <1>3, <1>4, <2>1, <2>2 DEF JobMoves, Leaves, ProvInv, ProvShapes
<1>7. Untouched'
  <2> SUFFICES ASSUME NEW q \in Plans
               PROVE  /\ starts'[q] <= 1
                      /\ plans'[q].status \in {"none", "planned"} => starts'[q] = 0
                      /\ plans'[q].status = "planned" => plans'[q].machines = <<>>
                      /\ plans'[q] # Prov!NoPlan => Aimed(plans'[q])
    BY DEF Untouched, Aimed
  <2>1. starts'[q] = starts[q] BY DEF JobMoves, Leaves
  <2> QED BY <1>3, <1>5, <2>1 DEF ProvInv, Untouched
<1>8. Drafted'
  <2>1. plans[p] # Prov!NoPlan BY <1>5 DEF Prov!NoPlan
  <2>2. draft' = draft BY DEF JobMoves, Leaves
  <2>3. draft # <<>> => draft[1] \in Plans BY DEF ProvInv, ProvShapes
  <2>4. draft # <<>> => plans'[draft[1]] = plans[draft[1]] BY <1>3, <2>1, <2>3 DEF ProvInv, Drafted
  <2> QED BY <2>2, <2>4 DEF ProvInv, Drafted, Aimed
<1>9. /\ \A q \in Prov!Scopes : q # s /\ Asking(q)' => Asking(q) /\ Prov!Cur(q)' = Prov!Cur(q)
      /\ Asking(s)' => \A q \in Prov!Scopes : q # s /\ run[q].pc \in {"delete", "gone"}
                          => Prov!Cur(s)' # run[q].mem.target
  BY <1>2 DEF Asking, Prov!Cur, JobMoves, Leaves
<1>10. \A m : Present(m)' <=> Present(m) BY DEF Present, JobMoves, Leaves
<1>11. Jobs'
  <2>1. Executing(s)'
    <3>1. up' = up /\ r.plan = p BY DEF JobMoves, Leaves, p
    <3>2. \A m \in Prov!ToSet(r.mem.machines) :
              m \in Machines /\ records'[m] # Prov!NoRecord /\ records'[m].plan = p
      BY DEF JobMoves, Leaves, p
    <3> QED BY <1>1, <1>2, <1>5, <3>1, <3>2 DEF Executing, Extends, Aimed
  <2>2. ASSUME NEW q \in Prov!Scopes, q # s, Busy(q)
        PROVE  Executing(q)' /\ Allocating(q)' /\ Removing(q)'
    <3>1. /\ run'[q] = run[q] /\ run[q].plan \in Plans /\ run[q].plan # p
          /\ Executing(q) /\ Allocating(q) /\ Removing(q)
      BY <1>2, <2>2, ScopePlans, OnePlanEach DEF ProvInv, Jobs, p
    <3>2. plans'[run[q].plan] = plans[run[q].plan] BY <1>3, <3>1
    <3>3. Executing(q)'
      <4>1. UNCHANGED up BY DEF JobMoves, Leaves
      <4> QED BY <1>4, <3>1, <3>2, <4>1 DEF Executing, Extends, Aimed
    <3>4. Prov!Cur(q)' = Prov!Cur(q) /\ (Asking(q)' <=> Asking(q)) BY <3>1 DEF Prov!Cur, Asking
    <3>5. Asking(q) => records'[Prov!Cur(q)].status # "deleted" BY <1>4, <2>2
    <3>6. Allocating(q)'
      <4>1. UNCHANGED <<vms, pending>> BY DEF JobMoves, Leaves
      <4>2. Present(Prov!Cur(q))' = Present(Prov!Cur(q)) BY <3>4, <4>1 DEF Present
      <4> QED BY <3>1, <3>2, <3>4, <3>5, <4>1, <4>2 DEF Allocating
    <3>7. Removing(q)'
      <4> DEFINE t == run[q].mem.target
      <4>1. run[q].pc \in {"stop", "recheck", "delete", "gone"} =>
              /\ t \in Machines /\ records[t] # Prov!NoRecord /\ records[t].plan \in Plans
        BY <3>1 DEF Removing, Executing, Aimed, ProvInv, ProvShapes, Prov!Record
      <4>2. run[q].pc \in {"stop", "recheck", "delete", "gone"} =>
              /\ records'[t] # Prov!NoRecord /\ records'[t].plan = records[t].plan
              /\ records'[t].vmid = records[t].vmid
        BY <1>4, <4>1
      <4>3. \A c \in Plans : plans[c].status \in {"failed", "interrupted"} /\ c \notin registry =>
              plans'[c].status \in {"failed", "interrupted"} /\ c \notin registry'
        <5>1. registry' \subseteq registry \cup {p} BY DEF JobMoves, Leaves, p
        <5> QED BY <1>3, <1>5, <5>1
      <4>4. q \in taken => q \in taken' BY <2>2 DEF JobMoves, Leaves
      <4>5. UNCHANGED <<vms, pending>> BY DEF JobMoves, Leaves
      <4> HIDE DEF t
      <4>6. /\ run[q].pc \in {"stop", "recheck", "delete", "gone"} /\ run[q].mem.kind = "machine-cleanup"
                 => /\ plans'[records'[t].plan].status \in {"failed", "interrupted"}
                    /\ records'[t].plan \notin registry'
            /\ run[q].pc \in {"delete", "gone"}
                 => t \notin pending' /\ \A x \in Prov!Scopes : Asking(x)' => Prov!Cur(x)' # t
            /\ run[q].pc = "delete" /\ records'[t].vmid \in DOMAIN vms' /\ vms'[records'[t].vmid] = Prov!Foreign
                 => q \in taken'
            /\ run[q].pc = "gone" => ~Present(t)'
        BY <1>9, <1>10, <2>2, <3>1, <4>1, <4>2, <4>3, <4>4, <4>5 DEF Removing, t
      <4> QED BY <3>1, <4>2, <4>6 DEF Removing, t
    <3> QED BY <3>3, <3>6, <3>7
  <2>3. \A q \in Prov!Scopes : q # s /\ Busy(q)' => Busy(q) BY <1>2 DEF Busy
  <2> QED BY <2>1, <2>2, <2>3 DEF Jobs
<1>12. Awaited' BY <1>10 DEF ProvInv, Awaited, JobMoves, Leaves
<1>13. Registered'
  <2> SUFFICES ASSUME NEW c \in registry' PROVE plans'[c] # Prov!NoPlan /\ plans'[c].imported
    BY DEF Registered
  <2>1. c \in registry \/ (c = p /\ plans[p].imported) BY DEF JobMoves, Leaves, p
  <2>2. c \in registry => c \in Plans /\ plans[c] # Prov!NoPlan /\ plans[c].imported
    BY DEF ProvInv, ProvShapes, Registered
  <2>3. plans'[p] # Prov!NoPlan BY <1>5 DEF Prov!NoPlan
  <2> QED BY <1>3, <1>5, <2>1, <2>2, <2>3
<1>14. Prov!NothingOrphaned'
  <2>1. ASSUME NEW m \in Machines, m \in pending' \/ (\E v \in DOMAIN vms' : vms'[v] = m)
        PROVE  /\ records'[m] # Prov!NoRecord /\ m \in Prov!ToSet(plans'[records'[m].plan].machines)
               /\ \A v \in DOMAIN vms' : vms'[v] = m => v = records'[m].vmid
    <3>1. UNCHANGED <<vms, pending>> BY DEF JobMoves, Leaves
    <3>2. /\ records[m] # Prov!NoRecord /\ m \in Prov!ToSet(plans[records[m].plan].machines)
          /\ \A v \in DOMAIN vms : vms[v] = m => v = records[m].vmid
      BY <2>1, <3>1 DEF ProvInv, Prov!NothingOrphaned
    <3>3. records[m].plan \in Plans BY <3>2 DEF ProvInv, ProvShapes, Prov!Record
    <3> QED BY <1>3, <1>4, <1>5, <3>1, <3>2, <3>3
  <2>2. ASSUME NEW c \in isos' PROVE plans'[c] # Prov!NoPlan /\ plans'[c].image = "named"
    <3>1. plans[c].image = "named" /\ plans[c] # Prov!NoPlan /\ c \in Plans
      BY <1>1, <1>5, <2>2 DEF ProvInv, ProvShapes, Prov!NothingOrphaned, JobMoves, Leaves, p, Prov!NoPlan
    <3> QED BY <1>3, <1>5, <3>1 DEF Prov!NoPlan
  <2> QED BY <2>1, <2>2 DEF Prov!NothingOrphaned
<1>15. Prov!DeletedIsGone' BY <1>4 DEF Prov!DeletedIsGone, JobMoves, Leaves, Present
<1>17. Sourced'
  <2> SUFFICES ASSUME NEW m \in Machines, records'[m] # Prov!NoRecord
               PROVE  plans'[records'[m].plan] # Prov!NoPlan
    BY DEF Sourced
  <2>1. records[m] # Prov!NoRecord => records[m].plan \in Plans /\ plans[records[m].plan] # Prov!NoPlan
    BY DEF ProvInv, ProvShapes, Prov!Record, Sourced
  <2>2. plans'[p] # Prov!NoPlan BY <1>5 DEF Prov!NoPlan
  <2> QED BY <1>3, <1>4, <2>1, <2>2
<1>16. Stocked' BY DEF ProvInv, Stocked
<1> QED BY <1>6, <1>7, <1>8, <1>11, <1>12, <1>13, <1>14, <1>15, <1>16, <1>17 DEF ProvInv

-----------------------------------------------------------------------------
\* What is known of a job at stage x.
LEMMA JobAt ==
  ASSUME ProvInv, NEW s \in Prov!Scopes, NEW x \in Stages, Prov!Job(s, x)
  PROVE  /\ Busy(s) /\ run[s] \in Execution /\ run[s].pc = x
         /\ run[s].plan \in Plans /\ run[s].mem \in Prov!Plan /\ run[s].i \in Nat \ {0}
         /\ run[s].mem.machines \in Seq(Machines)
         /\ plans[run[s].plan] \in Prov!Plan /\ records \in [Machines -> Prov!Record \cup {Prov!NoRecord}]
         /\ Executing(s) /\ Allocating(s) /\ Removing(s)
<1>1. Busy(s) BY DEF Busy, Prov!Job, Prov!Idle, Stages
<1>2. run[s] \in Execution /\ plans[run[s].plan] \in Prov!Plan BY <1>1, ScopePlans
<1>3. run[s].mem \in Prov!Plan /\ run[s].plan \in Plans /\ run[s].i \in Nat \ {0} BY <1>2 DEF Execution
<1>4. run[s].mem.machines \in Seq(Machines) BY <1>3 DEF Prov!Plan
<1>5. Executing(s) /\ Allocating(s) /\ Removing(s) BY <1>1 DEF ProvInv, Jobs
<1> QED BY <1>1, <1>2, <1>3, <1>4, <1>5 DEF Prov!Job, ProvInv, ProvShapes

\* Faults stay within their budget.
LEMMA ProvBudget ==
  ASSUME ProvInv, Prov!Fault \/ Prov!NoFault
  PROVE  faults' \in 0..MaxFaults
<1>1. faults \in 0..MaxFaults /\ MaxFaults \in Nat BY DEF ProvInv, ProvShapes, Stocked
<1> QED BY <1>1 DEF Prov!Fault, Prov!NoFault

\* The job at s becomes r: at stage x, with mem in memory, at its i-th machine.
Becomes(s, r, x, mem, i) ==
    /\ run' = [run EXCEPT ![s] = r] /\ r \in Execution /\ r.plan = run[s].plan
    /\ r.pc = x /\ r.mem = mem /\ r.i = i

\* The ways in which a step moves a job on (Goto, Rewind, NextMachine, Fails, FailsSaving).
LEMMA Ways ==
  ASSUME ProvInv, NEW s \in Prov!Scopes, Busy(s), NEW x \in Stages,
         NEW e \in {"failed", "uncertain"}, NEW mem \in Prov!Plan
  PROVE  /\ Prov!Goto(s, x) => \E r : Becomes(s, r, x, run[s].mem, run[s].i)
         /\ Prov!Rewind(s, x) => \E r : Becomes(s, r, x, run[s].mem, 1)
         /\ Prov!NextMachine(s, x) => \E r : Becomes(s, r, x, run[s].mem, run[s].i + 1)
         /\ Prov!Fails(s, e) => \E r : Becomes(s, r, "end", run[s].mem, run[s].i)
         /\ Prov!FailsSaving(s, mem) => \E r : Becomes(s, r, "end", mem, run[s].i)
<1>1. /\ run[s] \in Execution /\ run \in [Prov!Scopes -> Execution \cup {Prov!Idle}]
  BY ScopePlans DEF ProvInv, ProvShapes
<1>2. /\ run[s] = [pc |-> run[s].pc, plan |-> run[s].plan, mem |-> run[s].mem, i |-> run[s].i, err |-> run[s].err]
      /\ run[s].plan \in Plans /\ run[s].mem \in Prov!Plan /\ run[s].i \in Nat \ {0}
      /\ run[s].err \in {"none", "failed", "uncertain"}
  BY <1>1 DEF Execution
<1>3. Prov!Goto(s, x) => Becomes(s, [run[s] EXCEPT !.pc = x], x, run[s].mem, run[s].i)
  BY <1>1, <1>2 DEF Prov!Goto, Becomes, Execution
<1>4. Prov!Rewind(s, x) => \E r : Becomes(s, r, x, run[s].mem, 1)
  <2>1. ASSUME NEW j \in Nat \ {0}, run' = [run EXCEPT ![s].pc = x, ![s].i = j]
        PROVE  Becomes(s, [run[s] EXCEPT !.pc = x, !.i = j], x, run[s].mem, j)
    BY <1>1, <1>2, <2>1 DEF Becomes, Execution
  <2>2. \A j \in Nat \ {0} : run' = [run EXCEPT ![s].pc = x, ![s].i = j]
                                  => \E r : Becomes(s, r, x, run[s].mem, j)
    BY <2>1
  <2>3. 1 \in Nat \ {0} OBVIOUS
  <2>4. run' = [run EXCEPT ![s].pc = x, ![s].i = 1] => \E r : Becomes(s, r, x, run[s].mem, 1) BY <2>2, <2>3, Zenon
  <2> QED BY <2>4 DEF Prov!Rewind
<1>5. Prov!NextMachine(s, x) =>
          Becomes(s, [run[s] EXCEPT !.pc = x, !.i = run[s].i + 1], x, run[s].mem, run[s].i + 1)
  BY <1>1, <1>2 DEF Prov!NextMachine, Becomes, Execution
<1>6. Prov!Fails(s, e) => Becomes(s, [run[s] EXCEPT !.pc = "end", !.err = e], "end", run[s].mem, run[s].i)
  BY <1>1, <1>2 DEF Prov!Fails, Becomes, Execution, Stages
<1>7. Prov!FailsSaving(s, mem) =>
          Becomes(s, [run[s] EXCEPT !.pc = "end", !.err = "failed", !.mem = mem], "end", mem, run[s].i)
  BY <1>1, <1>2 DEF Prov!FailsSaving, Becomes, Execution, Stages
<1> QED BY <1>3, <1>4, <1>5, <1>6, <1>7

\* The job keeps what its records say, or closes none and moves none.
LEMMA Kept1 ==
  ASSUME ProvInv, NEW s \in Prov!Scopes, UNCHANGED records
  PROVE  Remembers(s)
<1>1. \A q \in Prov!Scopes : Asking(q) => Busy(q) BY DEF Asking, Busy, Prov!Idle
<1> QED BY <1>1 DEF ProvInv, ProvShapes, Prov!DeletedIsGone, Present, Remembers, Jobs, Allocating

\* A machine of the job is given another status.
LEMMA Marked ==
  ASSUME ProvInv, NEW s \in Prov!Scopes, Busy(s), NEW m \in Machines, NEW y \in Prov!Record,
         m \in Prov!ToSet(run[s].mem.machines), records' = [records EXCEPT ![m] = y],
         y.status # "deleted", y.plan = records[m].plan, y.vmid = records[m].vmid
  PROVE  Remembers(s)
<1>1. \A q \in Prov!Scopes : Asking(q) => Busy(q) BY DEF Asking, Busy, Prov!Idle
<1>2. y # Prov!NoRecord BY DEF Prov!Record, Prov!NoRecord
<1>3. records[m] # Prov!NoRecord BY DEF ProvInv, Jobs, Executing
<1>4. \A q \in Prov!Scopes : q # s /\ Asking(q) => records[Prov!Cur(q)].status # "deleted" /\ Prov!Cur(q) \in Machines
  BY <1>1, CurIsListed DEF ProvInv, Jobs, Allocating, Asking
<1> QED BY <1>1, <1>2, <1>3, <1>4 DEF ProvInv, ProvShapes, Prov!DeletedIsGone, Present, Remembers

-----------------------------------------------------------------------------
(* The steps of a creation. *)

\* A job goes on to a stage in which it removes nothing and asks for no machine.
LEMMA Onward ==
  ASSUME ProvInv, NEW s \in Prov!Scopes, Busy(s), NEW r, NEW mem \in Prov!Plan, NEW i \in Nat \ {0},
         NEW x \in {"image", "download", "allocate", "verify", "boot", "address", "apply", "import",
                    "register", "ready", "end"},
         Becomes(s, r, x, mem, i), Leaves(s, mem), Extends(mem, run[s].mem),
         mem.machines = run[s].mem.machines, mem.kind = run[s].mem.kind,
         mem.target = run[s].mem.target,
         x \in {"image", "download", "allocate"} => Len(mem.machines) = i - 1,
         x \in {"verify", "boot"} => Len(mem.machines) = i,
         x = "download" => plans'[run[s].plan].image = "named",
         x = "register" => plans'[run[s].plan].imported
  PROVE  ProvInv'
<1>1. run'[s] = r /\ r.pc = x /\ r.plan = run[s].plan /\ r.mem = mem /\ r.i = i
  BY DEF Becomes, ProvInv, ProvShapes
<1>2. JobMoves(s, r)
  <2>1. \A m \in Prov!ToSet(run[s].mem.machines) :
           m \in Machines /\ records'[m] # Prov!NoRecord /\ records'[m].plan = run[s].plan
    BY DEF ProvInv, Jobs, Executing, Leaves, Remembers
  <2> QED BY <1>1, <2>1 DEF JobMoves, Becomes
<1>3. Allocating(s)' BY <1>1 DEF Allocating, Asking
<1>4. Removing(s)' BY <1>1 DEF Removing
<1> QED BY <1>2, <1>3, <1>4, JobStep

\* Nothing of what the job knows is lost by keeping it.
LEMMA Same == \A x : Extends(x, x)
BY DEF Extends

\* A failed step ends the job and leaves everything else alone.
LEMMA Failed ==
  ASSUME ProvInv, NEW s \in Prov!Scopes, Busy(s), NEW e \in {"failed", "uncertain"},
         Prov!Fails(s, e), faults' \in 0..MaxFaults, taken' \in {taken, taken \ {s}},
         UNCHANGED <<plans, records, registry, vms, pending, up, draft, starts>>,
         isos' = isos \/ (isos' = isos \cup {run[s].plan} /\ plans[run[s].plan].image = "named")
  PROVE  ProvInv'
<1>1. run[s].mem \in Prov!Plan /\ run[s].i \in Nat \ {0} BY ScopePlans DEF Execution
<1>2. PICK r : Becomes(s, r, "end", run[s].mem, run[s].i) BY <1>1, Ways DEF Stages
<1>3. Leaves(s, run[s].mem) BY Kept1 DEF Leaves
<1> QED BY <1>1, <1>2, <1>3, Same, Onward

\* A failed save ends the job, which keeps in memory what it wanted to save.
LEMMA FailedSaving ==
  ASSUME ProvInv, NEW s \in Prov!Scopes, Busy(s), NEW mem \in Prov!Plan,
         Prov!FailsSaving(s, mem), faults' \in 0..MaxFaults,
         mem.machines = run[s].mem.machines, Extends(mem, run[s].mem),
         mem.kind = run[s].mem.kind, mem.target = run[s].mem.target,
         UNCHANGED <<plans, records, registry, vms, pending, isos, taken, up, draft, starts>>
  PROVE  ProvInv'
<1>1. run[s].i \in Nat \ {0} BY ScopePlans DEF Execution
<1>2. PICK r : Becomes(s, r, "end", mem, run[s].i) BY <1>1, Ways DEF Stages
<1>3. Leaves(s, mem) BY Kept1 DEF Leaves
<1> QED BY <1>1, <1>2, <1>3, Onward

\* A step that saves nothing.
LEMMA Passed ==
  ASSUME ProvInv, NEW s \in Prov!Scopes, Busy(s), NEW i \in Nat \ {0}, NEW r,
         NEW x \in {"allocate", "verify", "boot", "address", "apply", "import", "ready", "end"},
         Becomes(s, r, x, run[s].mem, i), Remembers(s), faults' \in 0..MaxFaults,
         UNCHANGED <<plans, vms, pending, taken, up, draft, starts>>,
         registry' = registry \/ (registry' = registry \cup {run[s].plan} /\ plans[run[s].plan].imported),
         isos' = isos \/ (isos' = isos \cup {run[s].plan} /\ plans[run[s].plan].image = "named"),
         x = "allocate" => Len(run[s].mem.machines) = i - 1,
         x \in {"verify", "boot"} => Len(run[s].mem.machines) = i
  PROVE  ProvInv'
<1>1. run[s].mem \in Prov!Plan BY ScopePlans DEF Execution
<1>2. Leaves(s, run[s].mem) BY DEF Leaves
<1> QED BY <1>1, <1>2, Same, Onward

\* The name of the image is durable before it is asked for (prepareImage).
LEMMA PrepareImageKeeps ==
  ASSUME ProvInv, NEW s \in Prov!Scopes, Prov!PrepareImage(s)
  PROVE  ProvInv'
<1> DEFINE named == [run[s].mem EXCEPT !.image = "named"]
<1>1. Prov!Job(s, "image") BY DEF Prov!PrepareImage
<1>2. /\ Busy(s) /\ run[s].mem \in Prov!Plan /\ run[s].i \in Nat \ {0} /\ run[s].plan \in Plans
      /\ Len(run[s].mem.machines) = run[s].i - 1
  BY <1>1, JobAt DEF Allocating, Stages
<1>3. /\ named \in Prov!Plan /\ named.machines = run[s].mem.machines
      /\ named.kind = run[s].mem.kind /\ named.target = run[s].mem.target
      /\ named.image = "named" /\ Extends(named, run[s].mem)
  BY <1>2 DEF Prov!Plan, Extends
<1>4. faults' \in 0..MaxFaults BY ProvBudget DEF Prov!PrepareImage
<1>5. UNCHANGED <<records, registry, vms, pending, isos, taken, up, draft, starts>>
  BY DEF Prov!PrepareImage, Prov!world, Prov!handlers
<1> HIDE DEF named
<1>6. CASE Prov!Goto(s, "allocate") /\ UNCHANGED plans
  <2>1. PICK r : Becomes(s, r, "allocate", run[s].mem, run[s].i) BY <1>2, <1>6, Ways DEF Stages
  <2> QED BY <1>2, <1>4, <1>5, <1>6, <2>1, Kept1, Passed
<1>7. CASE /\ plans' = [plans EXCEPT ![run[s].plan] = named]
           /\ run' = [run EXCEPT ![s].pc = "download", ![s].mem = named]
  <2>1. Becomes(s, [run[s] EXCEPT !.pc = "download", !.mem = named], "download", named, run[s].i)
    BY <1>2, <1>3, <1>7, ScopePlans DEF Becomes, Execution, Stages, ProvInv, ProvShapes
  <2>2. Leaves(s, named) BY <1>4, <1>5, <1>7, Kept1 DEF Leaves
  <2>3. plans'[run[s].plan].image = "named" BY <1>2, <1>3, <1>7 DEF ProvInv, ProvShapes
  <2> QED BY <1>2, <1>3, <2>1, <2>2, <2>3, Onward
<1>8. CASE Prov!Fails(s, "failed") /\ UNCHANGED plans BY <1>2, <1>4, <1>5, <1>8, Failed
<1>9. CASE Prov!FailsSaving(s, named) /\ UNCHANGED plans
  BY <1>2, <1>3, <1>4, <1>5, <1>9, FailedSaving
<1> QED BY <1>6, <1>7, <1>8, <1>9 DEF Prov!PrepareImage, Prov!Mem, named

\* The image is asked for (DownloadISO); a lost answer may hide it.
LEMMA DownloadISOKeeps ==
  ASSUME ProvInv, NEW s \in Prov!Scopes, Prov!DownloadISO(s)
  PROVE  ProvInv'
<1>1. Prov!Job(s, "download") BY DEF Prov!DownloadISO
<1>2. /\ Busy(s) /\ run[s].mem \in Prov!Plan /\ run[s].i \in Nat \ {0}
      /\ Len(run[s].mem.machines) = run[s].i - 1 /\ plans[run[s].plan].image = "named"
  BY <1>1, JobAt DEF Allocating, Stages
<1>3. faults' \in 0..MaxFaults BY ProvBudget DEF Prov!DownloadISO
<1>4. UNCHANGED <<plans, records, registry, vms, pending, taken, up, draft, starts>>
  BY DEF Prov!DownloadISO, Prov!durable, Prov!handlers
<1>5. isos' = isos \/ isos' = isos \cup {run[s].plan} BY DEF Prov!DownloadISO
<1>6. CASE Prov!Goto(s, "allocate")
  <2>1. PICK r : Becomes(s, r, "allocate", run[s].mem, run[s].i) BY <1>2, <1>6, Ways DEF Stages
  <2> QED BY <1>2, <1>3, <1>4, <1>5, <2>1, Kept1, Passed
<1>7. CASE Prov!Fails(s, "uncertain") BY <1>2, <1>3, <1>4, <1>5, <1>7, Failed
<1> QED BY <1>6, <1>7 DEF Prov!DownloadISO

\* A machine of the job whose record is marked.
LEMMA MarkedCur ==
  ASSUME ProvInv, NEW s \in Prov!Scopes, Busy(s),
         NEW status \in {"created", "booting", "maintenance", "config-applied"},
         run[s].pc \in {"verify", "boot"} \/ run[s].i <= Len(run[s].mem.machines),
         Prov!Record1(Prov!Cur(s), status)
  PROVE  Remembers(s)
<1> DEFINE m == Prov!Cur(s)
<1>1. /\ m \in Prov!ToSet(run[s].mem.machines) /\ m \in Machines
      /\ records[m] \in Prov!Record
  BY CurIsListed DEF ProvInv, ProvShapes
<1> HIDE DEF m
<1> DEFINE y == [records[m] EXCEPT !.status = status]
<1>2. y \in Prov!Record /\ y.status # "deleted" /\ y.plan = records[m].plan /\ y.vmid = records[m].vmid
  BY <1>1 DEF Prov!Record
<1>3. records' = [records EXCEPT ![m] = y] BY <1>1 DEF Prov!Record1, m, ProvInv, ProvShapes
<1> HIDE DEF y
<1> QED BY <1>1, <1>2, <1>3, Marked

\* A step on the current machine marks its record, or the job ends.
LEMMA OwnedStepKeeps ==
  ASSUME ProvInv, NEW s \in Prov!Scopes, NEW lost \in {"failed", "uncertain"}, Busy(s),
         NEW status \in {"created", "booting", "maintenance", "config-applied"}, NEW done \in BOOLEAN,
         run[s].pc \in {"verify", "boot"} \/ run[s].i <= Len(run[s].mem.machines),
         \/ Prov!Record1(Prov!Cur(s), status) /\ done
         \/ Prov!Fails(s, lost) /\ UNCHANGED records
         \/ Prov!Fails(s, "failed") /\ UNCHANGED records,
         UNCHANGED <<plans, registry, vms, pending, isos, taken, up, draft, starts>>,
         faults' \in 0..MaxFaults
  PROVE  ProvInv' \/ (done /\ Remembers(s))
<1>1. CASE Prov!Record1(Prov!Cur(s), status) /\ done BY <1>1, MarkedCur
<1>2. CASE Prov!Fails(s, lost) /\ UNCHANGED records BY <1>2, Failed
<1>3. CASE Prov!Fails(s, "failed") /\ UNCHANGED records BY <1>3, Failed
<1> QED BY <1>1, <1>2, <1>3

\* The VM that was made is found to be the recorded one (VerifyOwned).
LEMMA VerifyCreatedKeeps ==
  ASSUME ProvInv, NEW s \in Prov!Scopes, Prov!VerifyCreated(s)
  PROVE  ProvInv'
<1>1. Prov!Job(s, "verify") BY DEF Prov!VerifyCreated
<1>2. /\ Busy(s) /\ run[s].pc = "verify" /\ run[s].i \in Nat \ {0} /\ Len(run[s].mem.machines) = run[s].i
      /\ run[s].mem \in Prov!Plan
  BY <1>1, JobAt DEF Allocating, Stages
<1>3. faults' \in 0..MaxFaults BY ProvBudget DEF Prov!VerifyCreated, Prov!OwnedStep
<1>4. UNCHANGED <<plans, registry, vms, pending, isos, taken, up, draft, starts>>
  BY DEF Prov!VerifyCreated, Prov!world, Prov!handlers
<1>5. ProvInv' \/ (Prov!Goto(s, "boot") /\ Remembers(s))
  BY <1>2, <1>3, <1>4, OwnedStepKeeps DEF Prov!VerifyCreated, Prov!OwnedStep
<1>6. CASE Prov!Goto(s, "boot") /\ Remembers(s)
  <2>1. PICK r : Becomes(s, r, "boot", run[s].mem, run[s].i) BY <1>2, <1>6, Ways DEF Stages
  <2> QED BY <1>2, <1>3, <1>4, <1>6, <2>1, Passed
<1> QED BY <1>5, <1>6

\* The machine is started, and the job turns to the next one (StartOwned).
LEMMA StartOwnedKeeps ==
  ASSUME ProvInv, NEW s \in Prov!Scopes, Prov!StartOwned(s)
  PROVE  ProvInv'
<1>1. Prov!Job(s, "boot") BY DEF Prov!StartOwned
<1>2. /\ Busy(s) /\ run[s].pc = "boot" /\ run[s].i \in Nat \ {0} /\ Len(run[s].mem.machines) = run[s].i
      /\ run[s].mem \in Prov!Plan
  BY <1>1, JobAt DEF Allocating, Stages
<1>3. faults' \in 0..MaxFaults BY ProvBudget DEF Prov!StartOwned, Prov!OwnedStep
<1>4. UNCHANGED <<plans, registry, vms, pending, isos, taken, up, draft, starts>>
  BY DEF Prov!StartOwned, Prov!world, Prov!handlers
<1>5. ProvInv' \/ (Prov!NextMachine(s, "allocate") /\ Remembers(s))
  BY <1>2, <1>3, <1>4, OwnedStepKeeps DEF Prov!StartOwned, Prov!OwnedStep
<1>6. CASE Prov!NextMachine(s, "allocate") /\ Remembers(s)
  <2>1. PICK r : Becomes(s, r, "allocate", run[s].mem, run[s].i + 1) BY <1>2, <1>6, Ways DEF Stages
  <2>2. run[s].i + 1 \in Nat \ {0} /\ Len(run[s].mem.machines) = (run[s].i + 1) - 1 BY <1>2
  <2> QED BY <1>2, <1>3, <1>4, <1>6, <2>1, <2>2, Passed
<1> QED BY <1>5, <1>6

\* Every machine was made.
LEMMA AllocatedKeeps ==
  ASSUME ProvInv, NEW s \in Prov!Scopes, Prov!Allocated(s)
  PROVE  ProvInv'
<1>1. Prov!Job(s, "allocate") /\ Prov!Rewind(s, "address") BY DEF Prov!Allocated
<1>2. Busy(s) /\ run[s].mem \in Prov!Plan BY <1>1, JobAt DEF Stages
<1>3. PICK r : Becomes(s, r, "address", run[s].mem, 1) BY <1>1, <1>2, Ways DEF Stages
<1>4. UNCHANGED <<plans, records, registry, vms, pending, isos, taken, up, draft, starts, faults>>
  BY DEF Prov!Allocated, Prov!durable, Prov!world, Prov!handlers
<1>5. faults' \in 0..MaxFaults BY <1>4 DEF ProvInv, ProvShapes
<1>6. 1 \in Nat \ {0} OBVIOUS
<1> QED BY <1>2, <1>3, <1>4, <1>5, <1>6, Kept1, Passed

\* The guest agent tells the address, or the job ends (MachineAddress).
LEMMA MachineAddressKeeps ==
  ASSUME ProvInv, NEW s \in Prov!Scopes, Prov!MachineAddress(s)
  PROVE  ProvInv'
<1>1. Prov!Job(s, "address") BY DEF Prov!MachineAddress
<1>2. /\ Busy(s) /\ run[s].i \in Nat \ {0} /\ run[s].mem \in Prov!Plan /\ run[s].mem.machines \in Seq(Machines)
  BY <1>1, JobAt DEF Stages
<1>3. faults' \in 0..MaxFaults BY ProvBudget DEF Prov!MachineAddress, Prov!OwnedStep
<1>4. UNCHANGED <<plans, registry, vms, pending, isos, taken, up, draft, starts>>
  BY DEF Prov!MachineAddress, Prov!world, Prov!handlers
<1>5. run[s].i <= Len(run[s].mem.machines) BY <1>2 DEF Prov!MachineAddress, Prov!Past
<1>6. ProvInv' \/ (Prov!NextMachine(s, "address") /\ Remembers(s))
  BY <1>2, <1>3, <1>4, <1>5, OwnedStepKeeps DEF Prov!MachineAddress, Prov!OwnedStep
<1>7. CASE Prov!NextMachine(s, "address") /\ Remembers(s)
  <2>1. PICK r : Becomes(s, r, "address", run[s].mem, run[s].i + 1) BY <1>2, <1>7, Ways DEF Stages
  <2>2. run[s].i + 1 \in Nat \ {0} BY <1>2
  <2> QED BY <1>2, <1>3, <1>4, <1>7, <2>1, <2>2, Passed
<1> QED BY <1>6, <1>7

\* The configurations are saved before a machine gets one (generateConfigs).
LEMMA GenerateConfigsKeeps ==
  ASSUME ProvInv, NEW s \in Prov!Scopes, Prov!GenerateConfigs(s)
  PROVE  ProvInv'
<1> DEFINE mem == [run[s].mem EXCEPT !.configs = run[s].mem.kind = "cluster-create"]
<1>1. Prov!Job(s, "address") BY DEF Prov!GenerateConfigs
<1>2. Busy(s) /\ run[s].mem \in Prov!Plan /\ run[s].i \in Nat \ {0} BY <1>1, JobAt DEF Stages
<1>3. /\ mem \in Prov!Plan /\ mem.machines = run[s].mem.machines /\ mem.kind = run[s].mem.kind
      /\ mem.target = run[s].mem.target /\ Extends(mem, run[s].mem)
  BY <1>2 DEF Prov!Plan, Extends
<1>4. faults' \in 0..MaxFaults BY ProvBudget DEF Prov!GenerateConfigs
<1>5. UNCHANGED <<records, registry, vms, pending, isos, taken, up, draft, starts>>
  BY DEF Prov!GenerateConfigs, Prov!world, Prov!handlers
<1> HIDE DEF mem
<1>6. CASE /\ plans' = [plans EXCEPT ![run[s].plan] = mem]
           /\ run' = [run EXCEPT ![s].pc = "apply", ![s].i = 1, ![s].mem = mem]
  <2>1. ASSUME NEW j \in Nat \ {0}, run' = [run EXCEPT ![s].pc = "apply", ![s].i = j, ![s].mem = mem]
        PROVE  \E r : Becomes(s, r, "apply", mem, j)
    <3> DEFINE r == [run[s] EXCEPT !.pc = "apply", !.i = j, !.mem = mem]
    <3>1. run[s] \in Execution BY <1>2, ScopePlans
    <3>2. r \in Execution /\ r.plan = run[s].plan /\ r.pc = "apply" /\ r.mem = mem /\ r.i = j
      BY <1>3, <3>1 DEF Execution, Stages
    <3>3. run' = [run EXCEPT ![s] = r] BY <2>1 DEF ProvInv, ProvShapes
    <3> QED BY <3>2, <3>3 DEF Becomes
  <2>2. 1 \in Nat \ {0} OBVIOUS
  <2>5. run' = [run EXCEPT ![s].pc = "apply", ![s].i = 1, ![s].mem = mem] => \E r : Becomes(s, r, "apply", mem, 1)
    BY <2>1, <2>2, Zenon
  <2>3. \E r : Becomes(s, r, "apply", mem, 1) BY <1>6, <2>5
  <2>4. Leaves(s, mem) BY <1>4, <1>5, <1>6, Kept1 DEF Leaves
  <2> QED BY <1>2, <1>3, <2>2, <2>3, <2>4, Onward
<1>7. CASE Prov!Fails(s, "failed") /\ UNCHANGED plans BY <1>2, <1>4, <1>5, <1>7, Failed
<1>8. CASE Prov!FailsSaving(s, mem) /\ UNCHANGED plans
  BY <1>2, <1>3, <1>4, <1>5, <1>8, FailedSaving
<1> QED BY <1>6, <1>7, <1>8 DEF Prov!GenerateConfigs, Prov!Mem, mem

\* A machine receives its configuration (configureMachines).
LEMMA ApplyConfigKeeps ==
  ASSUME ProvInv, NEW s \in Prov!Scopes, Prov!ApplyConfig(s)
  PROVE  ProvInv'
<1>1. Prov!Job(s, "apply") BY DEF Prov!ApplyConfig
<1>2. /\ Busy(s) /\ run[s].i \in Nat \ {0} /\ run[s].mem \in Prov!Plan /\ run[s].mem.machines \in Seq(Machines)
  BY <1>1, JobAt DEF Stages
<1>3. faults' \in 0..MaxFaults BY ProvBudget DEF Prov!ApplyConfig
<1>4. UNCHANGED <<plans, registry, vms, pending, isos, taken, up, draft, starts>>
  BY DEF Prov!ApplyConfig, Prov!world, Prov!handlers
<1>5. run[s].i <= Len(run[s].mem.machines) BY <1>2 DEF Prov!ApplyConfig, Prov!Past
<1>6. CASE Prov!Record1(Prov!Cur(s), "config-applied") /\ Prov!NextMachine(s, "apply")
  <2>1. PICK r : Becomes(s, r, "apply", run[s].mem, run[s].i + 1) BY <1>2, <1>6, Ways DEF Stages
  <2>2. run[s].i + 1 \in Nat \ {0} BY <1>2
  <2>3. Remembers(s) BY <1>2, <1>5, <1>6, MarkedCur
  <2> QED BY <1>2, <1>3, <1>4, <2>1, <2>2, <2>3, Passed
<1>7. CASE UNCHANGED records /\ \E e \in {"failed", "uncertain"} : Prov!Fails(s, e)
  BY <1>2, <1>3, <1>4, <1>7, Failed
<1> QED BY <1>6, <1>7 DEF Prov!ApplyConfig

\* The machines join (verifyConfiguredMachines).
LEMMA JoinKeeps ==
  ASSUME ProvInv, NEW s \in Prov!Scopes, Prov!Join(s)
  PROVE  ProvInv'
<1>1. Prov!Job(s, "apply") BY DEF Prov!Join
<1>2. Busy(s) /\ run[s].i \in Nat \ {0} /\ run[s].mem \in Prov!Plan BY <1>1, JobAt DEF Stages
<1>3. faults' \in 0..MaxFaults BY ProvBudget DEF Prov!Join
<1>4. UNCHANGED <<plans, records, registry, vms, pending, isos, taken, up, draft, starts>>
  BY DEF Prov!Join, Prov!durable, Prov!world, Prov!handlers
<1>5. ASSUME NEW x \in {"import", "ready"}, Prov!Rewind(s, x) PROVE ProvInv'
  <2>1. PICK r : Becomes(s, r, x, run[s].mem, 1) BY <1>2, <1>5, Ways DEF Stages
  <2>2. 1 \in Nat \ {0} OBVIOUS
  <2> QED BY <1>2, <1>3, <1>4, <2>1, <2>2, Kept1, Passed
<1>6. CASE \E e \in {"failed", "uncertain"} : Prov!Fails(s, e) BY <1>2, <1>3, <1>4, <1>6, Failed
<1> QED BY <1>5, <1>6 DEF Prov!Join

\* The import is marked before the registry is asked (ImportStarted).
LEMMA ImportStartedKeeps ==
  ASSUME ProvInv, NEW s \in Prov!Scopes, Prov!ImportStarted(s)
  PROVE  ProvInv'
<1> DEFINE mem == [run[s].mem EXCEPT !.imported = TRUE]
<1>1. Prov!Job(s, "import") BY DEF Prov!ImportStarted
<1>2. Busy(s) /\ run[s].mem \in Prov!Plan /\ run[s].i \in Nat \ {0} /\ run[s].plan \in Plans
  BY <1>1, JobAt DEF Stages
<1>3. /\ mem \in Prov!Plan /\ mem.machines = run[s].mem.machines /\ mem.kind = run[s].mem.kind
      /\ mem.target = run[s].mem.target /\ mem.imported /\ Extends(mem, run[s].mem)
  BY <1>2 DEF Prov!Plan, Extends
<1>4. faults' \in 0..MaxFaults BY ProvBudget DEF Prov!ImportStarted
<1>5. UNCHANGED <<records, registry, vms, pending, isos, taken, up, draft, starts>>
  BY DEF Prov!ImportStarted, Prov!world, Prov!handlers
<1> HIDE DEF mem
<1>6. CASE /\ plans' = [plans EXCEPT ![run[s].plan] = mem]
           /\ run' = [run EXCEPT ![s].pc = "register", ![s].mem = mem]
  <2>1. \E r : Becomes(s, r, "register", mem, run[s].i)
    <3> DEFINE r == [run[s] EXCEPT !.pc = "register", !.mem = mem]
    <3>1. run[s] \in Execution BY <1>2, ScopePlans
    <3>2. /\ r \in Execution /\ r.plan = run[s].plan /\ r.pc = "register" /\ r.mem = mem
          /\ r.i = run[s].i
      BY <1>3, <3>1 DEF Execution, Stages
    <3>3. run' = [run EXCEPT ![s] = r] BY <1>6 DEF ProvInv, ProvShapes
    <3> QED BY <3>2, <3>3 DEF Becomes
  <2>2. Leaves(s, mem) BY <1>4, <1>5, <1>6, Kept1 DEF Leaves
  <2>3. plans'[run[s].plan].imported BY <1>2, <1>3, <1>6 DEF ProvInv, ProvShapes
  <2> QED BY <1>2, <1>3, <2>1, <2>2, <2>3, Onward
<1>7. CASE Prov!FailsSaving(s, mem) /\ UNCHANGED plans
  BY <1>2, <1>3, <1>4, <1>5, <1>7, FailedSaving
<1> QED BY <1>6, <1>7 DEF Prov!ImportStarted, Prov!Mem, mem

\* The cluster of an import that was marked is registered (RegisterCluster).
LEMMA RegisterClusterKeeps ==
  ASSUME ProvInv, NEW s \in Prov!Scopes, Prov!RegisterCluster(s)
  PROVE  ProvInv'
<1>1. Prov!Job(s, "register") BY DEF Prov!RegisterCluster
<1>2. /\ Busy(s) /\ run[s].mem \in Prov!Plan /\ run[s].i \in Nat \ {0} /\ plans[run[s].plan].imported
  BY <1>1, JobAt DEF Stages, Allocating
<1>3. faults' \in 0..MaxFaults BY ProvBudget DEF Prov!RegisterCluster
<1>4. UNCHANGED <<plans, records, vms, pending, isos, taken, up, draft, starts>>
  BY DEF Prov!RegisterCluster, Prov!world, Prov!handlers
<1>5. registry' = registry \/ registry' = registry \cup {run[s].plan} BY DEF Prov!RegisterCluster
<1>6. ASSUME NEW x \in {"ready", "end"}, NEW r, Becomes(s, r, x, run[s].mem, run[s].i) PROVE ProvInv'
  BY <1>2, <1>3, <1>4, <1>5, <1>6, Kept1, Passed
<1>7. \E r : Becomes(s, r, "ready", run[s].mem, run[s].i) \/ Becomes(s, r, "end", run[s].mem, run[s].i)
  BY <1>2, Ways DEF Stages, Prov!RegisterCluster
<1> QED BY <1>6, <1>7

\* A machine of the new cluster becomes Ready.
LEMMA AdoptMachineKeeps ==
  ASSUME ProvInv, NEW s \in Prov!Scopes, Prov!AdoptMachine(s)
  PROVE  ProvInv'
<1> DEFINE m == Prov!Cur(s)
           c == IF run[s].mem.kind = "cluster-create" THEN run[s].plan ELSE s
           y == [records[m] EXCEPT !.status = "ready", !.cluster = c]
<1>1. Prov!Job(s, "ready") BY DEF Prov!AdoptMachine
<1>2. /\ Busy(s) /\ run[s].i \in Nat \ {0} /\ run[s].mem \in Prov!Plan
      /\ run[s].mem.machines \in Seq(Machines) /\ run[s].plan \in Plans
  BY <1>1, JobAt DEF Stages
<1>3. faults' \in 0..MaxFaults BY ProvBudget DEF Prov!AdoptMachine
<1>4. UNCHANGED <<plans, registry, vms, pending, isos, taken, up, draft, starts>>
  BY DEF Prov!AdoptMachine, Prov!world, Prov!handlers
<1>5. run[s].i <= Len(run[s].mem.machines) BY <1>2 DEF Prov!AdoptMachine, Prov!Past
<1>6. CASE /\ records' = [records EXCEPT ![m].status = "ready", ![m].cluster = c]
           /\ Prov!NextMachine(s, "ready")
  <2>1. PICK r : Becomes(s, r, "ready", run[s].mem, run[s].i + 1) BY <1>2, <1>6, Ways DEF Stages
  <2>2. run[s].i + 1 \in Nat \ {0} BY <1>2
  <2>3. m \in Prov!ToSet(run[s].mem.machines) /\ m \in Machines /\ records[m] \in Prov!Record
    BY <1>2, <1>5, CurIsListed DEF ProvInv, ProvShapes
  <2>4. c \in Prov!Scopes BY <1>2 DEF Prov!Scopes
  <2> HIDE DEF m, c
  <2>5. y \in Prov!Record /\ y.status # "deleted" /\ y.plan = records[m].plan /\ y.vmid = records[m].vmid
    BY <2>3, <2>4 DEF Prov!Record
  <2>6. records' = [records EXCEPT ![m] = y] BY <1>6, <2>3 DEF ProvInv, ProvShapes
  <2> HIDE DEF y
  <2>7. Remembers(s) BY <1>2, <2>3, <2>5, <2>6, Marked
  <2> QED BY <1>2, <1>3, <1>4, <2>1, <2>2, <2>7, Passed
<1>7. CASE Prov!Fails(s, "failed") /\ UNCHANGED records BY <1>2, <1>3, <1>4, <1>7, Failed
<1> QED BY <1>6, <1>7 DEF Prov!AdoptMachine, Prov!Mem

\* The last machine is adopted.
LEMMA CompleteKeeps ==
  ASSUME ProvInv, NEW s \in Prov!Scopes, Prov!Complete(s)
  PROVE  ProvInv'
<1>1. Prov!Job(s, "ready") /\ Prov!Goto(s, "end") BY DEF Prov!Complete
<1>2. Busy(s) /\ run[s].mem \in Prov!Plan /\ run[s].i \in Nat \ {0} BY <1>1, JobAt DEF Stages
<1>3. PICK r : Becomes(s, r, "end", run[s].mem, run[s].i) BY <1>1, <1>2, Ways DEF Stages
<1>4. UNCHANGED <<plans, records, registry, vms, pending, isos, taken, up, draft, starts, faults>>
  BY DEF Prov!Complete, Prov!durable, Prov!world, Prov!handlers
<1>5. faults' \in 0..MaxFaults BY <1>4 DEF ProvInv, ProvShapes
<1> QED BY <1>2, <1>3, <1>4, <1>5, Kept1, Passed

-----------------------------------------------------------------------------
(* The steps of a deletion. *)

\* A job goes on towards the deletion, which saves nothing.
LEMMA Removal ==
  ASSUME ProvInv, NEW s \in Prov!Scopes, Busy(s), NEW r, NEW x \in {"stop", "recheck", "delete"},
         Becomes(s, r, x, run[s].mem, run[s].i), faults' \in 0..MaxFaults, taken' \in {taken, taken \ {s}},
         UNCHANGED <<plans, records, registry, vms, pending, isos, up, draft, starts>>,
         Removing(s)'
  PROVE  ProvInv'
<1>1. run'[s] = r /\ r.pc = x /\ r.plan = run[s].plan /\ r.mem = run[s].mem
  BY DEF Becomes, ProvInv, ProvShapes
<1>2. JobMoves(s, r)
  <2>1. \A m \in Prov!ToSet(run[s].mem.machines) :
           m \in Machines /\ records'[m] # Prov!NoRecord /\ records'[m].plan = run[s].plan
    BY DEF ProvInv, Jobs, Executing
  <2>2. Leaves(s, run[s].mem) BY Kept1 DEF Leaves
  <2> QED BY <1>1, <2>1, <2>2, Same DEF JobMoves, Becomes
<1>3. Allocating(s)' BY <1>1 DEF Allocating, Asking
<1> QED BY <1>2, <1>3, JobStep

\* An owned machine has a record, and a request for it is not outstanding.
LEMMA OwnedIsHere ==
  ASSUME ProvInv, NEW m, Prov!Owned(m)
  PROVE  /\ records[m] # Prov!NoRecord /\ Present(m) /\ m \notin pending
         /\ \A q \in Prov!Scopes : Asking(q) => Prov!Cur(q) # m
<1>1. records[m] # Prov!NoRecord /\ Present(m) BY DEF Prov!Owned, Prov!Live, Prov!NoRecord, Present
<1>2. \A q \in Prov!Scopes : Asking(q) => Busy(q) BY DEF Asking, Busy, Prov!Idle
<1> QED BY <1>1, <1>2 DEF ProvInv, Awaited, Jobs, Allocating

\* The worker is drained (deleteWorker).
LEMMA DrainWorkerKeeps ==
  ASSUME ProvInv, NEW s \in Prov!Scopes, Prov!DrainWorker(s)
  PROVE  ProvInv'
<1>1. Prov!Job(s, "drain") BY DEF Prov!DrainWorker
<1>2. Busy(s) /\ run[s].pc = "drain" /\ run[s].mem.kind = "worker-delete"
  <2>1. Busy(s) /\ run[s].pc = "drain" /\ Removing(s) BY <1>1, JobAt DEF Stages
  <2> QED BY <2>1 DEF Removing
<1>3. faults' \in 0..MaxFaults BY ProvBudget DEF Prov!DrainWorker, Prov!NoFault
<1>4. UNCHANGED <<plans, records, registry, vms, pending, isos, taken, up, draft, starts>>
  BY DEF Prov!DrainWorker, Prov!durable, Prov!world, Prov!handlers
<1>5. CASE Prov!Owned(run[s].mem.target) /\ Prov!Goto(s, "stop")
  <2>1. PICK r : Becomes(s, r, "stop", run[s].mem, run[s].i) BY <1>2, <1>5, Ways, ScopePlans DEF Stages, Execution
  <2>2. run'[s].pc = "stop" /\ run'[s].mem = run[s].mem BY <2>1 DEF Becomes, ProvInv, ProvShapes
  <2>3. records[run[s].mem.target] # Prov!NoRecord BY <1>5, OwnedIsHere
  <2>4. Removing(s)' BY <1>2, <1>4, <2>2, <2>3 DEF Removing
  <2> QED BY <1>2, <1>3, <1>4, <2>1, <2>4, Removal
<1>6. CASE Prov!Fails(s, "failed") BY <1>2, <1>3, <1>4, <1>6, Failed
<1> QED BY <1>5, <1>6 DEF Prov!DrainWorker, Prov!Mem

\* The machine is one of a failed creation that never becomes a cluster (cleanupRecord).
LEMMA CleanupMachineKeeps ==
  ASSUME ProvInv, NEW s \in Prov!Scopes, Prov!CleanupMachine(s)
  PROVE  ProvInv'
<1> DEFINE t == run[s].mem.target
<1>1. Prov!Job(s, "cleanup") BY DEF Prov!CleanupMachine
<1>2. /\ Busy(s) /\ run[s].pc = "cleanup" /\ run[s].mem.kind \in {"worker-delete", "machine-cleanup"}
  <2>1. Busy(s) /\ run[s].pc = "cleanup" /\ Removing(s) BY <1>1, JobAt DEF Stages
  <2> QED BY <2>1 DEF Removing
<1>3. UNCHANGED <<plans, records, registry, vms, pending, isos, taken, up, draft, starts, faults>>
  BY DEF Prov!CleanupMachine, Prov!durable, Prov!world, Prov!handlers
<1>4. faults' \in 0..MaxFaults BY <1>3 DEF ProvInv, ProvShapes
<1>5. CASE Prov!CleanupRecord(t) /\ Prov!Owned(t) /\ Prov!Goto(s, "stop")
  <2>1. PICK r : Becomes(s, r, "stop", run[s].mem, run[s].i) BY <1>2, <1>5, Ways, ScopePlans DEF Stages, Execution
  <2>2. run'[s].pc = "stop" /\ run'[s].mem = run[s].mem BY <2>1 DEF Becomes, ProvInv, ProvShapes
  <2>3. records[t] # Prov!NoRecord BY <1>5, OwnedIsHere
  <2>4. plans[records[t].plan].status \in {"failed", "interrupted"} /\ records[t].plan \notin registry
    BY <1>5 DEF Prov!CleanupRecord, Prov!Unimported, ProvInv, Registered
  <2>5. Removing(s)' BY <1>2, <1>3, <2>2, <2>3, <2>4 DEF Removing
  <2> QED BY <1>2, <1>3, <1>4, <2>1, <2>5, Removal
<1>6. CASE Prov!Fails(s, "failed") BY <1>2, <1>3, <1>4, <1>6, Failed
<1> QED BY <1>5, <1>6 DEF Prov!CleanupMachine, Prov!Mem

\* The VM is stopped, and looked at again.
LEMMA StopOwnedKeeps ==
  ASSUME ProvInv, NEW s \in Prov!Scopes, Prov!StopOwned(s)
  PROVE  ProvInv'
<1>1. Prov!Job(s, "stop") BY DEF Prov!StopOwned
<1>2. Busy(s) /\ run[s].pc = "stop" /\ Removing(s) BY <1>1, JobAt DEF Stages
<1>3. faults' \in 0..MaxFaults BY ProvBudget DEF Prov!StopOwned
<1>4. UNCHANGED <<plans, records, registry, vms, pending, isos, taken, up, draft, starts>>
  BY DEF Prov!StopOwned, Prov!durable, Prov!world, Prov!handlers
<1>5. CASE Prov!Goto(s, "recheck")
  <2>1. PICK r : Becomes(s, r, "recheck", run[s].mem, run[s].i) BY <1>2, <1>5, Ways, ScopePlans DEF Stages, Execution
  <2>2. run'[s].pc = "recheck" /\ run'[s].mem = run[s].mem BY <2>1 DEF Becomes, ProvInv, ProvShapes
  <2>3. Removing(s)' BY <1>2, <1>4, <2>2 DEF Removing
  <2> QED BY <1>2, <1>3, <1>4, <2>1, <2>3, Removal
<1>6. CASE \E e \in {"failed", "uncertain"} : Prov!Fails(s, e) BY <1>2, <1>3, <1>4, <1>6, Failed
<1> QED BY <1>5, <1>6 DEF Prov!StopOwned

\* Seen at its VMID once more, the machine can come from nowhere else (VerifyOwned before DELETE).
LEMMA RecheckKeeps ==
  ASSUME ProvInv, NEW s \in Prov!Scopes, Prov!Recheck(s)
  PROVE  ProvInv'
<1> DEFINE t == run[s].mem.target
<1>1. Prov!Job(s, "recheck") BY DEF Prov!Recheck
<1>2. Busy(s) /\ run[s].pc = "recheck" /\ Removing(s) /\ t \in Machines
  <2>1. Busy(s) /\ run[s].pc = "recheck" /\ Removing(s) /\ Executing(s) BY <1>1, JobAt DEF Stages
  <2> QED BY <2>1 DEF Removing, Executing, Aimed
<1>3. UNCHANGED <<plans, records, registry, vms, pending, isos, up, draft, starts, faults>> /\ taken' = taken \ {s}
  BY DEF Prov!Recheck, Prov!durable, Prov!handlers
<1>4. faults' \in 0..MaxFaults BY <1>3 DEF ProvInv, ProvShapes
<1>5. CASE Prov!Owned(t) /\ Prov!Goto(s, "delete")
  <2>1. PICK r : Becomes(s, r, "delete", run[s].mem, run[s].i) BY <1>2, <1>5, Ways, ScopePlans DEF Stages, Execution
  <2>2. /\ run'[s].pc = "delete" /\ run'[s].mem = run[s].mem
        /\ \A q \in Prov!Scopes : q # s => run'[q] = run[q]
    BY <2>1 DEF Becomes, ProvInv, ProvShapes
  <2>3. /\ t \notin pending /\ \A q \in Prov!Scopes : Asking(q) => Prov!Cur(q) # t BY <1>5, OwnedIsHere
  <2>4. \A q \in Prov!Scopes : Asking(q)' => Asking(q) /\ Prov!Cur(q)' = Prov!Cur(q)
    BY <2>2 DEF Asking, Prov!Cur
  <2>5. vms[records[t].vmid] # Prov!Foreign
    BY <1>2, <1>5 DEF Prov!Owned, Prov!Foreign, ProvInv, Stocked
  <2> HIDE DEF t
  <2>6. /\ run'[s].mem.kind = "machine-cleanup"
             => /\ plans'[records'[t].plan].status \in {"failed", "interrupted"}
                /\ records'[t].plan \notin registry'
        /\ records'[t] # Prov!NoRecord /\ run'[s].mem.kind \in {"worker-delete", "machine-cleanup"}
        /\ t \notin pending' /\ \A q \in Prov!Scopes : Asking(q)' => Prov!Cur(q)' # t
        /\ vms'[records'[t].vmid] # Prov!Foreign
    BY <1>2, <1>3, <2>2, <2>3, <2>4, <2>5 DEF Removing, t
  <2>7. Removing(s)' BY <2>2, <2>6 DEF Removing, t
  <2> QED BY <1>2, <1>3, <1>4, <2>1, <2>7, Removal
<1>6. CASE Prov!Fails(s, "uncertain") BY <1>2, <1>3, <1>4, <1>6, Failed
<1> QED BY <1>5, <1>6 DEF Prov!Recheck, Prov!Mem

-----------------------------------------------------------------------------
(* The steps that reserve, list and close a machine. *)

\* The smallest of a set.
LEMMA Least ==
  ASSUME NEW S, S \subseteq Nat, S # {}
  PROVE  Prov!Min(S) \in S
<1> DEFINE less == {ss \in Nat \X Nat : ss[1] < ss[2]}
<1>1. IsWellFoundedOn(less, Nat) BY NatLessThanWellFounded DEF OpToRel
<1>2. \E x \in S : \A y \in S : <<y, x>> \notin less
  <2> HIDE DEF less
  <2> QED BY <1>1, WFMin
<1>3. \E x \in S : \A y \in S : x <= y
  <2>1. PICK x \in S : \A y \in S : <<y, x>> \notin less BY <1>2
  <2>2. ASSUME NEW y \in S PROVE x <= y
    <3>1. x \in Nat /\ y \in Nat BY <2>1
    <3>2. <<y, x>> \in Nat \X Nat BY <3>1
    <3>3. ~(y < x) BY <2>1, <3>2
    <3> QED BY <3>1, <3>3
  <2> QED BY <2>2
<1> QED BY <1>3 DEF Prov!Min

\* A machine that was asked for is not the one another job removes.
LEMMA NotRemoved ==
  ASSUME ProvInv, NEW s \in Prov!Scopes, Asking(s)
  PROVE  \A q \in Prov!Scopes : run[q].pc \in {"delete", "gone"} => Prov!Cur(s) # run[q].mem.target
<1>1. \A q \in Prov!Scopes : run[q].pc \in {"delete", "gone"} => Busy(q) BY DEF Busy, Prov!Idle
<1> QED BY <1>1 DEF ProvInv, Jobs, Removing

\* A machine gets its record before its VM (Reserve: NextID, saveOwned).
LEMMA ReserveKeeps ==
  ASSUME ProvInv, NEW s \in Prov!Scopes, Prov!Reserve(s)
  PROVE  ProvInv'
<1> DEFINE free == Vmids \ DOMAIN vms
           new == {n \in Machines : records[n].status = "none"}
           ms == run[s].mem.machines
<1>1. Prov!Job(s, "allocate") BY DEF Prov!Reserve
<1>2. /\ Busy(s) /\ run[s] \in Execution /\ run[s].mem \in Prov!Plan /\ run[s].i \in Nat \ {0}
      /\ run[s].plan \in Plans /\ ms \in Seq(Machines) /\ Len(ms) = run[s].i - 1
      /\ records \in [Machines -> Prov!Record \cup {Prov!NoRecord}]
  BY <1>1, JobAt DEF Allocating, Stages
<1>3. faults' \in 0..MaxFaults BY ProvBudget DEF Prov!Reserve
<1>4. UNCHANGED <<plans, registry, vms, pending, isos, taken, up, draft, starts>>
  BY DEF Prov!Reserve, Prov!world, Prov!handlers
<1>5. CASE Prov!Fails(s, "failed") /\ UNCHANGED records BY <1>2, <1>3, <1>4, <1>5, Failed
<1>6. ASSUME ~(Prov!Fails(s, "failed") /\ UNCHANGED records) PROVE ProvInv'
  <2>1. free # {} /\ new # {} /\ run[s].i <= Len(run[s].mem.roles) BY DEF Prov!Reserve, Prov!Mem
  <2>2. PICK n : n = Prov!Min(new) /\ n \in Machines /\ records[n].status = "none"
    BY <2>1, Least DEF ProvInv, Stocked
  <2>3. PICK v : v = Prov!Min(free) /\ v \in Vmids BY <2>1, Least DEF ProvInv, Stocked
  <2> DEFINE mem == [run[s].mem EXCEPT !.machines = Append(ms, n)]
             role == run[s].mem.roles[run[s].i]
             y == [status |-> "reserved", cluster |-> s, plan |-> run[s].plan, vmid |-> v, role |-> role]
  <2>4. /\ records' = [records EXCEPT ![n] = y]
        /\ run' = [run EXCEPT ![s].pc = "list", ![s].mem = mem]
    BY <1>6, <2>2, <2>3 DEF Prov!Reserve, Prov!Mem
  <2>5. records[n] = Prov!NoRecord /\ n \notin pending /\ ~Present(n)
    BY <1>2, <2>2 DEF Prov!Record, ProvInv, Prov!NothingOrphaned, Present
  <2>6. role \in {"cp", "worker"}
    <3>1. run[s].mem.roles = <<>> \/ run[s].mem.roles \in Seq({"cp", "worker"})
      BY <1>2 DEF Prov!Plan, ProvInv, Stocked
    <3> QED BY <1>2, <2>1, <3>1
  <2>7. y \in Prov!Record /\ y # Prov!NoRecord BY <1>2, <2>3, <2>6 DEF Prov!Record, Prov!NoRecord
  <2>8. /\ Append(ms, n) \in Seq(Machines) /\ Len(Append(ms, n)) = run[s].i
        /\ Append(ms, n)[run[s].i] = n
        /\ Prov!ToSet(Append(ms, n)) = Prov!ToSet(ms) \cup {n}
    <3> HIDE DEF ms
    <3>1. /\ Append(ms, n) \in Seq(Machines) /\ Len(Append(ms, n)) = run[s].i
          /\ Append(ms, n)[run[s].i] = n
      BY <1>2, <2>2
    <3>2. /\ DOMAIN ms = 1..Len(ms) /\ DOMAIN Append(ms, n) = 1..(Len(ms) + 1) /\ Len(ms) \in Nat
          /\ \A k \in 1..Len(ms) : Append(ms, n)[k] = ms[k]
          /\ Append(ms, n)[Len(ms) + 1] = n
      BY <1>2, <2>2
    <3>3. Prov!ToSet(Append(ms, n)) = Prov!ToSet(ms) \cup {n}
      BY <3>2 DEF Prov!ToSet
    <3> QED BY <3>1, <3>3
  <2>9. /\ mem \in Prov!Plan /\ mem.machines = Append(ms, n) /\ mem.kind = run[s].mem.kind
        /\ mem.target = run[s].mem.target /\ Extends(mem, run[s].mem)
    BY <1>2, <2>8 DEF Prov!Plan, Extends
  <2>10. y.status = "reserved" /\ y.plan = run[s].plan OBVIOUS
  <2> HIDE DEF mem, y
  <2>11. \E r : Becomes(s, r, "list", mem, run[s].i)
    <3> DEFINE r == [run[s] EXCEPT !.pc = "list", !.mem = mem]
    <3>1. /\ r \in Execution /\ r.plan = run[s].plan /\ r.pc = "list" /\ r.mem = mem
          /\ r.i = run[s].i
      BY <1>2, <2>9 DEF Execution, Stages
    <3>2. run' = [run EXCEPT ![s] = r] BY <2>4 DEF ProvInv, ProvShapes
    <3> QED BY <3>1, <3>2 DEF Becomes
  <2>12. PICK r : Becomes(s, r, "list", mem, run[s].i) BY <2>11
  <2>13. /\ records'[n] = y /\ \A m \in Machines : m # n => records'[m] = records[m]
         /\ records' \in [Machines -> Prov!Record \cup {Prov!NoRecord}]
    BY <1>2, <2>2, <2>4, <2>7
  <2>14. Remembers(s)
    <3>1. \A q \in Prov!Scopes : Asking(q) =>
              /\ Prov!Cur(q) \in Machines /\ records[Prov!Cur(q)] # Prov!NoRecord
              /\ records[Prov!Cur(q)].status # "deleted"
      <4>1. \A q \in Prov!Scopes : Asking(q) => Busy(q) BY DEF Asking, Busy, Prov!Idle
      <4> QED BY <4>1, CurIsListed DEF Asking, ProvInv, Jobs, Allocating
    <3>2. \A m \in Machines : records[m].status = "deleted" => m \notin pending /\ ~Present(m)
      BY DEF ProvInv, Prov!DeletedIsGone, Present
    <3> QED BY <2>5, <2>10, <2>13, <3>1, <3>2 DEF Remembers
  <2>15. run'[s] = r /\ r.pc = "list" /\ r.plan = run[s].plan /\ r.mem = mem /\ r.i = run[s].i /\ r \in Execution
    BY <2>12 DEF Becomes, ProvInv, ProvShapes
  <2>16. JobMoves(s, r)
    <3>1. \A m \in Prov!ToSet(mem.machines) :
             m \in Machines /\ records'[m] # Prov!NoRecord /\ records'[m].plan = run[s].plan
      <4>1. \A m \in Prov!ToSet(ms) :
               m \in Machines /\ records[m] # Prov!NoRecord /\ records[m].plan = run[s].plan
        BY <1>2 DEF ProvInv, Jobs, Executing
      <4> QED BY <2>2, <2>5, <2>7, <2>8, <2>9, <2>10, <2>13, <4>1
    <3>2. \A q \in Prov!Scopes : run[q].pc \in {"delete", "gone"} => run[q].mem.target # n
      <4>1. \A q \in Prov!Scopes : run[q].pc \in {"delete", "gone"} => Busy(q) BY DEF Busy, Prov!Idle
      <4> QED BY <2>5, <4>1 DEF ProvInv, Jobs, Removing
    <3>3. Leaves(s, mem) BY <1>3, <1>4, <2>14 DEF Leaves
    <3> QED BY <2>8, <2>9, <2>12, <2>15, <3>1, <3>2, <3>3 DEF JobMoves, Becomes
  <2>17. Allocating(s)'
    <3>1. Prov!Cur(s)' = n BY <2>8, <2>9, <2>15 DEF Prov!Cur
    <3>2. ~Present(n)' /\ n \notin pending' BY <1>4, <2>5 DEF Present
    <3> QED BY <2>8, <2>9, <2>10, <2>13, <2>15, <3>1, <3>2 DEF Allocating
  <2>18. Removing(s)' BY <2>15 DEF Removing
  <2> QED BY <1>2, <2>16, <2>17, <2>18, JobStep
<1> QED BY <1>5, <1>6

\* The plan that lists the machine is durable before the machine is asked for.
LEMMA ListMachineKeeps ==
  ASSUME ProvInv, NEW s \in Prov!Scopes, Prov!ListMachine(s)
  PROVE  ProvInv'
<1>1. Prov!Job(s, "list") BY DEF Prov!ListMachine
<1>2. /\ Busy(s) /\ run[s].mem \in Prov!Plan /\ run[s].i \in Nat \ {0} /\ run[s].plan \in Plans
      /\ Len(run[s].mem.machines) = run[s].i /\ run[s].pc = "list" /\ Allocating(s)
  BY <1>1, JobAt DEF Allocating, Stages
<1>3. faults' \in 0..MaxFaults BY ProvBudget DEF Prov!ListMachine
<1>4. UNCHANGED <<records, registry, vms, pending, isos, taken, up, draft, starts>>
  BY DEF Prov!ListMachine, Prov!world, Prov!handlers
<1>5. CASE Prov!Fails(s, "failed") /\ UNCHANGED plans BY <1>2, <1>3, <1>4, <1>5, Failed
<1>6. CASE plans' = [plans EXCEPT ![run[s].plan] = run[s].mem] /\ Prov!Goto(s, "create")
  <2>1. PICK r : Becomes(s, r, "create", run[s].mem, run[s].i) BY <1>2, <1>6, Ways DEF Stages
  <2>2. run'[s] = r /\ r.pc = "create" /\ r.plan = run[s].plan /\ r.mem = run[s].mem /\ r.i = run[s].i
    BY <2>1 DEF Becomes, ProvInv, ProvShapes
  <2>3. /\ Prov!Cur(s) \in Prov!ToSet(run[s].mem.machines) /\ Prov!Cur(s)' = Prov!Cur(s)
        /\ plans'[run[s].plan] = run[s].mem
    BY <1>2, <1>6, <2>2, CurIsListed DEF Prov!Cur, ProvInv, ProvShapes
  <2>4. Allocating(s)'
    <3>1. ~Present(Prov!Cur(s))' <=> ~Present(Prov!Cur(s)) BY <1>4, <2>3 DEF Present
    <3> QED BY <1>2, <1>4, <2>2, <2>3, <3>1 DEF Allocating, Asking
  <2>5. Removing(s)' BY <2>2 DEF Removing
  <2>6. JobMoves(s, r)
    <3>1. \A m \in Prov!ToSet(run[s].mem.machines) :
             m \in Machines /\ records'[m] # Prov!NoRecord /\ records'[m].plan = run[s].plan
      BY <1>2, <1>4 DEF ProvInv, Jobs, Executing
    <3>2. \A q \in Prov!Scopes : run[q].pc \in {"delete", "gone"} => Prov!Cur(s) # run[q].mem.target
      BY <1>2, NotRemoved DEF Asking
    <3>3. Leaves(s, run[s].mem) BY <1>3, <1>4, <1>6, Kept1 DEF Leaves
    <3> QED BY <2>1, <2>2, <3>1, <3>2, <3>3, Same DEF JobMoves, Becomes, Prov!Cur
  <2> QED BY <1>2, <2>4, <2>5, <2>6, JobStep
<1> QED BY <1>5, <1>6 DEF Prov!ListMachine, Prov!Mem

\* The record is closed once its VM is gone for good.
LEMMA RecordDeletedKeeps ==
  ASSUME ProvInv, NEW s \in Prov!Scopes, Prov!RecordDeleted(s)
  PROVE  ProvInv'
<1> DEFINE t == run[s].mem.target
           y == [records[t] EXCEPT !.status = "deleted"]
<1>1. Prov!Job(s, "gone") BY DEF Prov!RecordDeleted
<1>2. /\ Busy(s) /\ run[s].mem \in Prov!Plan /\ run[s].i \in Nat \ {0} /\ run[s].pc = "gone"
      /\ t \in Machines /\ records[t] \in Prov!Record
      /\ t \notin pending /\ ~Present(t) /\ \A q \in Prov!Scopes : Asking(q) => Prov!Cur(q) # t
  <2>1. /\ Busy(s) /\ run[s].mem \in Prov!Plan /\ run[s].i \in Nat \ {0} /\ run[s].pc = "gone"
        /\ Executing(s) /\ Removing(s) /\ records \in [Machines -> Prov!Record \cup {Prov!NoRecord}]
    BY <1>1, JobAt DEF Stages
  <2>2. t \in Machines BY <2>1 DEF Removing, Executing, Aimed
  <2>3. records[t] # Prov!NoRecord BY <2>1 DEF Removing
  <2>4. t \notin pending /\ ~Present(t) /\ \A q \in Prov!Scopes : Asking(q) => Prov!Cur(q) # t
    BY <2>1 DEF Removing
  <2> QED BY <2>1, <2>2, <2>3, <2>4
<1>3. faults' \in 0..MaxFaults BY ProvBudget DEF Prov!RecordDeleted
<1>4. UNCHANGED <<plans, registry, vms, pending, isos, taken, up, draft, starts>>
  BY DEF Prov!RecordDeleted, Prov!world, Prov!handlers
<1>5. CASE Prov!Fails(s, "failed") /\ UNCHANGED records BY <1>2, <1>3, <1>4, <1>5, Failed
<1>6. CASE Prov!Record1(t, "deleted") /\ (Prov!Goto(s, "end") \/ Prov!Fails(s, "failed"))
  <2>1. \E r : Becomes(s, r, "end", run[s].mem, run[s].i) BY <1>2, <1>6, Ways DEF Stages
  <2>2. /\ records'[t] = y /\ \A m \in Machines : m # t => records'[m] = records[m]
        /\ records' \in [Machines -> Prov!Record \cup {Prov!NoRecord}]
        /\ y # Prov!NoRecord /\ y.plan = records[t].plan /\ y.vmid = records[t].vmid
        /\ records[t] # Prov!NoRecord
    <3>1. /\ y \in Prov!Record /\ y # Prov!NoRecord /\ y.plan = records[t].plan /\ y.vmid = records[t].vmid
          /\ records[t] # Prov!NoRecord
      BY <1>2 DEF Prov!Record, Prov!NoRecord
    <3>2. records' = [records EXCEPT ![t] = y] BY <1>2, <1>6 DEF Prov!Record1, ProvInv, ProvShapes
    <3> HIDE DEF t, y
    <3> QED BY <1>2, <3>1, <3>2 DEF ProvInv, ProvShapes
  <2>3. \A q \in Prov!Scopes : Asking(q) => Prov!Cur(q) \in Machines /\ records[Prov!Cur(q)].status # "deleted"
    <3>1. \A q \in Prov!Scopes : Asking(q) => Busy(q) BY DEF Asking, Busy, Prov!Idle
    <3> QED BY <3>1, CurIsListed DEF Asking, ProvInv, Jobs, Allocating
  <2> HIDE DEF t, y
  <2>4. Remembers(s)
    <3>1. \A m \in Machines : records[m].status = "deleted" => m \notin pending /\ ~Present(m)
      BY DEF ProvInv, Prov!DeletedIsGone, Present
    <3> QED BY <1>2, <2>2, <2>3, <3>1 DEF Remembers
  <2> QED BY <1>2, <1>3, <1>4, <2>1, <2>4, Passed
<1> QED BY <1>5, <1>6 DEF Prov!RecordDeleted, Prov!Mem

-----------------------------------------------------------------------------
(* What happens at the provider. *)

\* The machine has a record that a durable plan lists, and that is open.
Placed(m) ==
    /\ m \in Machines /\ records[m] # Prov!NoRecord /\ records[m].status # "deleted"
    /\ m \in Prov!ToSet(plans[records[m].plan].machines)

\* What is at the provider has its record there.
LEMMA AllPlaced ==
  ASSUME ProvInv
  PROVE  /\ \A m \in pending : Placed(m) /\ ~Present(m)
         /\ \A v \in DOMAIN vms :
               /\ v \in Vmids
               /\ vms[v] = Prov!Foreign \/ (Placed(vms[v]) /\ v = records[vms[v]].vmid)
<1>1. \A m \in pending : m \in Machines /\ ~Present(m) BY DEF ProvInv, ProvShapes, Awaited
<1>2. \A m \in pending : Placed(m)
  BY <1>1 DEF ProvInv, Prov!NothingOrphaned, Prov!DeletedIsGone, Placed
<1>3. \A v \in DOMAIN vms : v \in Vmids /\ vms[v] \in Machines \cup {Prov!Foreign} BY DEF ProvInv, ProvShapes
<1>4. \A v \in DOMAIN vms : vms[v] \in Machines => Placed(vms[v]) /\ v = records[vms[v]].vmid
  BY <1>3 DEF ProvInv, Prov!NothingOrphaned, Prov!DeletedIsGone, Placed
<1> QED BY <1>1, <1>2, <1>3, <1>4

\* A job goes on, or does not, while VMs come and go.
LEMMA WorldStep ==
  ASSUME ProvInv, run' \in [Prov!Scopes -> Execution \cup {Prov!Idle}],
         \A q \in Prov!Scopes : Busy(q)' =>
             /\ Busy(q) /\ run'[q].plan = run[q].plan /\ run'[q].mem = run[q].mem
             /\ Allocating(q)' /\ Removing(q)',
         \A m \in pending' : Placed(m) /\ ~Present(m)',
         \A v \in DOMAIN vms' :
             /\ v \in Vmids
             /\ vms'[v] = Prov!Foreign \/ (Placed(vms'[v]) /\ v = records[vms'[v]].vmid),
         UNCHANGED <<plans, records, registry, isos, up, draft, starts>>, faults' \in 0..MaxFaults
  PROVE  ProvInv'
<1>1. 0 \notin Machines /\ Stocked' BY DEF ProvInv, Stocked
<1>2. \A v \in DOMAIN vms' : v \in Vmids /\ vms'[v] \in Machines \cup {Prov!Foreign} BY DEF Placed
<1>3. pending' \subseteq Machines BY DEF Placed
<1>4. ProvShapes' BY <1>2, <1>3 DEF ProvInv, ProvShapes
<1>5. Untouched' /\ Drafted' BY DEF ProvInv, Untouched, Drafted, Aimed
<1>6. Jobs'
  <2> SUFFICES ASSUME NEW q \in Prov!Scopes, Busy(q)' PROVE Executing(q)' /\ Allocating(q)' /\ Removing(q)'
    BY DEF Jobs
  <2>1. Executing(q) BY DEF ProvInv, Jobs
  <2> QED BY <2>1 DEF Executing, Extends, Aimed
<1>7. Awaited' BY DEF Awaited
<1>8. Registered' /\ Sourced' BY DEF ProvInv, Registered, Sourced
<1>9. Prov!NothingOrphaned'
  <2>1. \A m \in Machines : m # Prov!Foreign BY <1>1 DEF Prov!Foreign
  <2>2. \A c \in isos : plans[c] # Prov!NoPlan /\ plans[c].image = "named" BY DEF ProvInv, Prov!NothingOrphaned
  <2> QED BY <2>1, <2>2 DEF Prov!NothingOrphaned, Placed
<1>10. Prov!DeletedIsGone'
  <2>1. \A m \in Machines : m # Prov!Foreign BY <1>1 DEF Prov!Foreign
  <2> QED BY <2>1 DEF Prov!DeletedIsGone, Placed
<1> QED BY <1>1, <1>4, <1>5, <1>6, <1>7, <1>8, <1>9, <1>10 DEF ProvInv

\* A job that does not move is not disturbed when its machine neither appears nor is asked for.
LEMMA Unmoved ==
  ASSUME ProvInv, NEW q \in Prov!Scopes, Busy(q), run'[q] = run[q],
         UNCHANGED <<plans, records, registry>>,
         Asking(q) => Prov!Cur(q) \notin pending' /\ \A v \in DOMAIN vms' : vms'[v] # Prov!Cur(q),
         \A x \in Prov!Scopes : Asking(x)' => Asking(x) /\ Prov!Cur(x)' = Prov!Cur(x),
         run[q].pc \in {"delete", "gone"} => run[q].mem.target \notin pending',
         run[q].pc = "gone" => \A v \in DOMAIN vms' : vms'[v] # run[q].mem.target,
         LET v == records[run[q].mem.target].vmid
         IN run[q].pc = "delete" /\ v \in DOMAIN vms' /\ vms'[v] = Prov!Foreign => q \in taken'
  PROVE  Allocating(q)' /\ Removing(q)'
<1>1. Allocating(q) /\ Removing(q) BY DEF ProvInv, Jobs
<1>2. Prov!Cur(q)' = Prov!Cur(q) BY DEF Prov!Cur
<1>3. Asking(q)' <=> Asking(q) BY DEF Asking
<1>4. Allocating(q)' BY <1>1, <1>2, <1>3 DEF Allocating, Present
<1>5. Removing(q)' BY <1>1 DEF Removing, Present
<1> QED BY <1>4, <1>5

\* What the other jobs know of their machines.
LEMMA Known ==
  ASSUME ProvInv, NEW q \in Prov!Scopes, Busy(q)
  PROVE  /\ Asking(q) => Prov!Cur(q) \in Machines /\ Prov!Cur(q) \notin pending /\ ~Present(Prov!Cur(q))
         /\ run[q].pc \in {"delete", "gone"} => run[q].mem.target \in Machines /\ run[q].mem.target \notin pending
         /\ run[q].pc = "gone" => ~Present(run[q].mem.target)
         /\ LET v == records[run[q].mem.target].vmid
            IN run[q].pc = "delete" /\ v \in DOMAIN vms /\ vms[v] = Prov!Foreign => q \in taken
<1>1. Executing(q) /\ Allocating(q) /\ Removing(q) BY DEF ProvInv, Jobs
<1>2. Asking(q) => Prov!Cur(q) \in Machines BY CurIsListed DEF Asking
<1>3. run[q].pc \in {"delete", "gone"} => run[q].mem.target \in Machines BY <1>1 DEF Executing, Removing, Aimed
<1> QED BY <1>1, <1>2, <1>3 DEF Allocating, Removing

\* A lost creation request takes effect.
LEMMA LateCreateKeeps ==
  ASSUME ProvInv, NEW m \in Machines, Prov!LateCreate(m)
  PROVE  ProvInv'
<1> DEFINE v == records[m].vmid
<1>1. /\ m \in pending /\ pending' = pending \ {m} /\ m # Prov!Foreign
      /\ UNCHANGED <<plans, records, registry, isos, taken, up, draft, starts, run, faults>>
  BY DEF Prov!LateCreate, Prov!durable, Prov!handlers, ProvInv, Stocked, Prov!Foreign
<1>2. Placed(m) /\ v \in Vmids
  <2>1. Placed(m) BY <1>1, AllPlaced
  <2> QED BY <2>1 DEF Placed, ProvInv, ProvShapes, Prov!Record
<1>3. \A w \in DOMAIN vms' : (w = v /\ vms'[w] = m) \/ (w \in DOMAIN vms /\ vms'[w] = vms[w])
  BY DEF Prov!LateCreate, Prov!Holding
<1> HIDE DEF v
<1>4. \A w \in DOMAIN vms' : /\ w \in Vmids
                             /\ vms'[w] = Prov!Foreign \/ (Placed(vms'[w]) /\ w = records[vms'[w]].vmid)
  BY <1>2, <1>3, AllPlaced DEF v
<1>5. \A c \in pending' : Placed(c) /\ ~Present(c)' BY <1>1, <1>3, AllPlaced DEF Present
<1>6. ASSUME NEW q \in Prov!Scopes, Busy(q) PROVE Allocating(q)' /\ Removing(q)'
  <2>1. /\ Asking(q) => Prov!Cur(q) \notin pending' /\ \A w \in DOMAIN vms' : vms'[w] # Prov!Cur(q)
        /\ run[q].pc \in {"delete", "gone"} => run[q].mem.target \notin pending'
        /\ run[q].pc = "gone" => \A w \in DOMAIN vms' : vms'[w] # run[q].mem.target
    BY <1>1, <1>3, <1>6, Known DEF Present
  <2>2. LET w == records[run[q].mem.target].vmid
        IN run[q].pc = "delete" /\ w \in DOMAIN vms' /\ vms'[w] = Prov!Foreign => q \in taken'
    BY <1>1, <1>3, <1>6, Known
  <2>3. \A x \in Prov!Scopes : Asking(x)' => Asking(x) /\ Prov!Cur(x)' = Prov!Cur(x)
    BY <1>1 DEF Asking, Prov!Cur
  <2> QED BY <1>1, <1>6, <2>1, <2>2, <2>3, Unmoved
<1>7. run' \in [Prov!Scopes -> Execution \cup {Prov!Idle}] /\ faults' \in 0..MaxFaults
  BY <1>1 DEF ProvInv, ProvShapes
<1>8. \A q \in Prov!Scopes : Busy(q)' => /\ Busy(q) /\ run'[q].plan = run[q].plan /\ run'[q].mem = run[q].mem
                                        /\ Allocating(q)' /\ Removing(q)'
  BY <1>1, <1>6 DEF Busy
<1> QED BY <1>1, <1>4, <1>5, <1>7, <1>8, WorldStep

\* An administrator removes a VM or takes a VMID.
LEMMA AdminKeeps ==
  ASSUME ProvInv, NEW v \in Vmids, Prov!AdminRemoves(v) \/ Prov!AdminTakes(v)
  PROVE  ProvInv'
<1>1. /\ UNCHANGED <<plans, records, registry, pending, isos, up, draft, starts, run>>
      /\ faults' \in 0..MaxFaults
  <2>1. Prov!Fault BY DEF Prov!AdminRemoves, Prov!AdminTakes
  <2>2. faults' \in 0..MaxFaults BY <2>1, ProvBudget
  <2> QED BY <2>2 DEF Prov!AdminRemoves, Prov!AdminTakes, Prov!durable, Prov!handlers
<1>2. /\ \A w \in DOMAIN vms' : \/ w = v /\ vms'[w] = Prov!Foreign /\ taken' = taken \cup Prov!Deleting(v)
                                \/ w \in DOMAIN vms /\ vms'[w] = vms[w]
      /\ taken \subseteq taken'
  BY DEF Prov!AdminRemoves, Prov!AdminTakes, Prov!Holding, Prov!Without
<1>3. \A m \in Machines : m # Prov!Foreign BY DEF ProvInv, Stocked, Prov!Foreign
<1>4. \A w \in DOMAIN vms' : /\ w \in Vmids
                             /\ vms'[w] = Prov!Foreign \/ (Placed(vms'[w]) /\ w = records[vms'[w]].vmid)
  BY <1>2, AllPlaced
<1>5. \A c \in pending' : Placed(c) /\ ~Present(c)' BY <1>1, <1>2, <1>3, AllPlaced DEF Present, Placed
<1>6. ASSUME NEW q \in Prov!Scopes, Busy(q) PROVE Allocating(q)' /\ Removing(q)'
  <2>1. /\ Asking(q) => Prov!Cur(q) \notin pending' /\ \A w \in DOMAIN vms' : vms'[w] # Prov!Cur(q)
        /\ run[q].pc \in {"delete", "gone"} => run[q].mem.target \notin pending'
        /\ run[q].pc = "gone" => \A w \in DOMAIN vms' : vms'[w] # run[q].mem.target
    BY <1>1, <1>2, <1>3, <1>6, Known DEF Present
  <2>2. LET w == records[run[q].mem.target].vmid
        IN run[q].pc = "delete" /\ w \in DOMAIN vms' /\ vms'[w] = Prov!Foreign => q \in taken'
    BY <1>2, <1>6, Known DEF Prov!Deleting, Prov!Job, Prov!Mem
  <2>3. \A x \in Prov!Scopes : Asking(x)' => Asking(x) /\ Prov!Cur(x)' = Prov!Cur(x)
    BY <1>1 DEF Asking, Prov!Cur
  <2> QED BY <1>1, <1>6, <2>1, <2>2, <2>3, Unmoved
<1>7. run' \in [Prov!Scopes -> Execution \cup {Prov!Idle}] BY <1>1 DEF ProvInv, ProvShapes
<1>8. \A q \in Prov!Scopes : Busy(q)' => /\ Busy(q) /\ run'[q].plan = run[q].plan /\ run'[q].mem = run[q].mem
                                        /\ Allocating(q)' /\ Removing(q)'
  BY <1>1, <1>6 DEF Busy
<1> QED BY <1>1, <1>4, <1>5, <1>7, <1>8, WorldStep

\* The VM is made, refused, or its request is lost (CreateMachine).
LEMMA CreateMachineKeeps ==
  ASSUME ProvInv, NEW s \in Prov!Scopes, Prov!CreateMachine(s)
  PROVE  ProvInv'
<1> DEFINE m == Prov!Cur(s)
           v == records[m].vmid
<1>1. Prov!Job(s, "create") BY DEF Prov!CreateMachine
<1>2. /\ Busy(s) /\ run[s].mem \in Prov!Plan /\ run[s].i \in Nat \ {0} /\ run[s].pc = "create"
      /\ Len(run[s].mem.machines) = run[s].i /\ Asking(s) /\ Executing(s) /\ Allocating(s)
  BY <1>1, JobAt DEF Allocating, Stages, Asking
<1>3. m \in Machines /\ m \notin pending /\ ~Present(m) /\ m # Prov!Foreign
  BY <1>2, Known DEF ProvInv, Stocked, Prov!Foreign
<1>4. Placed(m) /\ v \in Vmids
  <2>1. records[m] # Prov!NoRecord /\ records[m].plan = run[s].plan BY <1>2, CurIsListed
  <2>2. Placed(m) BY <1>2, <1>3, <2>1 DEF Placed, Allocating
  <2> QED BY <1>3, <2>1, <2>2 DEF ProvInv, ProvShapes, Prov!Record
<1>5. faults' \in 0..MaxFaults BY ProvBudget DEF Prov!CreateMachine
<1>6. UNCHANGED <<plans, records, registry, isos, taken, up, draft, starts>>
  BY DEF Prov!CreateMachine, Prov!durable, Prov!handlers
<1>7. CASE UNCHANGED <<vms, pending>> /\ \E e \in {"failed", "uncertain"} : Prov!Fails(s, e)
  BY <1>2, <1>5, <1>6, <1>7, Failed
<1>8. CASE \/ vms' = Prov!Holding(v, m) /\ Prov!Goto(s, "verify") /\ UNCHANGED pending
           \/ Prov!Fails(s, "uncertain") /\ pending' = pending \cup {m} /\ UNCHANGED vms
  <2>1. \E r, x : x \in {"verify", "end"} /\ Becomes(s, r, x, run[s].mem, run[s].i)
    BY <1>2, <1>8, Ways DEF Stages
  <2>2. PICK x \in {"verify", "end"} : \E r : Becomes(s, r, x, run[s].mem, run[s].i) BY <2>1
  <2>3. /\ run'[s].pc = x /\ run'[s].mem = run[s].mem /\ run'[s].i = run[s].i /\ run'[s].plan = run[s].plan
        /\ \A q \in Prov!Scopes : q # s => run'[q] = run[q]
        /\ run' \in [Prov!Scopes -> Execution \cup {Prov!Idle}]
    BY <2>2 DEF Becomes, ProvInv, ProvShapes
  <2>4. /\ \A w \in DOMAIN vms' : (w = v /\ vms'[w] = m) \/ (w \in DOMAIN vms /\ vms'[w] = vms[w])
        /\ pending' \subseteq pending \cup {m}
        /\ \A c \in pending' : ~Present(c)'
    BY <1>3, <1>8, AllPlaced DEF Prov!Holding, Present
  <2> HIDE DEF v
  <2>5. \A w \in DOMAIN vms' : /\ w \in Vmids
                               /\ vms'[w] = Prov!Foreign \/ (Placed(vms'[w]) /\ w = records[vms'[w]].vmid)
    BY <1>4, <2>4, AllPlaced DEF v
  <2>6. \A c \in pending' : Placed(c) /\ ~Present(c)' BY <1>4, <2>4, AllPlaced
  <2> HIDE DEF m
  <2>7. \A y \in Prov!Scopes : Asking(y)' => y # s /\ Asking(y) /\ Prov!Cur(y)' = Prov!Cur(y)
    BY <2>3 DEF Asking, Prov!Cur
  <2>8. ASSUME NEW q \in Prov!Scopes, q # s, Busy(q) PROVE Allocating(q)' /\ Removing(q)'
    <3>1. Asking(q) => Prov!Cur(q) # m
      <4> SUFFICES ASSUME Asking(q) PROVE Prov!Cur(q) # m OBVIOUS
      <4>1. Prov!Cur(q) \in Prov!ToSet(run[q].mem.machines) /\ m \in Prov!ToSet(run[s].mem.machines)
        BY <1>2, <2>8, CurIsListed DEF Asking, m
      <4> QED BY <1>2, <2>8, <4>1, OwnMachines
    <3>2. run[q].pc \in {"delete", "gone"} => run[q].mem.target # m BY <1>2, NotRemoved DEF m
    <3>3. /\ Asking(q) => Prov!Cur(q) \notin pending' /\ \A w \in DOMAIN vms' : vms'[w] # Prov!Cur(q)
          /\ run[q].pc \in {"delete", "gone"} => run[q].mem.target \notin pending'
          /\ run[q].pc = "gone" => \A w \in DOMAIN vms' : vms'[w] # run[q].mem.target
      BY <2>4, <2>8, <3>1, <3>2, Known DEF Present
    <3>4. LET w == records[run[q].mem.target].vmid
          IN run[q].pc = "delete" /\ w \in DOMAIN vms' /\ vms'[w] = Prov!Foreign => q \in taken'
      BY <1>3, <1>6, <2>4, <2>8, Known DEF m
    <3> QED BY <1>6, <2>3, <2>7, <2>8, <3>3, <3>4, Unmoved
  <2>9. Allocating(s)' BY <1>2, <2>3 DEF Allocating, Asking
  <2>10. Removing(s)' BY <2>3 DEF Removing
  <2>11. \A q \in Prov!Scopes : Busy(q)' => /\ Busy(q) /\ run'[q].plan = run[q].plan /\ run'[q].mem = run[q].mem
                                           /\ Allocating(q)' /\ Removing(q)'
    BY <1>2, <2>3, <2>8, <2>9, <2>10 DEF Busy
  <2> QED BY <1>5, <1>6, <2>3, <2>5, <2>6, <2>11, WorldStep
<1> QED BY <1>7, <1>8 DEF Prov!CreateMachine

\* Whatever holds the VMID is destroyed (DeleteOwned).
LEMMA DeleteOwnedKeeps ==
  ASSUME ProvInv, NEW s \in Prov!Scopes, Prov!DeleteOwned(s)
  PROVE  ProvInv'
<1> DEFINE t == run[s].mem.target
           v == records[t].vmid
<1>1. Prov!Job(s, "delete") BY DEF Prov!DeleteOwned
<1>2. Busy(s) /\ run[s].mem \in Prov!Plan /\ run[s].i \in Nat \ {0} /\ run[s].pc = "delete" /\ Removing(s)
  BY <1>1, JobAt DEF Stages
<1>3. t \in Machines /\ t \notin pending /\ t # Prov!Foreign BY <1>2, Known DEF ProvInv, Stocked, Prov!Foreign
<1>4. faults' \in 0..MaxFaults BY ProvBudget DEF Prov!DeleteOwned
<1>5. UNCHANGED <<plans, records, registry, pending, isos, taken, up, draft, starts>>
  BY DEF Prov!DeleteOwned, Prov!durable, Prov!handlers
<1>6. CASE UNCHANGED vms /\ Prov!Fails(s, "uncertain") BY <1>2, <1>4, <1>5, <1>6, Failed
<1>7. CASE vms' = Prov!Without(v) /\ (Prov!Goto(s, "gone") \/ Prov!Fails(s, "uncertain"))
  <2>1. \E r, x : x \in {"gone", "end"} /\ Becomes(s, r, x, run[s].mem, run[s].i)
    BY <1>2, <1>7, Ways DEF Stages
  <2>2. PICK x \in {"gone", "end"} : \E r : Becomes(s, r, x, run[s].mem, run[s].i) BY <2>1
  <2>3. /\ run'[s].pc = x /\ run'[s].mem = run[s].mem /\ run'[s].i = run[s].i /\ run'[s].plan = run[s].plan
        /\ \A q \in Prov!Scopes : q # s => run'[q] = run[q]
        /\ run' \in [Prov!Scopes -> Execution \cup {Prov!Idle}]
    BY <2>2 DEF Becomes, ProvInv, ProvShapes
  <2>4. \A w \in DOMAIN vms' : w # v /\ w \in DOMAIN vms /\ vms'[w] = vms[w] BY <1>7 DEF Prov!Without
  <2>5. \A w \in DOMAIN vms' : /\ w \in Vmids
                               /\ vms'[w] = Prov!Foreign \/ (Placed(vms'[w]) /\ w = records[vms'[w]].vmid)
    BY <2>4, AllPlaced
  <2>6. \A c \in pending' : Placed(c) /\ ~Present(c)' BY <1>5, <2>4, AllPlaced DEF Present
  <2>7. \A y \in Prov!Scopes : Asking(y)' => y # s /\ Asking(y) /\ Prov!Cur(y)' = Prov!Cur(y)
    BY <2>3 DEF Asking, Prov!Cur
  <2>8. ASSUME NEW q \in Prov!Scopes, q # s, Busy(q) PROVE Allocating(q)' /\ Removing(q)'
    <3>1. /\ Asking(q) => Prov!Cur(q) \notin pending' /\ \A w \in DOMAIN vms' : vms'[w] # Prov!Cur(q)
          /\ run[q].pc \in {"delete", "gone"} => run[q].mem.target \notin pending'
          /\ run[q].pc = "gone" => \A w \in DOMAIN vms' : vms'[w] # run[q].mem.target
      BY <1>5, <2>4, <2>8, Known DEF Present
    <3>2. LET w == records[run[q].mem.target].vmid
          IN run[q].pc = "delete" /\ w \in DOMAIN vms' /\ vms'[w] = Prov!Foreign => q \in taken'
      BY <1>5, <2>4, <2>8, Known
    <3> QED BY <1>5, <2>3, <2>7, <2>8, <3>1, <3>2, Unmoved
  <2>9. Allocating(s)' BY <2>3 DEF Allocating, Asking
  <2>10. \A w \in DOMAIN vms' : vms'[w] # t BY <1>3, <2>4, AllPlaced
  <2>11. \A q \in Prov!Scopes : Asking(q) => Prov!Cur(q) # t BY <1>2 DEF Removing
  <2> HIDE DEF t
  <2>12. Removing(s)' BY <1>2, <1>3, <1>5, <2>3, <2>7, <2>10, <2>11 DEF Removing, Present, t
  <2>13. \A q \in Prov!Scopes : Busy(q)' => /\ Busy(q) /\ run'[q].plan = run[q].plan /\ run'[q].mem = run[q].mem
                                           /\ Allocating(q)' /\ Removing(q)'
    BY <1>2, <2>3, <2>8, <2>9, <2>12 DEF Busy
  <2> QED BY <1>4, <1>5, <2>3, <2>5, <2>6, <2>13, WorldStep
<1> QED BY <1>6, <1>7 DEF Prov!DeleteOwned, Prov!Mem

-----------------------------------------------------------------------------
\* A job that a step on the plans leaves alone.
LEMMA Bystander ==
  ASSUME ProvInv, NEW q \in Prov!Scopes, Busy(q), run'[q] = run[q], up' = up,
         plans'[run[q].plan] = plans[run[q].plan],
         \A c \in Plans : plans[c].status \in {"failed", "interrupted"}
                          => plans'[c].status \in {"failed", "interrupted"},
         UNCHANGED <<records, registry, vms, pending, taken>>,
         \A y \in Prov!Scopes : Asking(y)' => Asking(y) /\ Prov!Cur(y)' = Prov!Cur(y)
  PROVE  Executing(q)' /\ Allocating(q)' /\ Removing(q)'
<1>1. Executing(q) /\ Allocating(q) /\ Removing(q) BY DEF ProvInv, Jobs
<1>2. Executing(q)' BY <1>1 DEF Executing
<1>3. Allocating(q)'
  <2>1. Prov!Cur(q)' = Prov!Cur(q) /\ Asking(q)' = Asking(q) BY DEF Prov!Cur, Asking
  <2>2. Present(Prov!Cur(q))' = Present(Prov!Cur(q)) BY <2>1 DEF Present
  <2> QED BY <1>1, <2>1, <2>2 DEF Allocating
<1>4. Removing(q)'
  <2> DEFINE t == run[q].mem.target
             gone == run[q].pc \in {"stop", "recheck", "delete", "gone"}
  <2>1. gone => t \in Machines /\ records[t] # Prov!NoRecord /\ records[t].plan \in Plans
    BY <1>1 DEF Removing, Executing, Aimed, ProvInv, ProvShapes, Prov!Record
  <2>2. gone /\ run[q].mem.kind = "machine-cleanup" => plans'[records[t].plan].status \in {"failed", "interrupted"}
    BY <1>1, <2>1 DEF Removing
  <2>3. run[q].pc = "gone" => ~Present(t)' BY <1>1 DEF Removing, Present
  <2>4. run[q].pc \in {"delete", "gone"} => \A y \in Prov!Scopes : Asking(y)' => Prov!Cur(y)' # t
    BY <1>1 DEF Removing
  <2> QED BY <1>1, <2>2, <2>3, <2>4 DEF Removing
<1> QED BY <1>2, <1>3, <1>4

\* A step that at most saves plan p as x, x keeping what p named and how it ended, and starts or
\* ends jobs: the jobs it leaves alone are of other plans.
LEMMA PlanStep ==
  ASSUME ProvInv, NEW p \in Plans, NEW x \in Prov!Plan,
         plans' \in {plans, [plans EXCEPT ![p] = x]},
         plans[p] # Prov!NoPlan =>
            /\ Prov!ToSet(plans[p].machines) \subseteq Prov!ToSet(x.machines)
            /\ plans[p].image = "named" => x.image = "named"
            /\ plans[p].imported => x.imported
            /\ plans[p].status \in {"failed", "interrupted"} => x.status \in {"failed", "interrupted"},
         UNCHANGED <<records, registry, vms, pending, isos, taken>>, faults' \in 0..MaxFaults,
         draft' \in {<<>>} \cup (Plans \X Prov!Plan), starts' \in [Plans -> Nat],
         run' \in [Prov!Scopes -> Execution \cup {Prov!Idle}], Untouched', Drafted',
         \A q \in Prov!Scopes : run'[q] # run[q] => ~Asking(q)',
         \A q \in Prov!Scopes : Busy(q)' =>
            \/ run'[q] = run[q] /\ up' = up /\ (plans' = plans \/ run[q].plan # p)
            \/ Executing(q)' /\ Allocating(q)' /\ Removing(q)'
  PROVE  ProvInv'
<1>1. /\ plans' \in [Plans -> Prov!Plan \cup {Prov!NoPlan}]
      /\ \A q \in Plans : plans'[q] = plans[q] \/ (q = p /\ plans'[q] = x)
  BY DEF ProvInv, ProvShapes
<1>2. \A q \in Plans : plans[q] # Prov!NoPlan => plans'[q] # Prov!NoPlan
  <2>1. x # Prov!NoPlan BY DEF Prov!Plan, Prov!NoPlan
  <2> QED BY <1>1, <2>1
<1>3. \A q \in Plans : plans[q] # Prov!NoPlan =>
         /\ Prov!ToSet(plans[q].machines) \subseteq Prov!ToSet(plans'[q].machines)
         /\ plans[q].image = "named" => plans'[q].image = "named"
         /\ plans[q].imported => plans'[q].imported
         /\ plans[q].status \in {"failed", "interrupted"} => plans'[q].status \in {"failed", "interrupted"}
  BY <1>1
<1>4. ProvShapes'
  <2> USE DEF ProvInv, ProvShapes
  <2>1. UNCHANGED <<records, registry, vms, pending, isos>> OBVIOUS
  <2> QED BY <1>1, <2>1
<1>5. ASSUME NEW q \in Prov!Scopes, Busy(q)' PROVE Executing(q)' /\ Allocating(q)' /\ Removing(q)'
  <2> SUFFICES ASSUME run'[q] = run[q], up' = up, plans' = plans \/ run[q].plan # p
               PROVE  Executing(q)' /\ Allocating(q)' /\ Removing(q)'
    BY <1>5
  <2>1. Busy(q) BY <1>5 DEF Busy
  <2>2. plans'[run[q].plan] = plans[run[q].plan]
    <3>1. run[q].plan \in Plans BY <2>1, ScopePlans
    <3> QED BY <1>1, <3>1
  <2>3. \A y \in Prov!Scopes : Asking(y)' => Asking(y) /\ Prov!Cur(y)' = Prov!Cur(y) BY DEF Asking, Prov!Cur
  <2>4. \A c \in Plans : plans[c].status \in {"failed", "interrupted"}
                           => plans'[c].status \in {"failed", "interrupted"}
    <3>1. \A c \in Plans : plans[c].status \in {"failed", "interrupted"} => plans[c] # Prov!NoPlan
      BY DEF Prov!NoPlan
    <3> QED BY <1>3, <3>1
  <2> QED BY <2>1, <2>2, <2>3, <2>4, Bystander
<1>6. Awaited' BY DEF ProvInv, Awaited, Present
<1>7. Registered' BY <1>2, <1>3 DEF ProvInv, ProvShapes, Registered
<1>8. Sourced'
  <2>1. \A m \in Machines : records[m] # Prov!NoRecord => records[m].plan \in Plans
    BY DEF ProvInv, ProvShapes, Prov!Record
  <2> QED BY <1>2, <2>1 DEF ProvInv, Sourced
<1>9. Prov!NothingOrphaned'
  <2>1. ASSUME NEW m \in Machines, records[m] # Prov!NoRecord, m \in Prov!ToSet(plans[records[m].plan].machines)
        PROVE  m \in Prov!ToSet(plans'[records[m].plan].machines)
    <3>1. records[m].plan \in Plans BY <2>1 DEF ProvInv, ProvShapes, Prov!Record
    <3>2. plans[records[m].plan] # Prov!NoPlan BY <2>1 DEF ProvInv, Sourced
    <3> QED BY <1>3, <2>1, <3>1, <3>2
  <2>2. \A q \in isos : plans'[q] # Prov!NoPlan /\ plans'[q].image = "named"
    BY <1>2, <1>3 DEF ProvInv, ProvShapes, Prov!NothingOrphaned
  <2> QED BY <2>1, <2>2 DEF ProvInv, Prov!NothingOrphaned
<1>10. Prov!DeletedIsGone' BY DEF ProvInv, Prov!DeletedIsGone
<1> QED BY <1>4, <1>5, <1>6, <1>7, <1>8, <1>9, <1>10 DEF ProvInv, Jobs

\* A step that touches only requests, the provider record or its removal, or the draft.
LEMMA AsideKeeps ==
  ASSUME ProvInv, UNCHANGED <<plans, records, registry, vms, pending, isos, taken, up, starts, run>>,
         faults' \in 0..MaxFaults, draft' \in {<<>>} \cup (Plans \X Prov!Plan), Drafted'
  PROVE  ProvInv'
<1>1. ProvShapes'
  <2> USE DEF ProvInv, ProvShapes
  <2> QED OBVIOUS
<1>2. Untouched' BY DEF ProvInv, Untouched
<1>3. ASSUME NEW q \in Prov!Scopes, Busy(q) PROVE Executing(q)' /\ Allocating(q)' /\ Removing(q)'
  <2>1. \A y \in Prov!Scopes : Asking(y)' = Asking(y) /\ Prov!Cur(y)' = Prov!Cur(y) BY DEF Asking, Prov!Cur
  <2> QED BY <1>3, <2>1, Bystander
<1>4. Awaited' /\ Registered' /\ Sourced' BY DEF ProvInv, Awaited, Registered, Sourced, Present
<1>5. Prov!NothingOrphaned' BY DEF ProvInv, Prov!NothingOrphaned
<1>6. Prov!DeletedIsGone' BY DEF ProvInv, Prov!DeletedIsGone
<1>7. \A q \in Prov!Scopes : Busy(q)' <=> Busy(q) BY DEF Busy
<1> QED BY <1>1, <1>2, <1>3, <1>4, <1>5, <1>6, <1>7 DEF ProvInv, Jobs

\* A plan is drafted under the next id (plan).
LEMMA PreparePlanKeeps ==
  ASSUME ProvInv, NEW p \in Prov!NewId, NEW s \in Prov!Scopes, NEW roles, NEW target, NEW image,
         NEW kind \in {"cluster-create", "worker-create", "worker-delete", "machine-cleanup"},
         roles \in {y.roles : y \in Specs} \cup {<<>>}, target \in Machines \cup {0},
         image \in {"manual", "profile"},
         Prov!PreparePlan(p, kind, s, roles, target, image)
  PROVE  ProvInv'
<1> DEFINE x == [kind |-> kind, scope |-> s, roles |-> roles, target |-> target,
                 status |-> "planned", machines |-> <<>>, image |-> image,
                 configs |-> FALSE, imported |-> FALSE, expired |-> FALSE]
<1>1. x \in Prov!Plan BY DEF Prov!Plan
<1>2. Aimed(x)
  <2>1. kind \in {"worker-delete", "machine-cleanup"} => roles = <<>>
    BY DEF Prov!PreparePlan, Prov!ValidateProvision
  <2> QED BY <2>1 DEF Aimed, Prov!PreparePlan
<1>3. draft' = <<p, x>> BY DEF Prov!PreparePlan
<1>4. p \in Plans /\ plans[p] = Prov!NoPlan BY DEF Prov!NewId
<1> HIDE DEF x
<1>5. draft' \in Plans \X Prov!Plan /\ draft'[1] = p /\ draft'[2] = x BY <1>1, <1>3, <1>4
<1>6. /\ UNCHANGED <<plans, records, registry, vms, pending, isos, taken, up, starts, run>>
      /\ faults' \in 0..MaxFaults
  BY DEF Prov!PreparePlan, Prov!durable, Prov!world, ProvInv, ProvShapes
<1>7. x.status = "planned" /\ x.machines = <<>> BY DEF x
<1>8. Drafted' BY <1>2, <1>4, <1>5, <1>6, <1>7 DEF Drafted
<1> QED BY <1>5, <1>6, <1>8, AsideKeeps

\* The drafted plan becomes durable; no job knows it yet (plan).
LEMMA SavePlanKeeps ==
  ASSUME ProvInv, Prov!SavePlan
  PROVE  ProvInv'
<1> DEFINE p == draft[1]
           x == draft[2]
<1>1. draft \in Plans \X Prov!Plan BY DEF ProvInv, ProvShapes, Prov!SavePlan
<1>2. p \in Plans /\ x \in Prov!Plan BY <1>1
<1>3. plans[p] = Prov!NoPlan /\ x.status = "planned" /\ x.machines = <<>> /\ Aimed(x)
  BY DEF ProvInv, Drafted, Prov!SavePlan
<1>4. plans' = [plans EXCEPT ![p] = x] /\ draft' = <<>> BY DEF Prov!SavePlan
<1>5. UNCHANGED <<records, registry, vms, pending, isos, taken, up, starts, run, faults>>
  BY DEF Prov!SavePlan, Prov!world
<1> HIDE DEF p, x
<1>6. Untouched'
  <2>1. plans[p].status = "none" BY <1>3 DEF Prov!NoPlan
  <2>2. starts[p] = 0 BY <1>2, <2>1 DEF ProvInv, Untouched
  <2>3. \A q \in Plans : plans'[q] = IF q = p THEN x ELSE plans[q] BY <1>4 DEF ProvInv, ProvShapes
  <2>4. ASSUME NEW q \in Plans
        PROVE  /\ starts[q] <= 1
               /\ plans'[q].status \in {"none", "planned"} => starts[q] = 0
               /\ plans'[q].status = "planned" => plans'[q].machines = <<>>
               /\ plans'[q] # Prov!NoPlan => Aimed(plans'[q])
    <3>1. CASE q = p BY <1>3, <2>2, <2>3, <3>1
    <3>2. CASE q # p BY <2>3, <3>2 DEF ProvInv, Untouched
    <3> QED BY <3>1, <3>2
  <2> QED BY <1>5, <2>4 DEF Untouched, Aimed
<1>7. Drafted' BY <1>4 DEF Drafted
<1>8. \A q \in Prov!Scopes : Busy(q)' => run'[q] = run[q] /\ up' = up /\ run[q].plan # p
  <2>1. ASSUME NEW q \in Prov!Scopes, Busy(q) PROVE run[q].plan # p
    BY <1>3, <2>1 DEF ProvInv, Jobs, Executing, Prov!NoPlan
  <2> QED BY <1>5, <2>1 DEF Busy
<1>9. /\ faults' \in 0..MaxFaults /\ starts' \in [Plans -> Nat]
      /\ run' \in [Prov!Scopes -> Execution \cup {Prov!Idle}]
  BY <1>5 DEF ProvInv, ProvShapes
<1>10. plans' \in {plans, [plans EXCEPT ![p] = x]} /\ draft' \in {<<>>} \cup (Plans \X Prov!Plan) BY <1>4
<1> QED BY <1>2, <1>3, <1>5, <1>6, <1>7, <1>8, <1>9, <1>10, PlanStep

\* A plan that nobody started expires.
LEMMA ExpirePlanKeeps ==
  ASSUME ProvInv, NEW p \in Plans, Prov!ExpirePlan(p)
  PROVE  ProvInv'
<1> DEFINE x == [plans[p] EXCEPT !.expired = TRUE]
<1>1. plans[p] \in Prov!Plan /\ plans[p].status = "planned"
  BY DEF Prov!ExpirePlan, ProvInv, ProvShapes, Prov!NoPlan
<1>2. /\ x \in Prov!Plan /\ x.status = plans[p].status /\ x.machines = plans[p].machines
      /\ x.image = plans[p].image /\ x.imported = plans[p].imported
      /\ x.kind = plans[p].kind /\ x.target = plans[p].target
  BY <1>1 DEF Prov!Plan
<1>3. plans' = [plans EXCEPT ![p] = x]
  <2>1. plans' = [plans EXCEPT ![p].expired = TRUE] BY DEF Prov!ExpirePlan
  <2> QED BY <2>1
<1> HIDE DEF x
<1>4. UNCHANGED <<records, registry, vms, pending, isos, taken, up, draft, starts, run>>
  BY DEF Prov!ExpirePlan, Prov!world, Prov!handlers
<1>5. \A q \in Plans : plans'[q] = IF q = p THEN x ELSE plans[q] BY <1>3 DEF ProvInv, ProvShapes
<1>6. Untouched'
  <2>1. ASSUME NEW q \in Plans
        PROVE  /\ starts[q] <= 1
               /\ plans'[q].status \in {"none", "planned"} => starts[q] = 0
               /\ plans'[q].status = "planned" => plans'[q].machines = <<>>
               /\ plans'[q] # Prov!NoPlan => Aimed(plans'[q])
    <3>1. CASE q = p
      <4>1. plans[p] # Prov!NoPlan BY <1>1 DEF Prov!NoPlan
      <4>2. Aimed(x) BY <1>2, <4>1 DEF ProvInv, Untouched, Aimed
      <4> QED BY <1>1, <1>2, <1>5, <3>1, <4>2 DEF ProvInv, Untouched
    <3>2. CASE q # p BY <1>5, <3>2 DEF ProvInv, Untouched
    <3> QED BY <3>1, <3>2
  <2> QED BY <1>4, <2>1 DEF Untouched, Aimed
<1>7. Drafted'
  <2>1. draft # <<>> => draft[1] \in Plans BY DEF ProvInv, ProvShapes
  <2>2. draft # <<>> => draft[1] # p BY <1>1 DEF ProvInv, Drafted, Prov!NoPlan
  <2> QED BY <1>4, <1>5, <2>1, <2>2 DEF ProvInv, Drafted, Aimed
<1>8. \A q \in Prov!Scopes : Busy(q)' => run'[q] = run[q] /\ up' = up /\ run[q].plan # p
  <2>1. ASSUME NEW q \in Prov!Scopes, Busy(q) PROVE run[q].plan # p
    BY <1>1, <2>1 DEF ProvInv, Jobs, Executing
  <2> QED BY <1>4, <2>1 DEF Busy
<1>9. faults' \in 0..MaxFaults BY ProvBudget DEF Prov!ExpirePlan
<1>10. /\ starts' \in [Plans -> Nat] /\ draft' \in {<<>>} \cup (Plans \X Prov!Plan)
       /\ run' \in [Prov!Scopes -> Execution \cup {Prov!Idle}]
  BY <1>4 DEF ProvInv, ProvShapes
<1> QED BY <1>1, <1>2, <1>3, <1>4, <1>6, <1>7, <1>8, <1>9, <1>10, PlanStep

\* A confirmation queues a job (Request, Submit).
LEMMA RequestKeeps ==
  ASSUME ProvInv, NEW p \in Plans, Prov!Request(p)
  PROVE  ProvInv'
<1>1. UNCHANGED <<plans, records, registry, vms, pending, isos, taken, up, draft, starts, run>>
  BY DEF Prov!Request, Prov!durable, Prov!world
<1>2. faults' \in 0..MaxFaults BY ProvBudget DEF Prov!Request
<1>3. Drafted' BY <1>1 DEF ProvInv, Drafted, Aimed
<1>4. draft' \in {<<>>} \cup (Plans \X Prov!Plan) BY <1>1 DEF ProvInv, ProvShapes
<1> QED BY <1>1, <1>2, <1>3, <1>4, AsideKeeps

\* The provider record itself is no part of the invariant.
LEMMA ProviderKeeps ==
  ASSUME ProvInv, Prov!SaveProvider \/ Prov!DeleteProvider
  PROVE  ProvInv'
<1>1. UNCHANGED <<plans, records, registry, vms, pending, isos, taken, up, draft, starts, run>>
  BY DEF Prov!SaveProvider, Prov!DeleteProvider, Prov!world, Prov!handlers
<1>2. faults' \in 0..MaxFaults
  <2>1. UNCHANGED faults \/ Prov!Fault \/ Prov!NoFault BY DEF Prov!SaveProvider, Prov!DeleteProvider
  <2> QED BY <2>1, ProvBudget DEF Prov!NoFault
<1>3. Drafted' BY <1>1 DEF ProvInv, Drafted, Aimed
<1>4. draft' \in {<<>>} \cup (Plans \X Prov!Plan) BY <1>1 DEF ProvInv, ProvShapes
<1> QED BY <1>1, <1>2, <1>3, <1>4, AsideKeeps

\* The job of a planned plan starts, on no machine (RunStart).
LEMMA RunStartKeeps ==
  ASSUME ProvInv, NEW s \in Prov!Scopes, NEW p \in Plans, Prov!RunStart(s, p)
  PROVE  ProvInv'
<1>1. UNCHANGED <<records, registry, vms, pending, isos, taken, up, draft>> /\ faults' \in 0..MaxFaults
  <2>1. Prov!Fault \/ Prov!NoFault BY DEF Prov!RunStart
  <2> QED BY <2>1, ProvBudget DEF Prov!RunStart, Prov!world
<1>2. CASE UNCHANGED <<plans, starts, run>>
  <2>1. Drafted' BY <1>1, <1>2 DEF ProvInv, Drafted, Aimed
  <2>2. draft' \in {<<>>} \cup (Plans \X Prov!Plan) BY <1>1 DEF ProvInv, ProvShapes
  <2> QED BY <1>1, <1>2, <2>1, <2>2, AsideKeeps
<1>3. CASE ~UNCHANGED <<plans, starts, run>>
  <2> DEFINE x == [plans[p] EXCEPT !.status = "running"]
             pc == CASE plans[p].kind = "worker-delete" -> "drain"
                     [] plans[p].kind = "machine-cleanup" -> "cleanup"
                     [] OTHER -> "image"
             r == [pc |-> pc, plan |-> p, mem |-> x, i |-> 1, err |-> "none"]
  <2>1. /\ plans[p].status = "planned" /\ plans[p].scope = s /\ up = "up" /\ ~Busy(s)
        /\ plans' = [plans EXCEPT ![p].status = "running"] /\ starts' = [starts EXCEPT ![p] = @ + 1]
        /\ run' = [run EXCEPT ![s] = [pc |-> pc, plan |-> p, mem |-> plans'[p], i |-> 1, err |-> "none"]]
    BY <1>3 DEF Prov!RunStart, Busy
  <2>2. plans[p] \in Prov!Plan /\ plans[p].machines = <<>> /\ starts[p] = 0 /\ Aimed(plans[p])
    <3>1. plans[p] # Prov!NoPlan BY <2>1 DEF Prov!NoPlan
    <3> QED BY <2>1, <3>1 DEF ProvInv, ProvShapes, Untouched
  <2>3. /\ x \in Prov!Plan /\ x.status = "running" /\ x.machines = <<>> /\ x.scope = s
        /\ x.image = plans[p].image /\ x.imported = plans[p].imported
        /\ x.kind = plans[p].kind /\ x.target = plans[p].target
    BY <2>1, <2>2 DEF Prov!Plan
  <2>4. plans' = [plans EXCEPT ![p] = x] BY <2>1
  <2>5. pc \in {"drain", "cleanup", "image"}
    /\ (pc = "drain" => x.kind = "worker-delete")
    /\ (pc = "cleanup" => x.kind = "machine-cleanup")
    BY <2>3
  <2> HIDE DEF x, pc
  <2>6. \A q \in Plans : plans'[q] = IF q = p THEN x ELSE plans[q] BY <2>4 DEF ProvInv, ProvShapes
  <2>7. run' = [run EXCEPT ![s] = r] BY <2>1, <2>6
  <2>8. r \in Execution BY <2>3, <2>5 DEF Execution, Stages
  <2>9. r.pc = pc /\ r.plan = p /\ r.mem = x /\ r.i = 1 OBVIOUS
  <2> HIDE DEF r
  <2>10. /\ run'[s] = r /\ \A q \in Prov!Scopes : q # s => run'[q] = run[q]
         /\ run' \in [Prov!Scopes -> Execution \cup {Prov!Idle}]
    BY <2>7, <2>8 DEF ProvInv, ProvShapes
  <2>11. /\ starts' \in [Plans -> Nat]
         /\ \A q \in Plans : starts'[q] = IF q = p THEN 1 ELSE starts[q]
    BY <2>1, <2>2 DEF ProvInv, ProvShapes
  <2>12. Untouched'
    <3>1. ASSUME NEW q \in Plans
          PROVE  /\ starts'[q] <= 1
                 /\ plans'[q].status \in {"none", "planned"} => starts'[q] = 0
                 /\ plans'[q].status = "planned" => plans'[q].machines = <<>>
                 /\ plans'[q] # Prov!NoPlan => Aimed(plans'[q])
      <4>1. CASE q = p
        <5>1. Aimed(x) BY <2>2, <2>3 DEF Aimed
        <5> QED BY <2>3, <2>6, <2>11, <4>1, <5>1
      <4>2. CASE q # p BY <2>6, <2>11, <4>2 DEF ProvInv, Untouched
      <4> QED BY <4>1, <4>2
    <3> QED BY <3>1 DEF Untouched, Aimed
  <2>13. Drafted'
    <3>1. draft # <<>> => draft[1] \in Plans BY DEF ProvInv, ProvShapes
    <3>2. draft # <<>> => draft[1] # p BY <2>1 DEF ProvInv, Drafted, Prov!NoPlan
    <3> QED BY <1>1, <2>6, <3>1, <3>2 DEF ProvInv, Drafted, Aimed
  <2>14. Executing(s)'
    <3>1. Extends(r.mem, plans'[p]) BY <2>6, <2>9 DEF Extends
    <3>2. Aimed(r.mem) BY <2>2, <2>3, <2>9 DEF Aimed
    <3>3. Prov!ToSet(r.mem.machines) = {}
      <4>1. r.mem.machines = <<>> BY <2>3, <2>9
      <4> QED BY <4>1 DEF Prov!ToSet
    <3> QED BY <1>1, <2>1, <2>3, <2>6, <2>9, <2>10, <3>1, <3>2, <3>3 DEF Executing, Aimed
  <2>15. Allocating(s)'
    <3>1. Len(r.mem.machines) = 0 BY <2>3, <2>9
    <3> QED BY <2>5, <2>9, <2>10, <3>1 DEF Allocating, Asking
  <2>16. Removing(s)' BY <2>5, <2>9, <2>10 DEF Removing
  <2>17. ASSUME NEW q \in Prov!Scopes, Busy(q)', q # s PROVE run'[q] = run[q] /\ up' = up /\ run[q].plan # p
    <3>1. run'[q] = run[q] /\ Busy(q) BY <2>10, <2>17 DEF Busy
    <3> QED BY <1>1, <2>1, <3>1 DEF ProvInv, Jobs, Executing
  <2>18. \A q \in Prov!Scopes : run'[q] # run[q] => ~Asking(q)' BY <2>5, <2>9, <2>10 DEF Asking
  <2>19. draft' \in {<<>>} \cup (Plans \X Prov!Plan) BY <1>1 DEF ProvInv, ProvShapes
  <2>20. /\ Prov!ToSet(plans[p].machines) \subseteq Prov!ToSet(x.machines)
         /\ plans[p].image = "named" => x.image = "named"
         /\ plans[p].imported => x.imported
         /\ plans[p].status \in {"failed", "interrupted"} => x.status \in {"failed", "interrupted"}
    BY <2>1, <2>2, <2>3
  <2>21. plans' \in {plans, [plans EXCEPT ![p] = x]} BY <2>4
  <2> QED BY <1>1, <2>3, <2>10, <2>11, <2>12, <2>13, <2>14, <2>15, <2>16, <2>17, <2>18, <2>19,
             <2>20, <2>21, PlanStep
<1> QED BY <1>2, <1>3

\* The outcome is saved, or the save fails and the plan still reads running (RunEnd).
LEMMA RunEndKeeps ==
  ASSUME ProvInv, NEW s \in Prov!Scopes, Prov!RunEnd(s)
  PROVE  ProvInv'
<1> DEFINE p == run[s].plan
           status == CASE run[s].err = "none" -> "succeeded"
                       [] run[s].err = "failed" -> "failed"
                       [] run[s].err = "uncertain" -> "interrupted"
           x == [run[s].mem EXCEPT !.status = status]
<1>1. Prov!Job(s, "end") BY DEF Prov!RunEnd
<1>2. Busy(s) /\ run[s].mem \in Prov!Plan /\ p \in Plans /\ plans[p] \in Prov!Plan /\ Executing(s)
      /\ run[s] \in Execution
  BY <1>1, JobAt DEF Stages
<1>3. status \in {"succeeded", "failed", "interrupted"}
  <2>1. run[s].err \in {"none", "failed", "uncertain"} BY <1>2 DEF Execution
  <2> QED BY <2>1
<1>4. plans' \in {plans, [plans EXCEPT ![p] = x]} BY DEF Prov!RunEnd, Prov!Mem
<1>5. run' = [run EXCEPT ![s] = Prov!Idle] BY DEF Prov!RunEnd
<1> HIDE DEF status
<1>6. /\ x \in Prov!Plan /\ x.status = status /\ x.machines = run[s].mem.machines
      /\ x.image = run[s].mem.image /\ x.imported = run[s].mem.imported
      /\ x.kind = run[s].mem.kind /\ x.target = run[s].mem.target
  BY <1>2, <1>3 DEF Prov!Plan
<1> HIDE DEF x
<1>7. UNCHANGED <<records, registry, vms, pending, isos, taken, up, draft, starts>> /\ faults' \in 0..MaxFaults
  <2>1. Prov!Fault \/ Prov!NoFault BY DEF Prov!RunEnd
  <2> QED BY <2>1, ProvBudget DEF Prov!RunEnd, Prov!world, Prov!handlers
<1>8. plans[p].status = "running" /\ Extends(run[s].mem, plans[p]) /\ Aimed(run[s].mem)
  BY <1>2 DEF Executing
<1>9. /\ Prov!ToSet(plans[p].machines) \subseteq Prov!ToSet(x.machines)
      /\ plans[p].image = "named" => x.image = "named"
      /\ plans[p].imported => x.imported
      /\ plans[p].status \in {"failed", "interrupted"} => x.status \in {"failed", "interrupted"}
  BY <1>6, <1>8 DEF Extends
<1>10. \A q \in Plans : plans'[q] = plans[q] \/ (q = p /\ plans'[q] = x)
  BY <1>4 DEF ProvInv, ProvShapes
<1>11. Untouched'
  <2>1. ASSUME NEW q \in Plans
        PROVE  /\ starts[q] <= 1
               /\ plans'[q].status \in {"none", "planned"} => starts[q] = 0
               /\ plans'[q].status = "planned" => plans'[q].machines = <<>>
               /\ plans'[q] # Prov!NoPlan => Aimed(plans'[q])
    <3>1. CASE plans'[q] = plans[q] BY <3>1 DEF ProvInv, Untouched
    <3>2. CASE q = p /\ plans'[q] = x
      <4>1. Aimed(x) BY <1>6, <1>8 DEF Aimed
      <4> QED BY <1>3, <1>6, <3>2, <4>1 DEF ProvInv, Untouched
    <3> QED BY <1>10, <3>1, <3>2
  <2> QED BY <1>7, <2>1 DEF Untouched, Aimed
<1>12. Drafted'
  <2>1. draft # <<>> => draft[1] \in Plans BY DEF ProvInv, ProvShapes
  <2>2. draft # <<>> => draft[1] # p BY <1>8 DEF ProvInv, Drafted, Prov!NoPlan
  <2> QED BY <1>7, <1>10, <2>1, <2>2 DEF ProvInv, Drafted, Aimed
<1>13. /\ run'[s] = Prov!Idle /\ \A q \in Prov!Scopes : q # s => run'[q] = run[q]
       /\ run' \in [Prov!Scopes -> Execution \cup {Prov!Idle}]
  BY <1>5 DEF ProvInv, ProvShapes
<1>14. ASSUME NEW q \in Prov!Scopes, Busy(q)' PROVE run'[q] = run[q] /\ up' = up /\ run[q].plan # p
  <2>1. q # s /\ run'[q] = run[q] /\ Busy(q) BY <1>13, <1>14 DEF Busy
  <2> QED BY <1>2, <1>7, <2>1, OnePlanEach
<1>15. \A q \in Prov!Scopes : run'[q] # run[q] => ~Asking(q)' BY <1>13 DEF Asking, Prov!Idle
<1>16. starts' \in [Plans -> Nat] /\ draft' \in {<<>>} \cup (Plans \X Prov!Plan) BY <1>7 DEF ProvInv, ProvShapes
<1> HIDE DEF p
<1> QED BY <1>2, <1>4, <1>6, <1>7, <1>9, <1>11, <1>12, <1>13, <1>14, <1>15, <1>16, PlanStep

\* Jobs and drafts are gone, the durable records and the VMs are as they were (Crash).
LEMMA CrashKeeps ==
  ASSUME ProvInv, Prov!Crash
  PROVE  ProvInv'
<1>1. /\ UNCHANGED <<plans, records, registry, vms, pending, isos, taken, starts>>
      /\ draft' = <<>> /\ run' = [q \in Prov!Scopes |-> Prov!Idle] /\ faults' \in 0..MaxFaults
  BY ProvBudget DEF Prov!Crash, Prov!durable, Prov!world
<1>2. ProvShapes'
  <2> USE DEF ProvInv, ProvShapes
  <2> QED BY <1>1
<1>3. Untouched' /\ Drafted' BY <1>1 DEF ProvInv, Untouched, Drafted
<1>4. Jobs' BY <1>1 DEF Jobs, Busy
<1>5. Awaited' /\ Registered' /\ Sourced' BY <1>1 DEF ProvInv, Awaited, Registered, Sourced, Present
<1>6. Prov!NothingOrphaned' BY <1>1 DEF ProvInv, Prov!NothingOrphaned
<1>7. Prov!DeletedIsGone' BY <1>1 DEF ProvInv, Prov!DeletedIsGone
<1> QED BY <1>2, <1>3, <1>4, <1>5, <1>6, <1>7 DEF ProvInv

\* The plans that read running at start become interrupted, one after the other.
LEMMA RestartKeeps ==
  ASSUME ProvInv, Prov!Restart
  PROVE  ProvInv'
<1>1. /\ UNCHANGED <<records, registry, vms, pending, isos, taken, draft, starts, run, faults>>
      /\ up # "up" /\ \A q \in Prov!Scopes : ~Busy(q) /\ run'[q] = run[q]
  <2>1. up # "up" BY DEF Prov!Restart, Prov!ReconcileInterrupted
  <2>2. \A q \in Prov!Scopes : ~Busy(q) BY <2>1 DEF ProvInv, Jobs, Executing
  <2> QED BY <2>1, <2>2 DEF Prov!Restart, Prov!world
<1>2. \/ UNCHANGED plans
      \/ \E p \in Plans : plans[p].status = "running" /\ plans' = [plans EXCEPT ![p].status = "interrupted"]
  <2> DEFINE left == {p \in Plans : plans[p].status = "running"}
  <2>1. \/ UNCHANGED plans
        \/ left # {} /\ plans' = [plans EXCEPT ![Prov!Min(left)].status = "interrupted"]
    BY DEF Prov!Restart, Prov!ReconcileInterrupted
  <2>2. left # {} => Prov!Min(left) \in left BY Least DEF ProvInv, Stocked
  <2> HIDE DEF left
  <2>3. PICK m : m = Prov!Min(left) OBVIOUS
  <2>4. left # {} => m \in Plans /\ plans[m].status = "running" BY <2>2, <2>3 DEF left
  <2> QED BY <2>1, <2>3, <2>4
<1>3. CASE UNCHANGED plans
  <2>1. ProvShapes'
    <3> USE DEF ProvInv, ProvShapes
    <3> QED BY <1>1, <1>3
  <2>2. Untouched' /\ Drafted' BY <1>1, <1>3 DEF ProvInv, Untouched, Drafted, Aimed
  <2>3. Jobs' BY <1>1 DEF Jobs, Busy
  <2>4. Awaited' /\ Registered' /\ Sourced' BY <1>1, <1>3 DEF ProvInv, Awaited, Registered, Sourced, Present
  <2>5. Prov!NothingOrphaned' BY <1>1, <1>3 DEF ProvInv, Prov!NothingOrphaned
  <2>6. Prov!DeletedIsGone' BY <1>1 DEF ProvInv, Prov!DeletedIsGone
  <2> QED BY <2>1, <2>2, <2>3, <2>4, <2>5, <2>6 DEF ProvInv
<1>4. ASSUME NEW p \in Plans, plans[p].status = "running",
             plans' = [plans EXCEPT ![p].status = "interrupted"]
      PROVE  ProvInv'
  <2> DEFINE x == [plans[p] EXCEPT !.status = "interrupted"]
  <2>1. plans[p] \in Prov!Plan /\ plans[p] # Prov!NoPlan BY <1>4 DEF ProvInv, ProvShapes, Prov!NoPlan
  <2>2. /\ x \in Prov!Plan /\ x.status = "interrupted" /\ x.machines = plans[p].machines
        /\ x.image = plans[p].image /\ x.imported = plans[p].imported
        /\ x.kind = plans[p].kind /\ x.target = plans[p].target
    BY <2>1 DEF Prov!Plan
  <2>3. plans' = [plans EXCEPT ![p] = x] BY <1>4
  <2> HIDE DEF x
  <2>4. \A q \in Plans : plans'[q] = IF q = p THEN x ELSE plans[q] BY <2>3 DEF ProvInv, ProvShapes
  <2>5. Untouched'
    <3>1. ASSUME NEW q \in Plans
          PROVE  /\ starts[q] <= 1
                 /\ plans'[q].status \in {"none", "planned"} => starts[q] = 0
                 /\ plans'[q].status = "planned" => plans'[q].machines = <<>>
                 /\ plans'[q] # Prov!NoPlan => Aimed(plans'[q])
      <4>1. CASE q = p
        <5>1. Aimed(x) BY <2>1, <2>2 DEF ProvInv, Untouched, Aimed
        <5> QED BY <2>2, <2>4, <4>1, <5>1 DEF ProvInv, Untouched
      <4>2. CASE q # p BY <2>4, <4>2 DEF ProvInv, Untouched
      <4> QED BY <4>1, <4>2
    <3> QED BY <1>1, <3>1 DEF Untouched, Aimed
  <2>6. Drafted'
    <3>1. draft # <<>> => draft[1] \in Plans BY DEF ProvInv, ProvShapes
    <3>2. draft # <<>> => draft[1] # p BY <2>1 DEF ProvInv, Drafted
    <3> QED BY <1>1, <2>4, <3>1, <3>2 DEF ProvInv, Drafted, Aimed
  <2>7. /\ faults' \in 0..MaxFaults /\ starts' \in [Plans -> Nat] /\ draft' \in {<<>>} \cup (Plans \X Prov!Plan)
        /\ run' \in [Prov!Scopes -> Execution \cup {Prov!Idle}]
    BY <1>1 DEF ProvInv, ProvShapes
  <2>8. \A q \in Prov!Scopes : ~Busy(q)' BY <1>1 DEF Busy
  <2>9. plans' \in {plans, [plans EXCEPT ![p] = x]} BY <2>3
  <2> QED BY <1>1, <1>4, <2>2, <2>5, <2>6, <2>7, <2>8, <2>9, PlanStep
<1> QED BY <1>2, <1>3, <1>4

-----------------------------------------------------------------------------
\* The invariant holds at the start, and every step keeps it.
LEMMA ProvInit == ASSUME Stocked, Prov!Init PROVE ProvInv
<1> USE DEF Prov!Init
<1>1. ProvShapes
  <2>1. plans \in [Plans -> Prov!Plan \cup {Prov!NoPlan}] /\ \A p \in Plans : plans[p] = Prov!NoPlan OBVIOUS
  <2>2. records \in [Machines -> Prov!Record \cup {Prov!NoRecord}] OBVIOUS
  <2>3. DOMAIN vms = {} OBVIOUS
  <2>4. starts \in [Plans -> Nat] /\ faults \in 0..MaxFaults BY DEF Stocked
  <2>5. run \in [Prov!Scopes -> Execution \cup {Prov!Idle}] OBVIOUS
  <2> QED BY <2>1, <2>2, <2>3, <2>4, <2>5 DEF ProvShapes
<1>2. Untouched /\ Drafted BY DEF Untouched, Drafted, Prov!NoPlan
<1>3. Jobs BY DEF Jobs, Busy
<1>4. DOMAIN vms = {} OBVIOUS
<1>5. Awaited /\ Registered /\ Sourced BY DEF Awaited, Registered, Sourced
<1>6. Prov!NothingOrphaned /\ Prov!DeletedIsGone
  BY <1>4 DEF Prov!NothingOrphaned, Prov!DeletedIsGone, Prov!NoRecord
<1> QED BY <1>1, <1>2, <1>3, <1>5, <1>6 DEF ProvInv

\* Every step keeps it.
LEMMA ProvNext == ASSUME ProvInv, [Prov!Next]_(Prov!vars) PROVE ProvInv'
<1>1. CASE UNCHANGED Prov!vars
  <2>1. UNCHANGED <<plans, records, registry, vms, pending, isos, taken, up, draft, starts, run, faults>>
    BY <1>1 DEF Prov!vars, Prov!durable, Prov!world, Prov!handlers
  <2>2. Drafted' BY <2>1 DEF ProvInv, Drafted, Aimed
  <2>3. draft' \in {<<>>} \cup (Plans \X Prov!Plan) /\ faults' \in 0..MaxFaults
    BY <2>1 DEF ProvInv, ProvShapes
  <2> QED BY <2>1, <2>2, <2>3, AsideKeeps
<1>2. ASSUME NEW p \in Prov!NewId, NEW s \in Prov!Scopes, NEW x \in Specs,
             NEW kind \in {"cluster-create", "worker-create"},
             Prov!PreparePlan(p, kind, s, x.roles, 0, x.image)
      PROVE  ProvInv'
  <2>1. x.image \in {"manual", "profile"} BY DEF ProvInv, Stocked
  <2> QED BY <1>2, <2>1, PreparePlanKeeps
<1>3. ASSUME NEW p \in Prov!NewId, NEW s \in Prov!Scopes, NEW m \in Machines,
             NEW kind \in {"worker-delete", "machine-cleanup"},
             Prov!PreparePlan(p, kind, s, <<>>, m, "manual")
      PROVE  ProvInv'
  BY <1>3, PreparePlanKeeps
<1>4. CASE Prov!SavePlan \/ Prov!SaveProvider \/ Prov!DeleteProvider \/ Prov!Crash \/ Prov!Restart
  BY <1>4, SavePlanKeeps, ProviderKeeps, CrashKeeps, RestartKeeps
<1>5. CASE \/ \E p \in Plans : Prov!ExpirePlan(p) \/ Prov!Request(p)
           \/ \E v \in Vmids : Prov!AdminRemoves(v) \/ Prov!AdminTakes(v)
           \/ \E m \in Machines : Prov!LateCreate(m)
           \/ \E s \in Prov!Scopes, p \in Plans : Prov!RunStart(s, p)
  BY <1>5, ExpirePlanKeeps, RequestKeeps, AdminKeeps, LateCreateKeeps, RunStartKeeps
<1>6. ASSUME NEW s \in Prov!Scopes,
             \/ Prov!PrepareImage(s) \/ Prov!DownloadISO(s) \/ Prov!Reserve(s) \/ Prov!ListMachine(s)
             \/ Prov!CreateMachine(s) \/ Prov!VerifyCreated(s) \/ Prov!StartOwned(s) \/ Prov!Allocated(s)
             \/ Prov!MachineAddress(s) \/ Prov!GenerateConfigs(s) \/ Prov!ApplyConfig(s) \/ Prov!Join(s)
      PROVE  ProvInv'
  BY <1>6, PrepareImageKeeps, DownloadISOKeeps, ReserveKeeps, ListMachineKeeps, CreateMachineKeeps,
     VerifyCreatedKeeps, StartOwnedKeeps, AllocatedKeeps, MachineAddressKeeps, GenerateConfigsKeeps,
     ApplyConfigKeeps, JoinKeeps
<1>7. ASSUME NEW s \in Prov!Scopes,
             \/ Prov!ImportStarted(s) \/ Prov!RegisterCluster(s) \/ Prov!AdoptMachine(s) \/ Prov!Complete(s)
             \/ Prov!DrainWorker(s) \/ Prov!CleanupMachine(s) \/ Prov!StopOwned(s) \/ Prov!Recheck(s)
             \/ Prov!DeleteOwned(s) \/ Prov!RecordDeleted(s) \/ Prov!RunEnd(s)
      PROVE  ProvInv'
  BY <1>7, ImportStartedKeeps, RegisterClusterKeeps, AdoptMachineKeeps, CompleteKeeps, DrainWorkerKeeps,
     CleanupMachineKeeps, StopOwnedKeeps, RecheckKeeps, DeleteOwnedKeeps, RecordDeletedKeeps, RunEndKeeps
<1> QED BY <1>1, <1>2, <1>3, <1>4, <1>5, <1>6, <1>7 DEF Prov!Next

\* What the invariant says of the properties.
LEMMA ProvPromises ==
  ASSUME ProvInv
  PROVE  Prov!TypeOK /\ Prov!ExecutedOnce /\ Prov!NothingOrphaned /\ Prov!DeletedIsGone
<1>1. Prov!TypeOK BY DEF ProvInv, ProvShapes, Prov!TypeOK
<1>2. Prov!ExecutedOnce BY DEF ProvInv, Untouched, Prov!ExecutedOnce
<1> QED BY <1>1, <1>2 DEF ProvInv

\* A job that is about to delete cleans up after no registered cluster.
LEMMA CleanupSpares == ASSUME ProvInv PROVE Prov!CleanupSparesClusters
<1> SUFFICES ASSUME NEW s \in Prov!Scopes, run[s].pc = "delete", run[s].mem.kind = "machine-cleanup"
             PROVE  records[run[s].mem.target].plan \notin registry
  BY DEF Prov!CleanupSparesClusters
<1>1. Busy(s) BY DEF Busy, Prov!Idle
<1> QED BY <1>1 DEF ProvInv, Jobs, Removing

\* A VM of somebody else that a step removes took its VMID from under a job that was to delete it.
LEMMA ForeignSpared == ASSUME ProvInv, [Prov!Next]_(Prov!vars) PROVE Prov!ForeignUntouched
<1> SUFFICES ASSUME NEW v \in DOMAIN vms, vms[v] = Prov!Foreign, v \notin DOMAIN vms'
             PROVE  Prov!Deleting(v) \cap taken # {}
  BY DEF Prov!ForeignUntouched
<1>1. ~UNCHANGED vms OBVIOUS
<1>2. \E s \in Prov!Scopes : Prov!DeleteOwned(s)
  <2>1. ~(\E m \in Machines : Prov!LateCreate(m)) BY DEF Prov!LateCreate, Prov!Holding
  <2>2. ~(\E w \in Vmids : Prov!AdminRemoves(w) \/ Prov!AdminTakes(w))
    BY DEF Prov!AdminRemoves, Prov!AdminTakes, Prov!Holding, Prov!Without
  <2>3. ~(\E s \in Prov!Scopes : Prov!CreateMachine(s)) BY DEF Prov!CreateMachine, Prov!Holding
  <2>4. \A p, s, kind, roles, target, image :
           Prov!PreparePlan(p, kind, s, roles, target, image) => UNCHANGED vms
    BY DEF Prov!PreparePlan, Prov!world
  <2>5. \/ Prov!SavePlan \/ Prov!SaveProvider \/ Prov!DeleteProvider \/ Prov!Crash \/ Prov!Restart
        \/ (\E p \in Plans : Prov!ExpirePlan(p) \/ Prov!Request(p)) \/ UNCHANGED Prov!vars
        => UNCHANGED vms
    BY DEF Prov!vars, Prov!world, Prov!SavePlan, Prov!SaveProvider, Prov!DeleteProvider, Prov!Crash,
       Prov!Restart, Prov!ExpirePlan, Prov!Request
  <2>6. \A s : \/ (\E p : Prov!RunStart(s, p)) \/ Prov!PrepareImage(s) \/ Prov!DownloadISO(s) \/ Prov!Reserve(s)
              \/ Prov!ListMachine(s) \/ Prov!VerifyCreated(s) \/ Prov!StartOwned(s) \/ Prov!Allocated(s)
              \/ Prov!MachineAddress(s) \/ Prov!GenerateConfigs(s) \/ Prov!ApplyConfig(s)
              => UNCHANGED vms
    BY DEF Prov!world, Prov!RunStart, Prov!PrepareImage, Prov!DownloadISO, Prov!Reserve, Prov!ListMachine,
       Prov!VerifyCreated, Prov!StartOwned, Prov!Allocated, Prov!MachineAddress, Prov!GenerateConfigs,
       Prov!ApplyConfig
  <2>7. \A s : \/ Prov!Join(s) \/ Prov!ImportStarted(s) \/ Prov!RegisterCluster(s) \/ Prov!AdoptMachine(s)
              \/ Prov!Complete(s) \/ Prov!DrainWorker(s) \/ Prov!CleanupMachine(s) \/ Prov!StopOwned(s)
              \/ Prov!Recheck(s) \/ Prov!RecordDeleted(s) \/ Prov!RunEnd(s)
              => UNCHANGED vms
    BY DEF Prov!world, Prov!Join, Prov!ImportStarted, Prov!RegisterCluster, Prov!AdoptMachine, Prov!Complete,
       Prov!DrainWorker, Prov!CleanupMachine, Prov!StopOwned, Prov!Recheck, Prov!RecordDeleted, Prov!RunEnd
  <2>8. UNCHANGED vms \/ \E s \in Prov!Scopes : Prov!DeleteOwned(s)
    BY <2>1, <2>2, <2>3, <2>4, <2>5, <2>6, <2>7 DEF Prov!Next
  <2> QED BY <1>1, <2>8
<1>3. PICK s \in Prov!Scopes : Prov!DeleteOwned(s) BY <1>2
<1>4. Prov!Job(s, "delete") /\ v = records[run[s].mem.target].vmid
  BY <1>3 DEF Prov!DeleteOwned, Prov!Without, Prov!Mem
<1>5. Busy(s) /\ run[s].pc = "delete" BY <1>4 DEF Busy, Prov!Job, Prov!Idle
<1>6. s \in taken BY <1>4, <1>5 DEF ProvInv, Jobs, Removing
<1> QED BY <1>4, <1>6 DEF Prov!Deleting, Prov!Mem

-----------------------------------------------------------------------------
\* The inductive invariant of provisioning holds in every state.
THEOREM ProvisioningInvariant == ASSUME Stocked PROVE Prov!Spec => []ProvInv
<1>1. Prov!Init => ProvInv BY ProvInit
<1>2. ProvInv /\ [Prov!Next]_(Prov!vars) => ProvInv' BY ProvNext
<1> QED BY <1>1, <1>2, PTL DEF Prov!Spec

\* A plan is executed at most once, however often it was confirmed and restarted (Run's check of
\* the status, saved before anything is done).
THEOREM PlansExecuteOnce == ASSUME Stocked PROVE Prov!Spec => []Prov!ExecutedOnce
<1>1. ProvInv => Prov!ExecutedOnce BY ProvPromises
<1> QED BY <1>1, ProvisioningInvariant, PTL

\* Every VM the program made or may still make has an ownership record and a plan that lists it,
\* and every image a plan that names it (saveOwned, the save before CreateMachine, prepareImage).
THEOREM NothingIsOrphaned == ASSUME Stocked PROVE Prov!Spec => []Prov!NothingOrphaned
<1>1. ProvInv => Prov!NothingOrphaned BY ProvPromises
<1> QED BY <1>1, ProvisioningInvariant, PTL

\* A machine closed as deleted is gone for good (DeleteOwned before the record).
THEOREM DeletedForGood == ASSUME Stocked PROVE Prov!Spec => []Prov!DeletedIsGone
<1>1. ProvInv => Prov!DeletedIsGone BY ProvPromises
<1> QED BY <1>1, ProvisioningInvariant, PTL

\* Cleanups spare registered clusters, and a foreign VM is lost only in the window after the last
\* ownership check (cleanupRecord, DeleteOwned).
THEOREM DeletionsAreOwned ==
  ASSUME Stocked
  PROVE  Prov!Spec => [][Prov!CleanupSparesClusters /\ Prov!ForeignUntouched]_(Prov!vars)
<1>1. ProvInv /\ [Prov!Next]_(Prov!vars) => [Prov!CleanupSparesClusters /\ Prov!ForeignUntouched]_(Prov!vars)
  BY CleanupSpares, ForeignSpared
<1> QED BY <1>1, ProvisioningInvariant, PTL DEF Prov!Spec
=============================================================================
