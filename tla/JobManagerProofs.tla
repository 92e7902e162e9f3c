--------------------------- MODULE JobManagerProofs ---------------------------
(***************************************************************************)
(* Proofs about JobManager, for any number of jobs, intents, keys and      *)
(* restarts.                                                               *)
(*                                                                         *)
(* Almost every action rewrites the record of one job, in memory and, with *)
(* or without success, on disk.  The lemmas of the first section say what  *)
(* the records become; the second section says what a write leaves alone.  *)
(***************************************************************************)
EXTENDS JobManager, TLAPS

-----------------------------------------------------------------------------
(* Records. *)

\* A fresh record has no intents.
LEMMA NewJobType ==
  ASSUME NEW k \in Keys \cup {NoKey}, NEW s \in Terminal \cup Pending \cup {"none"}
  PROVE  /\ NewJob(k, s) \in Job
         /\ NewJob(k, s).status = s
         /\ NewJob(k, s).intents = <<>>
  BY DEF NewJob, Job

\* An empty slot of the journal.
LEMMA NoJobType == NoJob \in Job /\ NoJob.status = "none" /\ NoJob.intents = <<>>
  BY NewJobType DEF NoJob

\* The intents of a record can be indexed.
LEMMA IntentsType ==
  ASSUME NEW r \in Job
  PROVE  /\ r.intents \in Seq(Intent)
         /\ Len(r.intents) \in Nat
         /\ \A n \in 1..Len(r.intents) : r.intents[n] \in Intent
  <1>1. r.intents \in Seq(Intent)
    BY DEF Job
  <1> QED BY <1>1

\* What BeginIntent appends is an intent.
LEMMA NewIntentType ==
  ASSUME NEW a \in Actions PROVE NewIntent(a) \in Intent
  BY DEF NewIntent, Intent, Outcomes, Evidence

\* A job that ends keeps everything but its status and outcome.
LEMMA EndedType ==
  ASSUME NEW r \in Job, NEW s \in Terminal
  PROVE  /\ Ended(r, s) \in Job
         /\ Ended(r, s).status = s
         /\ Ended(r, s).intents = r.intents
  BY DEF Ended, Job, Outcomes

\* A change of the outcome leaves status and intents alone.
LEMMA OutcomeType ==
  ASSUME NEW r \in Job, NEW o \in Outcomes
  PROVE  /\ WithOutcome(r, o) \in Job
         /\ WithOutcome(r, o).outcome = o
         /\ WithOutcome(r, o).status = r.status
         /\ WithOutcome(r, o).intents = r.intents
  BY DEF WithOutcome, Job

\* OpenCluster ends a pending record and keeps its intents.
LEMMA RecoveredType ==
  ASSUME NEW r \in Job
  PROVE  /\ Recovered(r) \in Job
         /\ Recovered(r).intents = r.intents
         /\ Recovered(r).status = IF r.status \in Pending THEN "interrupted" ELSE r.status
  <1> DEFINE e == IF r.status \in Pending THEN Ended(r, "interrupted") ELSE r
  <1>1. "interrupted" \in Terminal
    BY DEF Terminal
  <1>2. /\ e \in Job /\ e.intents = r.intents
        /\ e.status = IF r.status \in Pending THEN "interrupted" ELSE r.status
    BY <1>1, EndedType
  <1> HIDE DEF e
  <1>3. /\ WithOutcome(e, RequiresReview) \in Job
        /\ WithOutcome(e, RequiresReview).intents = e.intents
        /\ WithOutcome(e, RequiresReview).status = e.status
    BY <1>2, OutcomeType DEF Outcomes
  <1>4. Recovered(r) = IF r.legacy THEN WithOutcome(e, RequiresReview) ELSE e
    BY DEF Recovered, e
  <1> QED BY <1>2, <1>3, <1>4

\* A new intent is appended and the outcome is unknown again.
LEMMA AppendedType ==
  ASSUME NEW r \in Job, NEW a \in Actions
  PROVE  /\ Appended(r, a) \in Job
         /\ Appended(r, a).status = r.status
         /\ Appended(r, a).outcome = Unknown
         /\ Len(Appended(r, a).intents) = Len(r.intents) + 1
         /\ Appended(r, a).intents[Len(r.intents) + 1] = NewIntent(a)
         /\ \A n \in 1..Len(r.intents) : Appended(r, a).intents[n] = r.intents[n]
  <1>1. r.intents \in Seq(Intent)
    BY DEF Job
  <1> DEFINE q == Append(r.intents, NewIntent(a))
  <1>2. /\ q \in Seq(Intent)
        /\ Len(q) = Len(r.intents) + 1
        /\ q[Len(r.intents) + 1] = NewIntent(a)
        /\ \A n \in 1..Len(r.intents) : q[n] = r.intents[n]
    BY <1>1, NewIntentType
  <1>3. Appended(r, a) = [r EXCEPT !.intents = q, !.outcome = Unknown]
    BY DEF Appended
  <1> HIDE DEF q
  <1>4. /\ Appended(r, a) \in Job
        /\ Appended(r, a).intents = q
        /\ Appended(r, a).status = r.status
        /\ Appended(r, a).outcome = Unknown
    BY <1>2, <1>3 DEF Job, Outcomes
  <1> QED BY <1>2, <1>4

\* One intent of a record is replaced.
LEMMA ReplacedType ==
  ASSUME NEW r \in Job, NEW n \in 1..Len(r.intents), NEW i \in Intent
  PROVE  /\ WithIntent(r, n, i) \in Job
         /\ WithIntent(r, n, i).status = r.status
         /\ Len(WithIntent(r, n, i).intents) = Len(r.intents)
         /\ WithIntent(r, n, i).intents[n] = i
         /\ \A m \in 1..Len(r.intents) :
                m # n => WithIntent(r, n, i).intents[m] = r.intents[m]
  <1>1. r.intents \in Seq(Intent)
    BY DEF Job
  <1> DEFINE q == [r.intents EXCEPT ![n] = i]
  <1>2. /\ q \in Seq(Intent)
        /\ Len(q) = Len(r.intents)
        /\ q[n] = i
        /\ \A m \in 1..Len(r.intents) : m # n => q[m] = r.intents[m]
    BY <1>1
  <1>3. WithIntent(r, n, i) = [r EXCEPT !.intents = q]
    BY DEF WithIntent
  <1> HIDE DEF q
  <1>4. /\ WithIntent(r, n, i) \in Job
        /\ WithIntent(r, n, i).intents = q
        /\ WithIntent(r, n, i).status = r.status
    BY <1>2, <1>3 DEF Job
  <1> QED BY <1>2, <1>4

\* A receipt replaces the last intent by one that is resolved.
LEMMA ReceiptedType ==
  ASSUME NEW r \in Job, NEW receipt \in {"acknowledged", "rejected"},
         Len(r.intents) >= 1, r.intents[Len(r.intents)].action = "command"
  PROVE  LET t == Receipted(r, receipt)
         IN  /\ t \in Job
             /\ t.status = r.status
             /\ Len(t.intents) = Len(r.intents)
             /\ t.outcome \in {Succeeded, Unknown}
             /\ t.outcome = Succeeded => AllResolved(t)
             /\ t.intents[Len(r.intents)].action = "command"
             /\ Resolved(t.intents[Len(r.intents)])
             /\ \A m \in 1..Len(r.intents) :
                    m # Len(r.intents) => t.intents[m] = r.intents[m]
  <1> DEFINE n == Len(r.intents)
             x == IF receipt = "acknowledged" THEN Succeeded ELSE Failed
             i == [r.intents[n] EXCEPT !.outcome = x, !.evidence = receipt]
             s == WithIntent(r, n, i)
             o == IF AllResolved(s) THEN Succeeded ELSE Unknown
             t == WithOutcome(s, o)
  <1>0. r.intents \in Seq(Intent)
    BY DEF Job
  <1>1. n \in 1..Len(r.intents) /\ r.intents[n] \in Intent
    BY <1>0
  <1>2. i \in Intent
    BY <1>1 DEF Intent, Outcomes, Evidence
  <1>3. i.action = "command" /\ Resolved(i)
    BY <1>1 DEF Intent, Resolved, CommandReceipt
  <1>4. o \in Outcomes
    BY DEF Outcomes
  <1> HIDE DEF i, o, n
  <1>5. /\ t \in Job /\ t.status = r.status /\ s \in Job /\ t.outcome = o
        /\ t.intents = s.intents
        /\ Len(s.intents) = Len(r.intents)
        /\ s.intents[n] = i
        /\ \A m \in 1..Len(r.intents) : m # n => s.intents[m] = r.intents[m]
    BY <1>1, <1>2, <1>4, ReplacedType, OutcomeType
  <1>8. AllResolved(t) = AllResolved(s)
    BY <1>5 DEF AllResolved
  <1>9. Receipted(r, receipt) = t
    BY DEF Receipted, t, s, o, i, n, x
  <1>10. t.outcome \in {Succeeded, Unknown} /\ (t.outcome = Succeeded => AllResolved(t))
    BY <1>5, <1>8 DEF o, Succeeded, Unknown
  <1> QED BY <1>3, <1>5, <1>9, <1>10 DEF n

\* An observation replaces one intent by one of the same action.
LEMMA ObservedType ==
  ASSUME NEW r \in Job, NEW n \in 1..Len(r.intents), NEW o \in Observation
  PROVE  LET t == Observed(r, n, o)
         IN  /\ t \in Job
             /\ t.status = r.status
             /\ Len(t.intents) = Len(r.intents)
             /\ t.intents[n].action = r.intents[n].action
             /\ t.intents[n].outcome # Failed
             /\ t.outcome = Succeeded =>
                   \A m \in 1..Len(t.intents) :
                       t.intents[m].outcome \notin {Unknown, RequiresReview}
             /\ \A m \in 1..Len(r.intents) : m # n => t.intents[m] = r.intents[m]
  <1> DEFINE verdict == Evaluate(r.intents[n], o, ~r.legacy)
             i == [r.intents[n] EXCEPT !.outcome = verdict, !.evidence = "observed"]
             s == WithIntent(r, n, i)
             open == \E m \in 1..Len(s.intents) : s.intents[m].outcome \in {Unknown, RequiresReview}
             x == IF open THEN RequiresReview ELSE verdict
             t == WithOutcome(s, x)
  <1>0. r.intents \in Seq(Intent)
    BY DEF Job
  <1>1. r.intents[n] \in Intent
    BY <1>0
  <1>2. verdict \in Outcomes /\ verdict # Failed
    BY DEF Evaluate, Outcomes, Unknown, RequiresReview, Succeeded, Failed
  <1> HIDE DEF verdict
  <1>3. i \in Intent /\ i.action = r.intents[n].action /\ i.outcome = verdict
    BY <1>1, <1>2 DEF Intent, Evidence
  <1>4. x \in Outcomes
    BY <1>2 DEF Outcomes
  <1>5. x = Succeeded => ~open
    BY DEF RequiresReview, Succeeded
  <1> HIDE DEF i, x
  <1>6. /\ t \in Job /\ t.status = r.status /\ s \in Job /\ t.outcome = x
        /\ t.intents = s.intents
        /\ Len(s.intents) = Len(r.intents)
        /\ s.intents[n] = i
        /\ \A m \in 1..Len(r.intents) : m # n => s.intents[m] = r.intents[m]
    BY <1>3, <1>4, ReplacedType, OutcomeType
  <1>8. Observed(r, n, o) = t
    BY DEF Observed, t, s, i, x, open, verdict
  <1> QED BY <1>2, <1>3, <1>5, <1>6, <1>8

-----------------------------------------------------------------------------
(* Writes. *)

\* What a write does, whether or not the file could be saved.
LEMMA WriteStep ==
  ASSUME TypeOK, NEW j \in JobIds, NEW r \in Job, NEW ok \in BOOLEAN, Write(j, r, ok)
  PROVE  /\ jobs' \in [JobIds -> Job]
         /\ disk' \in [JobIds -> Job]
         /\ storageErr' \in BOOLEAN
         /\ jobs'[j] = r
         /\ disk'[j] \in {disk[j], r}
         /\ ok => disk'[j] = r /\ storageErr' = storageErr
         /\ ~ok => storageErr'
         /\ \A k \in JobIds : k # j => jobs'[k] = jobs[k] /\ disk'[k] = disk[k]
  BY DEF Write, SaveOrLatch, Save, TypeOK

-----------------------------------------------------------------------------
(* The executor. *)

\* Nothing of an id that was not given out yet exists.
Fresh == \A j \in JobIds : j >= nextId =>
            jobs[j] = NoJob /\ disk[j] = NoJob /\ j \notin evicted

\* The places of an executor agree with the status of its job: it is pending
\* exactly while the executor exists, and a command that is being sent is the
\* last intent of the record.
AtWork(j) ==
    /\ pc[j] \in {"spawned", "admit", "finish"} => j = active
    /\ pc[j] # "idle" => up /\ jobs[j].status \in Pending
    /\ pc[j] = "idle" => jobs[j].status \notin Pending
    /\ pc[j] \in {"guard", "call", "called"} =>
          /\ Len(jobs[j].intents) >= 1
          /\ jobs[j].intents[Len(jobs[j].intents)].action = "command"

ExecInv ==
    /\ TypeOK
    /\ Fresh
    /\ OneExecutor
    /\ \A j \in JobIds : AtWork(j)
    /\ manual \/ active # 0 => up
    /\ ~manual => manualJob = 0

\* Nobody is at work while admission is open.
LEMMA AllIdle ==
  ASSUME ExecInv, active = 0, ~manual
  PROVE  \A j \in JobIds : pc[j] = "idle" /\ jobs[j].status \notin Pending
  BY DEF ExecInv, OneExecutor, AtWork, JobIds

\* A directory that no process has opened has no executor.
LEMMA ExecInit == Init => ExecInv
  <1> SUFFICES ASSUME Init PROVE ExecInv
    OBVIOUS
  <1>1. \A r \in LegacyJobs : r \in Job
    <2> SUFFICES ASSUME NEW s \in {"running", "interrupted"},
                        NEW i \in {<<>>, <<NewIntent("create")>>}
                 PROVE  [NewJob(NoKey, s) EXCEPT !.legacy = TRUE, !.outcome = Unknown,
                                                 !.intents = i] \in Job
      BY DEF LegacyJobs
    <2>2. NewIntent("create") \in Intent
      BY NewIntentType DEF Actions
    <2>1. <<NewIntent("create")>> \in Seq(Intent) /\ << >> \in Seq(Intent)
      BY <2>2
    <2>3. i \in Seq(Intent)
      BY <2>1
    <2> QED BY <2>3 DEF NewJob, Job, Outcomes, Terminal, Pending
  <1>2. /\ disk \in [JobIds -> Job] /\ nextId \in {1, 2}
        /\ \A j \in JobIds : j >= nextId => disk[j] = NoJob
    <2>1. CASE disk = [j \in JobIds |-> NoJob] /\ nextId = 1
      BY <2>1, NoJobType
    <2>2. CASE nextId = 2 /\ \E r \in LegacyJobs : disk = [j \in JobIds |-> IF j = 1 THEN r ELSE NoJob]
      BY <2>2, <1>1, NoJobType
    <2> QED BY <2>1, <2>2 DEF Init
  <1>3. nextId \in 1..(MaxSubmit + 1)
    BY <1>2, ConstantsAssumption
  <1>4. TypeOK
    <2>1. jobs \in [JobIds -> Job] /\ archive \in [JobIds -> Job]
      BY NoJobType DEF Init
    <2>2. pc \in [JobIds -> Places] /\ res \in [JobIds -> Results]
      BY DEF Init, Places, Results
    <2>3. restarts \in 0..MaxRestarts /\ late \in Nat
      BY ConstantsAssumption DEF Init
    <2> QED BY <1>2, <1>3, <2>1, <2>2, <2>3 DEF Init, TypeOK
  <1>5. Fresh
    BY <1>2 DEF Init, Fresh
  <1>6. OneExecutor
    BY DEF Init, OneExecutor
  <1>7. ASSUME NEW j \in JobIds PROVE AtWork(j)
    BY NoJobType DEF Init, AtWork, Pending
  <1> QED BY <1>4, <1>5, <1>6, <1>7 DEF ExecInv, Init

\* An executor moves from one place to another and rewrites its record.
LEMMA ExecutorMoves ==
  ASSUME ExecInv, NEW j \in JobIds, NEW r \in Job, NEW ok \in BOOLEAN, NEW x \in Places,
         pc[j] # "idle", x # "idle",
         Write(j, r, ok), pc' = [pc EXCEPT ![j] = x],
         r.status \in Pending,
         x \in {"spawned", "admit", "finish"} => j = active,
         x \in {"guard", "call", "called"} =>
             Len(r.intents) >= 1 /\ r.intents[Len(r.intents)].action = "command",
         UNCHANGED <<archive, active, manual, manualJob, closed, up, lease, nextId,
                     restarts, evicted, accepted, late, dispatched>>,
         res' \in [JobIds -> Results], proven' \subseteq JobIds \X Nat
  PROVE  ExecInv'
  <1>1. TypeOK
    BY DEF ExecInv
  <1>2. /\ jobs' \in [JobIds -> Job] /\ disk' \in [JobIds -> Job]
        /\ storageErr' \in BOOLEAN /\ jobs'[j] = r
        /\ \A k \in JobIds : k # j => jobs'[k] = jobs[k] /\ disk'[k] = disk[k]
    BY <1>1, WriteStep
  <1>3. TypeOK'
    BY <1>1, <1>2 DEF TypeOK
  <1>4. pc'[j] = x /\ \A k \in JobIds : k # j => pc'[k] = pc[k]
    BY <1>1 DEF TypeOK
  <1>5. j < nextId
    BY <1>1, NoJobType DEF ExecInv, Fresh, AtWork, Pending, TypeOK, JobIds
  <1>6. Fresh'
    BY <1>1, <1>2, <1>5 DEF ExecInv, Fresh, TypeOK, JobIds
  <1>7. OneExecutor'
    BY <1>4 DEF ExecInv, OneExecutor
  <1>8. ASSUME NEW k \in JobIds PROVE AtWork(k)'
    <2>1. CASE k = j
      BY <1>2, <1>4, <2>1 DEF ExecInv, AtWork
    <2>2. CASE k # j
      BY <1>2, <1>4, <2>2 DEF ExecInv, AtWork
    <2> QED BY <2>1, <2>2
  <1> QED BY <1>3, <1>6, <1>7, <1>8 DEF ExecInv

\* An operator rewrites a record; the executor, if any, stays where it is.
LEMMA RecordChanges ==
  ASSUME ExecInv, NEW j \in JobIds, NEW r \in Job, NEW ok \in BOOLEAN,
         Write(j, r, ok), UNCHANGED pc,
         jobs[j].status # "none", r.status = jobs[j].status,
         Len(r.intents) = Len(jobs[j].intents),
         \A n \in 1..Len(r.intents) : r.intents[n].action = jobs[j].intents[n].action,
         UNCHANGED <<archive, active, manual, manualJob, closed, up, lease, nextId,
                     restarts, evicted, accepted, late, dispatched, res>>,
         proven' \subseteq JobIds \X Nat
  PROVE  ExecInv'
  <1>1. TypeOK
    BY DEF ExecInv
  <1>2. /\ jobs' \in [JobIds -> Job] /\ disk' \in [JobIds -> Job]
        /\ storageErr' \in BOOLEAN /\ jobs'[j] = r
        /\ \A k \in JobIds : k # j => jobs'[k] = jobs[k] /\ disk'[k] = disk[k]
    BY <1>1, WriteStep
  <1>3. TypeOK'
    BY <1>1, <1>2 DEF TypeOK
  <1>5. j < nextId
    BY <1>1, NoJobType DEF ExecInv, Fresh, TypeOK, JobIds
  <1>6. Fresh'
    BY <1>1, <1>2, <1>5 DEF ExecInv, Fresh, TypeOK, JobIds
  <1>7. OneExecutor'
    BY DEF ExecInv, OneExecutor
  <1>8. ASSUME NEW k \in JobIds PROVE AtWork(k)'
    <2>1. CASE k = j
      <3>1. Len(r.intents) \in Nat
        BY IntentsType
      <3>2. Len(r.intents) >= 1 =>
               r.intents[Len(r.intents)].action = jobs[j].intents[Len(jobs[j].intents)].action
        BY <3>1
      <3>3. AtWork(j)
        BY DEF ExecInv
      <3>4. /\ pc'[j] = pc[j] /\ up' = up /\ active' = active /\ jobs'[j].status = jobs[j].status
            /\ Len(jobs'[j].intents) = Len(jobs[j].intents)
            /\ jobs'[j].intents = r.intents
        BY <1>2
      <3> QED BY <2>1, <3>2, <3>3, <3>4 DEF AtWork
    <2>2. CASE k # j
      BY <1>2, <2>2 DEF ExecInv, AtWork
    <2> QED BY <2>1, <2>2
  <1> QED BY <1>3, <1>6, <1>7, <1>8 DEF ExecInv

-----------------------------------------------------------------------------
(* Every action keeps ExecInv. *)

\* An executor's record is pending, and a process is up.
LEMMA StatusAtWork ==
  ASSUME ExecInv, NEW j \in JobIds, pc[j] # "idle"
  PROVE  jobs[j] \in Job /\ jobs[j].status \in Pending /\ up
  BY DEF ExecInv, AtWork, TypeOK

\* Submit: the job started takes a slot that nobody works on.
LEMMA ExecSubmit ==
  ASSUME ExecInv, NEW k \in Keys \cup {NoKey}, NEW ok \in BOOLEAN, Submit(k, ok)
  PROVE  ExecInv'
  <1> DEFINE r == NewJob(k, "queued")
             E == Evictable
             room == Without(disk, E)
             kept == Without(jobs, E)
  <1>t. TypeOK
    BY DEF ExecInv
  <1>1. nextId \in JobIds /\ nextId' = nextId + 1 /\ active = 0 /\ ~manual /\ up
    BY <1>t DEF Submit, available, busy, TypeOK, JobIds
  <1>2. r \in Job /\ r.status \in Pending /\ r.intents = <<>>
    BY NewJobType DEF Pending
  <1>3. E \subseteq Held /\ Held \subseteq JobIds
    BY DEF Evictable, Held
  <1>4. \A j \in Held : j < nextId
    BY <1>t, <1>1, NoJobType DEF Held, ExecInv, Fresh, JobIds, TypeOK
  <1>5. nextId \notin E
    BY <1>3, <1>4, <1>1 DEF JobIds
  <1> HIDE DEF r, E
  <1>6. /\ room \in [JobIds -> Job] /\ kept \in [JobIds -> Job]
        /\ \A j \in JobIds : room[j] = (IF j \in E THEN NoJob ELSE disk[j])
        /\ \A j \in JobIds : kept[j] = (IF j \in E THEN NoJob ELSE jobs[j])
    BY <1>t, NoJobType DEF Without, TypeOK
  <1> HIDE DEF room, kept
  <1>7. /\ disk' \in {room, [room EXCEPT ![nextId] = r]}
        /\ jobs' = IF ok THEN [kept EXCEPT ![nextId] = r] ELSE kept
        /\ active' = (IF ok THEN nextId ELSE active)
        /\ pc' = IF ok THEN [pc EXCEPT ![nextId] = "spawned"] ELSE pc
        /\ evicted' = evicted \cup E
        /\ accepted' \in {accepted, accepted \cup {<<nextId, k>>}}
        /\ (k = NoKey => accepted' = accepted)
    BY DEF Submit, r, room, kept, E
  <1>8. UNCHANGED <<archive, manual, manualJob, closed, storageErr, up, lease,
                   res, restarts, dispatched, proven, late>>
    BY DEF Submit
  <1>9. /\ jobs' \in [JobIds -> Job] /\ disk' \in [JobIds -> Job]
        /\ pc' \in [JobIds -> Places] /\ active' \in JobIds \cup {0}
    BY <1>t, <1>1, <1>2, <1>6, <1>7 DEF TypeOK, Places
  <1>10. evicted' \subseteq JobIds /\ accepted' \subseteq JobIds \X Keys
    BY <1>t, <1>1, <1>3, <1>7 DEF TypeOK
  <1>11. nextId' \in 1..(MaxSubmit + 1)
    BY <1>1, ConstantsAssumption DEF JobIds
  <1>12. TypeOK'
    BY <1>t, <1>8, <1>9, <1>10, <1>11 DEF TypeOK
  <1>13. Fresh'
    <2> SUFFICES ASSUME NEW j \in JobIds, j >= nextId'
                 PROVE  jobs'[j] = NoJob /\ disk'[j] = NoJob /\ j \notin evicted'
      BY DEF Fresh
    <2>1. j >= nextId /\ j # nextId /\ j \notin E
      BY <1>1, <1>3, <1>4 DEF JobIds
    <2> QED BY <1>6, <1>7, <2>1, <1>1 DEF ExecInv, Fresh
  <1>14. \A j \in JobIds : pc[j] = "idle" /\ jobs[j].status \notin Pending
    BY <1>1, AllIdle
  <1>15. OneExecutor'
    BY <1>t, <1>1, <1>7, <1>8, <1>14 DEF OneExecutor, TypeOK, JobIds
  <1>16. ASSUME NEW j \in JobIds PROVE AtWork(j)'
    <2>1. CASE ok /\ j = nextId
      <3>1. pc'[j] = "spawned" /\ active' = j /\ jobs'[j] = r /\ up'
        BY <1>t, <1>1, <1>6, <1>7, <1>8, <2>1 DEF TypeOK
      <3> QED BY <3>1, <1>2 DEF AtWork
    <2>2. CASE ~(ok /\ j = nextId)
      <3>1. pc'[j] = "idle" /\ jobs'[j] \in {jobs[j], NoJob}
        BY <1>t, <1>1, <1>6, <1>7, <1>14, <2>2 DEF TypeOK
      <3> QED BY <3>1, <1>14, NoJobType DEF AtWork, Pending
    <2> QED BY <2>1, <2>2
  <1> QED BY <1>1, <1>8, <1>12, <1>13, <1>15, <1>16 DEF ExecInv

\* An executor moves and no record changes.
LEMMA PlaceMoves ==
  ASSUME ExecInv, NEW j \in JobIds, NEW x \in Places,
         pc[j] # "idle", x # "idle", pc' = [pc EXCEPT ![j] = x],
         x \in {"spawned", "admit", "finish"} => j = active,
         x \in {"guard", "call", "called"} => pc[j] \in {"guard", "call", "called"},
         UNCHANGED <<journal, control, nextId, restarts, evicted, accepted, proven>>,
         res' \in [JobIds -> Results],
         dispatched' \subseteq JobIds \X Nat, late' \in Nat
  PROVE  ExecInv'
  <1>t. TypeOK
    BY DEF ExecInv
  <1>1. pc'[j] = x /\ pc' \in [JobIds -> Places] /\ \A k \in JobIds : k # j => pc'[k] = pc[k]
    BY <1>t DEF TypeOK
  <1>2. TypeOK'
    BY <1>t, <1>1 DEF TypeOK, journal, control
  <1>3. Fresh' /\ OneExecutor'
    BY <1>1 DEF ExecInv, Fresh, OneExecutor, journal, control
  <1>4. ASSUME NEW k \in JobIds PROVE AtWork(k)'
    <2>1. CASE k = j
      BY <1>1, <2>1 DEF ExecInv, AtWork, journal, control
    <2>2. CASE k # j
      BY <1>1, <2>2 DEF ExecInv, AtWork, journal, control
    <2> QED BY <2>1, <2>2
  <1> QED BY <1>2, <1>3, <1>4 DEF ExecInv, control

\* run marks its own record running.
LEMMA ExecRunStart ==
  ASSUME ExecInv, NEW j \in JobIds, NEW ok \in BOOLEAN, RunStart(j, ok)
  PROVE  ExecInv'
  <1> DEFINE r == [jobs[j] EXCEPT !.status = "running"]
             x == IF ok THEN "admit" ELSE "finish"
  <1>1. jobs[j] \in Job /\ pc[j] = "spawned" /\ j = active
    BY DEF RunStart, ExecInv, AtWork, TypeOK
  <1>2. r \in Job /\ r.status \in Pending
    BY <1>1 DEF Job, Pending
  <1>3. x \in Places \ {"idle", "guard", "call", "called"}
    BY DEF Places
  <1>4. Write(j, r, ok) /\ pc' = [pc EXCEPT ![j] = x]
    BY DEF RunStart
  <1>5. res' \in [JobIds -> Results]
    BY DEF RunStart, ExecInv, TypeOK, Results
  <1>6. UNCHANGED <<archive, active, manual, manualJob, closed, up, lease, nextId,
                    restarts, history>>
    BY DEF RunStart
  <1>7. proven' \subseteq JobIds \X Nat
    BY <1>6 DEF ExecInv, TypeOK, history
  <1> HIDE DEF r, x
  <1> QED BY <1>1, <1>2, <1>3, <1>4, <1>5, <1>6, <1>7, ExecutorMoves DEF history

\* The steps of an executor that write nothing.
LEMMA ExecMoves ==
  ASSUME ExecInv, NEW j \in JobIds,
         \/ RunAdmit(j) \/ \E r \in Results : RunnerReturns(j, r)
         \/ Guard(j) \/ Call(j) \/ CallUnproved(j)
  PROVE  ExecInv'
  <1>t. TypeOK
    BY DEF ExecInv
  <1>1. CASE RunAdmit(j)
    <2>1. \E x \in {"body", "finish"} : pc' = [pc EXCEPT ![j] = x]
      BY <1>1 DEF RunAdmit
    <2>2. res' \in [JobIds -> Results]
      BY <1>1, <1>t DEF RunAdmit, TypeOK, Results
    <2>3. j = active
      BY <1>1 DEF RunAdmit, ExecInv, AtWork
    <2> QED BY <1>1, <1>t, <2>1, <2>2, <2>3, PlaceMoves DEF RunAdmit, Places, history, TypeOK
  <1>2. ASSUME NEW r \in Results, RunnerReturns(j, r) PROVE ExecInv'
    <2>1. res' \in [JobIds -> Results]
      BY <1>2, <1>t DEF RunnerReturns, TypeOK
    <2> QED BY <1>2, <1>t, <2>1, PlaceMoves DEF RunnerReturns, Places, history, TypeOK
  <1>3. CASE Guard(j)
    <2>1. \E x \in {"call", "body"} : pc' = [pc EXCEPT ![j] = x]
      BY <1>3 DEF Guard
    <2>2. pc[j] = "guard" /\ UNCHANGED <<journal, control, res, nextId, restarts, history>>
      BY <1>3 DEF Guard
    <2>3. "call" \in Places /\ "body" \in Places
      BY DEF Places
    <2> QED BY <1>t, <2>1, <2>2, <2>3, PlaceMoves DEF history, TypeOK
  <1>4. CASE Call(j)
    <2>1. jobs[j] \in Job
      BY <1>t DEF TypeOK
    <2>2. dispatched' \subseteq JobIds \X Nat /\ late' \in Nat
      BY <1>4, <1>t, <2>1, IntentsType DEF Call, TypeOK
    <2> QED BY <1>4, <1>t, <2>2, PlaceMoves DEF Call, Places, history, TypeOK
  <1>5. CASE CallUnproved(j)
    BY <1>5, <1>t, PlaceMoves DEF CallUnproved, Places, history, TypeOK
  <1> QED BY <1>1, <1>2, <1>3, <1>4, <1>5

\* The deferred function of run gives the slot up.
LEMMA ExecComplete ==
  ASSUME ExecInv, NEW j \in JobIds, NEW ok \in BOOLEAN, Complete(j, ok)
  PROVE  ExecInv'
  <1> DEFINE r == Ended(jobs[j], FinalStatus(j))
             m == IF ok THEN r ELSE [r EXCEPT !.status = "interrupted"]
  <1>t. TypeOK
    BY DEF ExecInv
  <1>1. jobs[j] \in Job /\ pc[j] = "finish" /\ j = active /\ up
    BY <1>t DEF Complete, ExecInv, AtWork, TypeOK
  <1>2. FinalStatus(j) \in Terminal
    BY DEF FinalStatus, Terminal, Clean
  <1>3. r \in Job /\ r.status \in Terminal
    BY <1>1, <1>2, EndedType
  <1> HIDE DEF r
  <1>4. m \in Job /\ m.status \notin Pending
    BY <1>3 DEF Job, Terminal, Clean, Pending
  <1>5. /\ jobs' = [jobs EXCEPT ![j] = m]
        /\ disk' \in {disk, [disk EXCEPT ![j] = r]}
        /\ storageErr' = (storageErr \/ ~ok)
    BY DEF Complete, SaveOrLatch, Save, m, r
  <1> HIDE DEF m
  <1>6. /\ active' = 0 /\ pc' = [pc EXCEPT ![j] = "idle"] /\ res' = [res EXCEPT ![j] = "nil"]
        /\ UNCHANGED <<archive, manual, manualJob, closed, up, lease, nextId, restarts, history>>
    BY DEF Complete
  <1>7. /\ jobs' \in [JobIds -> Job] /\ disk' \in [JobIds -> Job] /\ storageErr' \in BOOLEAN
        /\ pc' \in [JobIds -> Places] /\ res' \in [JobIds -> Results]
        /\ jobs'[j] = m /\ pc'[j] = "idle"
        /\ \A k \in JobIds : k # j => jobs'[k] = jobs[k] /\ disk'[k] = disk[k] /\ pc'[k] = pc[k]
    BY <1>t, <1>3, <1>4, <1>5, <1>6 DEF TypeOK, Places, Results
  <1>8. TypeOK'
    BY <1>t, <1>6, <1>7 DEF TypeOK, history
  <1>9. j < nextId
    BY <1>t, <1>1, NoJobType DEF ExecInv, Fresh, AtWork, Pending, TypeOK, JobIds
  <1>10. Fresh'
    BY <1>t, <1>6, <1>7, <1>9 DEF ExecInv, Fresh, TypeOK, JobIds, history
  <1>11. ~manual /\ \A k \in JobIds : k # j => pc[k] = "idle"
    BY <1>1 DEF ExecInv, OneExecutor, JobIds
  <1>12. OneExecutor'
    BY <1>6, <1>7, <1>11 DEF OneExecutor
  <1>13. ASSUME NEW k \in JobIds PROVE AtWork(k)'
    <2>1. CASE k = j
      BY <1>4, <1>7, <2>1 DEF AtWork
    <2>2. CASE k # j
      BY <1>7, <1>11, <2>2 DEF ExecInv, AtWork
    <2> QED BY <2>1, <2>2
  <1> QED BY <1>1, <1>6, <1>8, <1>10, <1>11, <1>12, <1>13 DEF ExecInv

\* Log and Checkpoint write the record they found.
LEMMA ExecLog ==
  ASSUME ExecInv, NEW j \in JobIds, NEW ok \in BOOLEAN, Log(j, ok)
  PROVE  ExecInv'
  <1>1. pc[j] = "body" /\ jobs[j] \in Job /\ jobs[j].status \in Pending
    BY StatusAtWork DEF Log
  <1>2. Write(j, jobs[j], ok) /\ UNCHANGED <<archive, active, manual, manualJob, closed,
            up, lease, pc, res, nextId, restarts, history>>
    BY DEF Log
  <1>3. jobs[j].status # "none" /\ proven' \subseteq JobIds \X Nat
    BY <1>1, <1>2 DEF Pending, history, ExecInv, TypeOK
  <1> QED BY <1>1, <1>2, <1>3, RecordChanges DEF history

\* BeginIntent: a sender always has an intent to send.
LEMMA ExecBeginIntent ==
  ASSUME ExecInv, NEW j \in JobIds, NEW a \in Actions, NEW ok \in BOOLEAN, BeginIntent(j, a, ok)
  PROVE  ExecInv'
  <1> DEFINE x == IF a = "command" /\ ok THEN "guard" ELSE "body"
  <1>1. pc[j] = "body" /\ jobs[j] \in Job /\ jobs[j].status \in Pending
    BY StatusAtWork DEF BeginIntent
  <1>2. /\ Write(j, Appended(jobs[j], a), ok) /\ pc' = [pc EXCEPT ![j] = x]
        /\ UNCHANGED <<archive, active, manual, manualJob, closed, up, lease, res,
                       nextId, restarts, history>>
    BY DEF BeginIntent
  <1>3. x \in Places \ {"idle", "spawned", "admit", "finish"}
    BY DEF Places
  <1> DEFINE r == Appended(jobs[j], a)
  <1>4. Len(jobs[j].intents) \in Nat
    BY <1>1, IntentsType
  <1>5. /\ r \in Job /\ r.status \in Pending
        /\ Len(r.intents) >= 1 /\ r.intents[Len(r.intents)] = NewIntent(a)
    BY <1>1, <1>4, AppendedType
  <1>6. x = "guard" => r.intents[Len(r.intents)].action = "command"
    BY <1>5 DEF NewIntent
  <1>7. x \in {"guard", "call", "called"} => x = "guard"
    OBVIOUS
  <1>8. res' \in [JobIds -> Results] /\ proven' \subseteq JobIds \X Nat
    BY <1>2 DEF history, ExecInv, TypeOK
  <1> HIDE DEF x, r
  <1>9. Write(j, r, ok)
    BY <1>2 DEF r
  <1> QED BY <1>1, <1>2, <1>3, <1>5, <1>6, <1>7, <1>8, <1>9, ExecutorMoves DEF history

\* A receipt is written for the last intent of its executor.
LEMMA ExecCallReceipt ==
  ASSUME ExecInv, NEW j \in JobIds, NEW receipt \in {"acknowledged", "rejected"},
         NEW ok \in BOOLEAN, CallReceipt(j, receipt, ok)
  PROVE  ExecInv'
  <1> DEFINE r == Receipted(jobs[j], receipt)
  <1>1. /\ pc[j] = "called" /\ jobs[j] \in Job /\ jobs[j].status \in Pending
        /\ Len(jobs[j].intents) >= 1
        /\ jobs[j].intents[Len(jobs[j].intents)].action = "command"
    BY StatusAtWork DEF CallReceipt, ExecInv, AtWork
  <1>2. r \in Job /\ r.status \in Pending
    BY <1>1, ReceiptedType
  <1>3. /\ Write(j, r, ok) /\ pc' = [pc EXCEPT ![j] = "body"]
        /\ proven' = proven \cup {<<j, Len(jobs[j].intents)>>}
        /\ UNCHANGED <<archive, active, manual, manualJob, closed, up, lease, res,
                       nextId, restarts, dispatched, accepted, evicted, late>>
    BY DEF CallReceipt
  <1> HIDE DEF r
  <1>4. proven' \subseteq JobIds \X Nat /\ res' \in [JobIds -> Results]
    BY <1>1, <1>3, IntentsType DEF ExecInv, TypeOK
  <1> QED BY <1>1, <1>2, <1>3, <1>4, ExecutorMoves DEF Places

\* An observation of a job in the journal.
LEMMA ExecObserve ==
  ASSUME ExecInv, NEW j \in JobIds, NEW n \in 1..Len(jobs[j].intents),
         NEW o \in Observation, NEW ok \in BOOLEAN,
         jobs[j].status # "none", ObserveIntent(j, n, o, ok)
  PROVE  ExecInv'
  <1> DEFINE r == Observed(jobs[j], n, o)
  <1>1. jobs[j] \in Job
    BY DEF ExecInv, TypeOK
  <1>2. /\ r \in Job /\ r.status = jobs[j].status
        /\ Len(r.intents) = Len(jobs[j].intents)
        /\ r.intents[n].action = jobs[j].intents[n].action
        /\ \A m \in 1..Len(jobs[j].intents) : m # n => r.intents[m] = jobs[j].intents[m]
    BY <1>1, ObservedType
  <1>3. /\ Write(j, r, ok)
        /\ proven' \in {proven, proven \cup {<<j, n>>}}
        /\ UNCHANGED <<archive, active, manual, manualJob, closed, up, lease, pc, res,
                       nextId, restarts, dispatched, accepted, evicted, late>>
    BY DEF ObserveIntent
  <1> HIDE DEF r
  <1>4. \A m \in 1..Len(r.intents) : r.intents[m].action = jobs[j].intents[m].action
    BY <1>2
  <1>5. n \in Nat
    BY <1>1, IntentsType
  <1>6. proven' \subseteq JobIds \X Nat
    BY <1>3, <1>5 DEF ExecInv, TypeOK
  <1> QED BY <1>2, <1>3, <1>4, <1>6, RecordChanges

\* proveMachineIntent is an observation by the executor.
LEMMA ExecProve ==
  ASSUME ExecInv, NEW j \in JobIds, NEW n \in 1..Len(jobs[j].intents),
         NEW timely \in BOOLEAN, NEW ok \in BOOLEAN, Prove(j, n, timely, ok)
  PROVE  ExecInv'
  <1> DEFINE o == [state        |-> DesiredState(jobs[j].intents[n].action),
                   sameIdentity |-> TRUE, timely |-> timely]
  <1>1. jobs[j].status # "none"
    BY StatusAtWork DEF Prove, Pending
  <1>2. o \in Observation
    BY DEF Prove, Observation, DesiredState
  <1>3. ObserveIntent(j, n, o, ok)
    BY DEF Prove
  <1> HIDE DEF o
  <1> QED BY <1>1, <1>2, <1>3, ExecObserve

\* ReconcileJob is an observation by an operator.
LEMMA ExecReconcile ==
  ASSUME ExecInv, NEW j \in JobIds, NEW n \in 1..Len(jobs[j].intents),
         NEW state \in {"exists", "unknown"}, NEW ok \in BOOLEAN, Reconcile(j, n, state, ok)
  PROVE  ExecInv'
  <1> DEFINE o == [state |-> state, sameIdentity |-> TRUE, timely |-> TRUE]
  <1>1. jobs[j].status # "none"
    BY DEF Reconcile, Terminal, Clean
  <1>2. o \in Observation
    BY DEF Observation
  <1>3. ObserveIntent(j, n, o, ok)
    BY DEF Reconcile
  <1> HIDE DEF o
  <1> QED BY <1>1, <1>2, <1>3, ExecObserve

\* Stop, Acknowledge and ReviewCommands change no status and no intent.
LEMMA ExecOperator ==
  ASSUME ExecInv, NEW j \in JobIds, NEW ok \in BOOLEAN,
         Stop(j, ok) \/ Acknowledge(j, ok) \/ ReviewCommands(j, ok)
  PROVE  ExecInv'
  <1>1. jobs[j] \in Job
    BY DEF ExecInv, TypeOK
  <1>2. \E r \in Job :
           /\ Write(j, r, ok) /\ r.status = jobs[j].status /\ r.intents = jobs[j].intents
    <2>1. CASE Stop(j, ok)
      <3>1. [jobs[j] EXCEPT !.stop = TRUE] \in Job
        BY <1>1 DEF Job
      <3>2. /\ [jobs[j] EXCEPT !.stop = TRUE].status = jobs[j].status
            /\ [jobs[j] EXCEPT !.stop = TRUE].intents = jobs[j].intents
        BY <1>1 DEF Job
      <3> QED BY <2>1, <3>1, <3>2 DEF Stop
    <2>2. CASE Acknowledge(j, ok)
      <3>1. [jobs[j] EXCEPT !.reviewed = TRUE] \in Job
        BY <1>1 DEF Job
      <3>2. /\ [jobs[j] EXCEPT !.reviewed = TRUE].status = jobs[j].status
            /\ [jobs[j] EXCEPT !.reviewed = TRUE].intents = jobs[j].intents
        BY <1>1 DEF Job
      <3> QED BY <2>2, <3>1, <3>2 DEF Acknowledge
    <2>3. CASE ReviewCommands(j, ok)
      BY <2>3, <1>1, OutcomeType DEF ReviewCommands, Outcomes
    <2> QED BY <2>1, <2>2, <2>3
  <1>3. jobs[j].status # "none"
    BY DEF Stop, Acknowledge, ReviewCommands, Pending, Terminal, Clean
  <1>4. UNCHANGED <<archive, active, manual, manualJob, closed, up, lease, pc, res,
                    nextId, restarts, history>>
    BY DEF Stop, Acknowledge, ReviewCommands
  <1>5. proven' \subseteq JobIds \X Nat
    BY <1>4 DEF history, ExecInv, TypeOK
  <1> QED BY <1>2, <1>3, <1>4, <1>5, RecordChanges DEF history

\* The first command of a manual handler takes the reserved slot.
LEMMA ExecManualBegin ==
  ASSUME ExecInv, NEW ok \in BOOLEAN, ManualBegin(ok)
  PROVE  ExecInv'
  <1> DEFINE r == NewJob(NoKey, "running")
  <1>t. TypeOK
    BY DEF ExecInv
  <1>1. /\ nextId \in JobIds /\ nextId' = nextId + 1
        /\ manual /\ manualJob = 0 /\ active = 0 /\ up
    BY <1>t DEF ManualBegin, ExecInv, OneExecutor, TypeOK, JobIds
  <1>2. r \in Job /\ r.status \in Pending /\ r.intents = <<>>
    BY NewJobType DEF Pending
  <1> HIDE DEF r
  <1>3. /\ disk' \in {disk, [disk EXCEPT ![nextId] = r]}
        /\ storageErr' = (storageErr \/ ~ok)
        /\ jobs' = IF ok THEN [jobs EXCEPT ![nextId] = r] ELSE jobs
        /\ manualJob' = (IF ok THEN nextId ELSE 0)
        /\ pc' = IF ok THEN [pc EXCEPT ![nextId] = "body"] ELSE pc
    BY DEF ManualBegin, SaveOrLatch, Save, r
  <1>4. UNCHANGED <<archive, active, manual, closed, up, lease, res, restarts, history>>
    BY DEF ManualBegin
  <1>5. /\ jobs' \in [JobIds -> Job] /\ disk' \in [JobIds -> Job] /\ storageErr' \in BOOLEAN
        /\ pc' \in [JobIds -> Places] /\ manualJob' \in JobIds \cup {0}
        /\ \A k \in JobIds : k # nextId => jobs'[k] = jobs[k] /\ disk'[k] = disk[k] /\ pc'[k] = pc[k]
    BY <1>t, <1>1, <1>2, <1>3 DEF TypeOK, Places
  <1>6. nextId' \in 1..(MaxSubmit + 1)
    BY <1>1, ConstantsAssumption DEF JobIds
  <1>7. TypeOK'
    BY <1>t, <1>4, <1>5, <1>6 DEF TypeOK, history
  <1>8. Fresh'
    <2> SUFFICES ASSUME NEW j \in JobIds, j >= nextId'
                 PROVE  jobs'[j] = NoJob /\ disk'[j] = NoJob /\ j \notin evicted'
      BY DEF Fresh
    <2>1. j >= nextId /\ j # nextId
      BY <1>1 DEF JobIds
    <2> QED BY <1>4, <1>5, <2>1 DEF ExecInv, Fresh, history
  <1>9. \A j \in JobIds : pc[j] = "idle"
    BY <1>1 DEF ExecInv, OneExecutor, JobIds
  <1>10. OneExecutor'
    BY <1>1, <1>3, <1>4, <1>5, <1>9 DEF OneExecutor
  <1>11. ASSUME NEW j \in JobIds PROVE AtWork(j)'
    <2>1. CASE ok /\ j = nextId
      <3>1. pc'[j] = "body" /\ jobs'[j] = r /\ up'
        BY <1>t, <1>1, <1>3, <1>4, <2>1 DEF TypeOK
      <3> QED BY <3>1, <1>2 DEF AtWork
    <2>2. CASE ~(ok /\ j = nextId)
      <3>1. pc'[j] = "idle" /\ jobs'[j] = jobs[j]
        BY <1>t, <1>1, <1>3, <1>5, <1>9, <2>2 DEF TypeOK
      <3> QED BY <3>1, <1>9 DEF ExecInv, AtWork
    <2> QED BY <2>1, <2>2
  <1> QED BY <1>1, <1>3, <1>4, <1>7, <1>8, <1>10, <1>11 DEF ExecInv

\* The end of a manual handler's job.
LEMMA ExecManualFinish ==
  ASSUME ExecInv, NEW failed \in BOOLEAN, NEW ok \in BOOLEAN, ManualFinish(failed, ok)
  PROVE  ExecInv'
  <1> DEFINE j == manualJob
             s == IF failed \/ ~AllResolved(jobs[j]) THEN "interrupted" ELSE "succeeded"
             r == Ended(jobs[j], s)
  <1>t. TypeOK
    BY DEF ExecInv
  <1>1. j \in JobIds /\ pc[j] = "body" /\ jobs[j] \in Job /\ up
    BY <1>t, StatusAtWork DEF ManualFinish, TypeOK
  <1>2. r \in Job /\ r.status \notin Pending
    BY <1>1, EndedType DEF Terminal, Clean, Pending
  <1>3. /\ Write(j, r, ok) /\ pc' = [pc EXCEPT ![j] = "idle"]
        /\ UNCHANGED <<archive, active, manual, manualJob, closed, up, lease, res,
                       nextId, restarts, history>>
    BY DEF ManualFinish
  <1> HIDE DEF r, j
  <1>4. /\ jobs' \in [JobIds -> Job] /\ disk' \in [JobIds -> Job] /\ storageErr' \in BOOLEAN
        /\ jobs'[j] = r
        /\ \A k \in JobIds : k # j => jobs'[k] = jobs[k] /\ disk'[k] = disk[k]
    BY <1>t, <1>1, <1>2, <1>3, WriteStep
  <1>5. pc' \in [JobIds -> Places] /\ pc'[j] = "idle" /\ \A k \in JobIds : k # j => pc'[k] = pc[k]
    BY <1>t, <1>1, <1>3 DEF TypeOK, Places
  <1>6. TypeOK'
    BY <1>t, <1>3, <1>4, <1>5 DEF TypeOK, history
  <1>7. j < nextId
    BY <1>t, <1>1, NoJobType DEF ExecInv, Fresh, AtWork, Pending, TypeOK, JobIds
  <1>8. Fresh'
    BY <1>t, <1>3, <1>4, <1>7 DEF ExecInv, Fresh, TypeOK, JobIds, history
  <1>9. OneExecutor'
    BY <1>3, <1>5 DEF ExecInv, OneExecutor
  <1>10. ASSUME NEW k \in JobIds PROVE AtWork(k)'
    <2>1. CASE k = j
      BY <1>2, <1>4, <1>5, <2>1 DEF AtWork
    <2>2. CASE k # j
      BY <1>3, <1>4, <1>5, <2>2 DEF ExecInv, AtWork
    <2> QED BY <2>1, <2>2
  <1> QED BY <1>3, <1>6, <1>8, <1>9, <1>10 DEF ExecInv

\* The steps that change only reservation, shutdown or lease.
LEMMA ExecControl ==
  ASSUME ExecInv, ReserveManual \/ ManualRelease \/ Close \/ LoseLease
  PROVE  ExecInv'
  <1>t. TypeOK
    BY DEF ExecInv
  <1>1. UNCHANGED <<journal, active, storageErr, up, pc, res, nextId, restarts, history>>
    BY DEF ReserveManual, ManualRelease, Close, LoseLease
  <1>2. /\ manual' \in BOOLEAN /\ manualJob' \in JobIds \cup {0}
        /\ closed' \in BOOLEAN /\ lease' \in BOOLEAN
    BY <1>t DEF ReserveManual, ManualRelease, Close, LoseLease, TypeOK
  <1>3. TypeOK'
    BY <1>t, <1>1, <1>2 DEF TypeOK, journal, history
  <1>4. Fresh'
    BY <1>1 DEF ExecInv, Fresh, journal, history
  <1>5. ASSUME NEW k \in JobIds PROVE AtWork(k)'
    BY <1>1 DEF ExecInv, AtWork, journal
  <1>6. OneExecutor' /\ (manual' \/ active' # 0 => up') /\ (~manual' => manualJob' = 0)
    <2>1. CASE ReserveManual
      BY <2>1, <1>1 DEF ReserveManual, available, busy, ExecInv, OneExecutor
    <2>2. CASE ManualRelease
      BY <2>2, <1>1 DEF ManualRelease, ExecInv, OneExecutor, JobIds
    <2>3. CASE Close
      BY <2>3 DEF Close, ExecInv, OneExecutor
    <2>4. CASE LoseLease
      BY <2>4 DEF LoseLease, ExecInv, OneExecutor
    <2> QED BY <2>1, <2>2, <2>3, <2>4
  <1> QED BY <1>3, <1>4, <1>5, <1>6 DEF ExecInv

\* A process that ends takes its executor with it.
LEMMA ExecCrash == ASSUME ExecInv, Crash PROVE ExecInv'
  <1>t. TypeOK
    BY DEF ExecInv
  <1>1. /\ jobs' \in [JobIds -> Job] /\ pc' \in [JobIds -> Places] /\ res' \in [JobIds -> Results]
        /\ \A j \in JobIds : jobs'[j] = NoJob /\ pc'[j] = "idle"
    BY NoJobType DEF Crash, Places, Results
  <1>2. restarts' \in 0..MaxRestarts
    BY <1>t, ConstantsAssumption DEF Crash, TypeOK
  <1>3. TypeOK'
    BY <1>t, <1>1, <1>2 DEF Crash, TypeOK, history
  <1>4. Fresh'
    BY <1>1 DEF Crash, ExecInv, Fresh, history
  <1>5. ASSUME NEW j \in JobIds PROVE AtWork(j)'
    BY <1>1, NoJobType DEF AtWork, Pending
  <1> QED BY <1>1, <1>3, <1>4, <1>5 DEF Crash, ExecInv, OneExecutor

\* OpenCluster leaves no pending record behind.
LEMMA ExecOpen == ASSUME ExecInv, Open PROVE ExecInv'
  <1>t. TypeOK
    BY DEF ExecInv
  <1>1. \A j \in JobIds : Recovered(disk[j]) \in Job /\ Preserved(archive[j], disk[j]) \in Job
    BY <1>t, RecoveredType DEF TypeOK, Preserved
  <1>2. /\ disk' \in [JobIds -> Job] /\ jobs' \in [JobIds -> Job] /\ archive' \in [JobIds -> Job]
        /\ \A j \in JobIds : jobs'[j] = Recovered(disk[j]) /\ disk'[j] = Recovered(disk[j])
    BY <1>1 DEF Open
  <1>3. TypeOK'
    BY <1>t, <1>2 DEF Open, TypeOK
  <1>4. Recovered(NoJob) = NoJob
    BY DEF Recovered, NoJob, NewJob, Pending
  <1>5. Fresh'
    BY <1>2, <1>4 DEF Open, ExecInv, Fresh
  <1>6. \A j \in JobIds : pc[j] = "idle"
    BY DEF Open, ExecInv, AtWork
  <1>7. ASSUME NEW j \in JobIds PROVE AtWork(j)'
    <2>1. jobs'[j].status \notin Pending
      BY <1>t, <1>2, RecoveredType DEF TypeOK, Pending
    <2> QED BY <1>6, <2>1 DEF Open, AtWork
  <1> QED BY <1>3, <1>5, <1>6, <1>7 DEF Open, ExecInv, OneExecutor

\* Stuttering.
LEMMA ExecStutter == ASSUME ExecInv, UNCHANGED vars PROVE ExecInv'
  BY DEF ExecInv, TypeOK, Fresh, OneExecutor, AtWork, vars, journal, control, history

\* Every step keeps ExecInv.
LEMMA ExecNext == ASSUME ExecInv, [Next]_vars PROVE ExecInv'
  <1>1. ASSUME NEW ok \in BOOLEAN, Admit(ok) PROVE ExecInv'
    BY <1>1, ExecSubmit, ExecManualBegin, ExecManualFinish, ExecControl DEF Admit
  <1>2. ASSUME NEW j \in JobIds, NEW ok \in BOOLEAN, Execute(j, ok) PROVE ExecInv'
    <2>1. CASE BeginCommand(j, ok)
      BY <2>1, ExecBeginIntent DEF BeginCommand, Actions
    <2>2. ASSUME NEW a \in MachineActions, BeginMachine(j, a, ok) PROVE ExecInv'
      <3>1. a \in Actions
        BY ConstantsAssumption DEF Actions
      <3> QED BY <2>2, <3>1, ExecBeginIntent DEF BeginMachine
    <2> QED BY <1>2, <2>1, <2>2, ExecRunStart, ExecMoves, ExecComplete, ExecLog,
               ExecCallReceipt, ExecProve DEF Execute
  <1>3. ASSUME NEW j \in JobIds, NEW ok \in BOOLEAN, Operate(j, ok) PROVE ExecInv'
    BY <1>3, ExecOperator, ExecReconcile DEF Operate
  <1>4. CASE Process
    BY <1>4, ExecControl, ExecCrash, ExecOpen DEF Process
  <1>5. CASE UNCHANGED vars
    BY <1>5, ExecStutter
  <1> QED BY <1>1, <1>2, <1>3, <1>4, <1>5 DEF Next

-----------------------------------------------------------------------------
(* Proved records. *)

\* What a record may claim about the intents P that were proved.
Honest(P, j, r) ==
    /\ \A n \in 1..Len(r.intents) :
          /\ Resolved(r.intents[n]) => <<j, n>> \in P
          /\ r.intents[n].outcome = Failed => CommandReceipt(r.intents[n])
          /\ r.status \in Clean => <<j, n>> \in P
    /\ r.outcome = Succeeded => AllResolved(r)

ProofInv ==
    /\ ExecInv
    /\ \A j \in JobIds : Honest(proven, j, jobs[j]) /\ Honest(proven, j, disk[j])

\* A record stays honest when more intents are proved.
LEMMA HonestGrows ==
  ASSUME NEW P, NEW Q, P \subseteq Q, NEW j, NEW r, Honest(P, j, r)
  PROVE  Honest(Q, j, r)
  BY DEF Honest

\* A record without intents is honest.
LEMMA HonestNew ==
  ASSUME NEW P, NEW j, NEW r \in Job, r.intents = <<>> PROVE Honest(P, j, r)
  BY DEF Honest, AllResolved

\* The intents stay; the status is not clean or was so before, and the
\* outcome is not "succeeded" or was so before.
LEMMA HonestMarked ==
  ASSUME NEW P, NEW j, NEW r \in Job, NEW s \in Job, Honest(P, j, r),
         s.intents = r.intents,
         s.status \in Clean => r.status \in Clean,
         s.outcome = Succeeded => r.outcome = Succeeded
  PROVE  Honest(P, j, s)
  BY DEF Honest, AllResolved

\* A job may end with any status if all its intents are resolved, and as
\* "interrupted" in any case.
LEMMA HonestEnded ==
  ASSUME NEW P, NEW j, NEW r \in Job, NEW s \in Terminal, Honest(P, j, r),
         s # "interrupted" => AllResolved(r)
  PROVE  Honest(P, j, Ended(r, s))
  <1>1. /\ Ended(r, s) \in Job /\ Ended(r, s).status = s /\ Ended(r, s).intents = r.intents
    BY EndedType
  <1>2. Ended(r, s).outcome = Succeeded => r.outcome = Succeeded
    BY DEF Ended, Job, Succeeded, Unknown
  <1>3. s \in Clean => \A n \in 1..Len(r.intents) : <<j, n>> \in P
    BY DEF Honest, AllResolved, Clean
  <1> QED BY <1>1, <1>2, <1>3 DEF Honest, AllResolved

\* What OpenCluster makes of an honest record is honest.
LEMMA HonestRecovered ==
  ASSUME NEW P, NEW j, NEW r \in Job, Honest(P, j, r)
  PROVE  Honest(P, j, Recovered(r))
  <1> DEFINE e == IF r.status \in Pending THEN Ended(r, "interrupted") ELSE r
  <1>1. e \in Job /\ Honest(P, j, e)
    BY EndedType, HonestEnded DEF Terminal
  <1>2. Recovered(r) = IF r.legacy THEN WithOutcome(e, RequiresReview) ELSE e
    BY DEF Recovered
  <1> HIDE DEF e
  <1>3. Honest(P, j, WithOutcome(e, RequiresReview))
    BY <1>1, OutcomeType, HonestMarked DEF Outcomes, RequiresReview, Succeeded
  <1> QED BY <1>1, <1>2, <1>3

\* A new intent is open and the outcome says so.
LEMMA HonestAppended ==
  ASSUME NEW P, NEW j, NEW r \in Job, NEW a \in Actions, Honest(P, j, r), r.status \notin Clean
  PROVE  Honest(P, j, Appended(r, a))
  <1> DEFINE s == Appended(r, a)
  <1>1. /\ s.status = r.status /\ s.outcome = Unknown
        /\ Len(s.intents) = Len(r.intents) + 1 /\ Len(r.intents) \in Nat
        /\ s.intents[Len(r.intents) + 1] = NewIntent(a)
        /\ \A n \in 1..Len(r.intents) : s.intents[n] = r.intents[n]
    BY AppendedType, IntentsType
  <1>2. ~Resolved(NewIntent(a)) /\ NewIntent(a).outcome # Failed
    BY DEF NewIntent, Resolved, CommandReceipt, Unknown, Succeeded, Failed
  <1> HIDE DEF s
  <1>3. ASSUME NEW n \in 1..Len(s.intents)
        PROVE  /\ Resolved(s.intents[n]) => <<j, n>> \in P
               /\ s.intents[n].outcome = Failed => CommandReceipt(s.intents[n])
    <2>1. CASE n \in 1..Len(r.intents)
      BY <1>1, <2>1 DEF Honest
    <2>2. CASE n = Len(r.intents) + 1
      BY <1>1, <1>2, <2>2
    <2> QED BY <1>1, <2>1, <2>2
  <1> QED BY <1>1, <1>3 DEF Honest, s, Unknown, Succeeded

\* A receipt proves the last intent.
LEMMA HonestReceipted ==
  ASSUME NEW P, NEW j, NEW r \in Job, NEW receipt \in {"acknowledged", "rejected"},
         Honest(P, j, r), r.status \notin Clean,
         Len(r.intents) >= 1, r.intents[Len(r.intents)].action = "command"
  PROVE  Honest(P \cup {<<j, Len(r.intents)>>}, j, Receipted(r, receipt))
  <1> DEFINE t == Receipted(r, receipt)
             Q == P \cup {<<j, Len(r.intents)>>}
  <1>1. /\ t \in Job /\ t.status = r.status /\ Len(t.intents) = Len(r.intents)
        /\ t.outcome = Succeeded => AllResolved(t)
        /\ Resolved(t.intents[Len(r.intents)])
        /\ t.intents[Len(r.intents)].action = "command"
        /\ \A m \in 1..Len(r.intents) : m # Len(r.intents) => t.intents[m] = r.intents[m]
    BY ReceiptedType
  <1> HIDE DEF t
  <1>2. ASSUME NEW n \in 1..Len(t.intents)
        PROVE  /\ Resolved(t.intents[n]) => <<j, n>> \in Q
               /\ t.intents[n].outcome = Failed => CommandReceipt(t.intents[n])
    <2>1. CASE n = Len(r.intents)
      BY <1>1, <2>1 DEF Resolved, Failed, Succeeded
    <2>2. CASE n # Len(r.intents)
      BY <1>1, <2>2 DEF Honest
    <2> QED BY <2>1, <2>2
  <1> QED BY <1>1, <1>2 DEF Honest, t

\* An observation proves its intent if it resolves it.
LEMMA HonestObserved ==
  ASSUME NEW P, NEW j, NEW r \in Job, NEW n \in 1..Len(r.intents), NEW o \in Observation,
         Honest(P, j, r),
         NEW Q, P \subseteq Q, Resolved(Observed(r, n, o).intents[n]) => <<j, n>> \in Q
  PROVE  Honest(Q, j, Observed(r, n, o))
  <1> DEFINE t == Observed(r, n, o)
  <1>1. /\ t \in Job /\ t.status = r.status /\ Len(t.intents) = Len(r.intents)
        /\ t.intents[n].outcome # Failed
        /\ t.outcome = Succeeded =>
              \A m \in 1..Len(t.intents) : t.intents[m].outcome \notin {Unknown, RequiresReview}
        /\ \A m \in 1..Len(r.intents) : m # n => t.intents[m] = r.intents[m]
    BY ObservedType
  <1> HIDE DEF t
  <1>2. ASSUME NEW m \in 1..Len(t.intents)
        PROVE  /\ Resolved(t.intents[m]) => <<j, m>> \in Q
               /\ t.intents[m].outcome = Failed => CommandReceipt(t.intents[m])
               /\ t.status \in Clean => <<j, m>> \in Q
    <2>1. CASE m = n
      BY <1>1, <2>1 DEF Honest, t
    <2>2. CASE m # n
      BY <1>1, <2>2 DEF Honest
    <2> QED BY <2>1, <2>2
  <1>3. \A m \in 1..Len(t.intents) : t.intents[m].outcome \in Outcomes
    BY <1>1, IntentsType DEF Intent
  <1>4. t.outcome = Succeeded => AllResolved(t)
    BY <1>1, <1>2, <1>3 DEF AllResolved, Resolved, Outcomes
  <1> QED BY <1>2, <1>4 DEF Honest, t

\* A write of an honest record.
LEMMA HonestWrite ==
  ASSUME ProofInv, ExecInv', NEW j \in JobIds, NEW r \in Job, NEW ok \in BOOLEAN,
         Write(j, r, ok), proven \subseteq proven', Honest(proven', j, r)
  PROVE  ProofInv'
  <1>1. /\ jobs'[j] = r /\ disk'[j] \in {disk[j], r}
        /\ \A k \in JobIds : k # j => jobs'[k] = jobs[k] /\ disk'[k] = disk[k]
    BY WriteStep DEF ProofInv, ExecInv
  <1>2. ASSUME NEW k \in JobIds
        PROVE  Honest(proven', k, jobs'[k]) /\ Honest(proven', k, disk'[k])
    <2>1. Honest(proven', k, jobs[k]) /\ Honest(proven', k, disk[k])
      BY HonestGrows DEF ProofInv
    <2> QED BY <1>1, <2>1
  <1> QED BY <1>2 DEF ProofInv

\* Steps that touch neither records nor proofs.
LEMMA HonestUnchanged ==
  ASSUME ProofInv, ExecInv', UNCHANGED <<jobs, disk, proven>>
  PROVE  ProofInv'
  BY DEF ProofInv

\* Neither an empty journal nor a legacy record claims anything.
LEMMA HonestInit == Init => ProofInv
  <1> SUFFICES ASSUME Init PROVE ProofInv
    OBVIOUS
  <1>1. ExecInv
    BY ExecInit
  <1>2. ASSUME NEW j \in JobIds PROVE Honest(proven, j, jobs[j])
    BY NoJobType, HonestNew DEF Init
  <1>3. ASSUME NEW r \in LegacyJobs PROVE Honest(proven, 1, r)
    <2>1. PICK s \in {"running", "interrupted"}, i \in {<<>>, <<NewIntent("create")>>} :
             r = [NewJob(NoKey, s) EXCEPT !.legacy = TRUE, !.outcome = Unknown, !.intents = i]
      BY DEF LegacyJobs
    <2>2. r.intents = i /\ r.outcome = Unknown /\ r.status \notin Clean
      BY <2>1 DEF NewJob, Clean
    <2>3. ASSUME NEW n \in 1..Len(i) PROVE i[n] = NewIntent("create")
      OBVIOUS
    <2>4. ~Resolved(NewIntent("create")) /\ NewIntent("create").outcome # Failed
      BY DEF NewIntent, Resolved, CommandReceipt, Unknown, Succeeded, Failed
    <2> QED BY <2>2, <2>3, <2>4 DEF Honest, Unknown, Succeeded
  <1>4. ASSUME NEW j \in JobIds PROVE Honest(proven, j, disk[j])
    <2>1. CASE disk[j] = NoJob
      BY <2>1, NoJobType, HonestNew
    <2>2. CASE j = 1 /\ disk[j] \in LegacyJobs
      BY <2>2, <1>3
    <2> QED BY <2>1, <2>2 DEF Init
  <1> QED BY <1>1, <1>2, <1>4 DEF ProofInv

\* Submit and the first manual command write fresh records.
LEMMA HonestSubmit ==
  ASSUME ProofInv, ExecInv', NEW k \in Keys \cup {NoKey}, NEW ok \in BOOLEAN,
         Submit(k, ok) \/ ManualBegin(ok)
  PROVE  ProofInv'
  <1>t. TypeOK /\ TypeOK'
    BY DEF ProofInv, ExecInv
  <1>1. ASSUME NEW j \in JobIds
        PROVE  /\ jobs'[j] = jobs[j] \/ (jobs'[j] \in Job /\ jobs'[j].intents = <<>>)
               /\ disk'[j] = disk[j] \/ (disk'[j] \in Job /\ disk'[j].intents = <<>>)
    <2>1. CASE Submit(k, ok)
      <3> DEFINE r == NewJob(k, "queued")
      <3>1. r \in Job /\ r.intents = <<>>
        BY NewJobType DEF Pending
      <3> HIDE DEF r
      <3>2. /\ disk' \in {Without(disk, Evictable), [Without(disk, Evictable) EXCEPT ![nextId] = r]}
            /\ jobs' \in {Without(jobs, Evictable), [Without(jobs, Evictable) EXCEPT ![nextId] = r]}
        BY <2>1 DEF Submit, r
      <3>3. /\ Without(disk, Evictable)[j] \in {disk[j], NoJob}
            /\ Without(jobs, Evictable)[j] \in {jobs[j], NoJob}
        BY DEF Without
      <3>4. disk'[j] \in {disk[j], NoJob, r} /\ jobs'[j] \in {jobs[j], NoJob, r}
        BY <3>2, <3>3 DEF Without
      <3> QED BY <3>1, <3>4, NoJobType
    <2>2. CASE ManualBegin(ok)
      <3> DEFINE r == NewJob(NoKey, "running")
      <3>1. r \in Job /\ r.intents = <<>>
        BY NewJobType DEF Pending
      <3> HIDE DEF r
      <3>2. /\ disk' \in {disk, [disk EXCEPT ![nextId] = r]}
            /\ jobs' \in {jobs, [jobs EXCEPT ![nextId] = r]}
        BY <2>2 DEF ManualBegin, SaveOrLatch, Save, r
      <3>3. disk'[j] \in {disk[j], r} /\ jobs'[j] \in {jobs[j], r}
        BY <1>t, <3>2 DEF TypeOK
      <3> QED BY <3>1, <3>3
    <2> QED BY <2>1, <2>2
  <1>2. proven' = proven
    BY DEF Submit, ManualBegin, history
  <1>3. ASSUME NEW j \in JobIds
        PROVE  Honest(proven', j, jobs'[j]) /\ Honest(proven', j, disk'[j])
    BY <1>1, <1>2, HonestNew DEF ProofInv
  <1> QED BY <1>3 DEF ProofInv

\* A manual job with an open intent ends interrupted.
LEMMA HonestManualFinish ==
  ASSUME ProofInv, ExecInv', NEW failed \in BOOLEAN, NEW ok \in BOOLEAN, ManualFinish(failed, ok)
  PROVE  ProofInv'
  <1> DEFINE j == manualJob
             s == IF failed \/ ~AllResolved(jobs[j]) THEN "interrupted" ELSE "succeeded"
  <1>1. j \in JobIds /\ jobs[j] \in Job /\ Honest(proven, j, jobs[j])
    BY DEF ManualFinish, ProofInv, ExecInv, TypeOK
  <1>2. s \in Terminal /\ (s # "interrupted" => AllResolved(jobs[j]))
    BY DEF Terminal, Clean
  <1>3. Write(j, Ended(jobs[j], s), ok) /\ proven' = proven
    BY DEF ManualFinish, history
  <1> HIDE DEF j, s
  <1>4. Ended(jobs[j], s) \in Job /\ Honest(proven, j, Ended(jobs[j], s))
    BY <1>1, <1>2, EndedType, HonestEnded
  <1> QED BY <1>1, <1>3, <1>4, HonestWrite

\* A job with an open intent ends interrupted, saved or not.
LEMMA HonestComplete ==
  ASSUME ProofInv, ExecInv', NEW j \in JobIds, NEW ok \in BOOLEAN, Complete(j, ok)
  PROVE  ProofInv'
  <1> DEFINE s == FinalStatus(j)
             r == Ended(jobs[j], s)
             m == [r EXCEPT !.status = "interrupted"]
  <1>t. TypeOK
    BY DEF ProofInv, ExecInv
  <1>1. jobs[j] \in Job /\ Honest(proven, j, jobs[j])
    BY <1>t DEF ProofInv, TypeOK
  <1>2. s \in Terminal /\ (s # "interrupted" => AllResolved(jobs[j]))
    BY DEF FinalStatus, Terminal, Clean
  <1> HIDE DEF s
  <1>3. r \in Job /\ Honest(proven, j, r)
    BY <1>1, <1>2, EndedType, HonestEnded
  <1>4. disk' \in {disk, [disk EXCEPT ![j] = r]} /\ jobs' = [jobs EXCEPT ![j] = IF ok THEN r ELSE m]
    BY DEF Complete, SaveOrLatch, Save, s
  <1> HIDE DEF r
  <1>5. /\ m \in Job /\ m.intents = r.intents /\ m.outcome = r.outcome /\ m.status \notin Clean
    BY <1>3 DEF Job, Terminal, Clean
  <1> HIDE DEF m
  <1>6. Honest(proven, j, m)
    BY <1>3, <1>5, HonestMarked
  <1>7. ASSUME NEW k \in JobIds
        PROVE  /\ \/ jobs'[k] = jobs[k]
                  \/ k = j /\ jobs'[k] = r
                  \/ k = j /\ jobs'[k] = m
               /\ disk'[k] = disk[k] \/ (k = j /\ disk'[k] = r)
    BY <1>t, <1>4 DEF TypeOK
  <1>8. proven' = proven
    BY DEF Complete, history
  <1>9. ASSUME NEW k \in JobIds
        PROVE  Honest(proven', k, jobs'[k]) /\ Honest(proven', k, disk'[k])
    <2>1. Honest(proven, k, jobs[k]) /\ Honest(proven, k, disk[k])
      BY DEF ProofInv
    <2>2. Honest(proven, k, jobs'[k])
      <3>1. CASE jobs'[k] = jobs[k]
        BY <2>1, <3>1
      <3>2. CASE k = j /\ jobs'[k] = r
        BY <1>3, <3>2
      <3>3. CASE k = j /\ jobs'[k] = m
        BY <1>6, <3>3
      <3>4. \/ jobs'[k] = jobs[k]
            \/ k = j /\ jobs'[k] = r
            \/ k = j /\ jobs'[k] = m
        BY <1>7
      <3> QED BY <3>1, <3>2, <3>3, <3>4
    <2>3. Honest(proven, k, disk'[k])
      <3>1. CASE disk'[k] = disk[k]
        BY <2>1, <3>1
      <3>2. CASE k = j /\ disk'[k] = r
        BY <1>3, <3>2
      <3> QED BY <1>7, <3>1, <3>2
    <2> QED BY <1>8, <2>2, <2>3
  <1> QED BY <1>9 DEF ProofInv

\* Writes that leave the intents alone and claim nothing new.
LEMMA HonestMarks ==
  ASSUME ProofInv, ExecInv', NEW j \in JobIds, NEW ok \in BOOLEAN,
         \/ RunStart(j, ok) \/ Log(j, ok) \/ Stop(j, ok) \/ Acknowledge(j, ok)
         \/ ReviewCommands(j, ok)
  PROVE  ProofInv'
  <1>1. jobs[j] \in Job /\ Honest(proven, j, jobs[j])
    BY DEF ProofInv, ExecInv, TypeOK
  <1>2. \E r \in Job : /\ Write(j, r, ok)
                       /\ r.intents = jobs[j].intents
                       /\ r.status \in Clean => jobs[j].status \in Clean
                       /\ r.outcome = Succeeded => jobs[j].outcome = Succeeded
    <2>1. CASE RunStart(j, ok)
      <3> DEFINE r == [jobs[j] EXCEPT !.status = "running"]
      <3>1. r \in Job /\ r.intents = jobs[j].intents /\ r.status = "running" /\ r.outcome = jobs[j].outcome
        BY <1>1 DEF Job, Pending
      <3> QED BY <2>1, <3>1 DEF RunStart, Clean
    <2>2. CASE Log(j, ok)
      BY <1>1, <2>2 DEF Log
    <2>3. CASE Stop(j, ok)
      <3> DEFINE r == [jobs[j] EXCEPT !.stop = TRUE]
      <3>1. r \in Job /\ r.intents = jobs[j].intents /\ r.status = jobs[j].status /\ r.outcome = jobs[j].outcome
        BY <1>1 DEF Job
      <3> QED BY <2>3, <3>1 DEF Stop
    <2>4. CASE Acknowledge(j, ok)
      <3> DEFINE r == [jobs[j] EXCEPT !.reviewed = TRUE]
      <3>1. r \in Job /\ r.intents = jobs[j].intents /\ r.status = jobs[j].status /\ r.outcome = jobs[j].outcome
        BY <1>1 DEF Job
      <3> QED BY <2>4, <3>1 DEF Acknowledge
    <2>5. CASE ReviewCommands(j, ok)
      BY <1>1, <2>5, OutcomeType DEF ReviewCommands, Outcomes, RequiresReview, Succeeded
    <2> QED BY <2>1, <2>2, <2>3, <2>4, <2>5
  <1>3. proven' = proven
    BY DEF RunStart, Log, Stop, Acknowledge, ReviewCommands, history
  <1> QED BY <1>1, <1>2, <1>3, HonestMarked, HonestWrite

\* BeginIntent.
LEMMA HonestBegin ==
  ASSUME ProofInv, ExecInv', NEW j \in JobIds, NEW a \in Actions, NEW ok \in BOOLEAN,
         BeginIntent(j, a, ok)
  PROVE  ProofInv'
  <1>1. jobs[j] \in Job /\ Honest(proven, j, jobs[j]) /\ jobs[j].status \notin Clean
    BY StatusAtWork DEF BeginIntent, ProofInv, Pending, Clean
  <1>2. Write(j, Appended(jobs[j], a), ok) /\ proven' = proven
    BY DEF BeginIntent, history
  <1> QED BY <1>1, <1>2, AppendedType, HonestAppended, HonestWrite

\* The receipt of RecordMutation.
LEMMA HonestReceipt ==
  ASSUME ProofInv, ExecInv', NEW j \in JobIds, NEW receipt \in {"acknowledged", "rejected"},
         NEW ok \in BOOLEAN, CallReceipt(j, receipt, ok)
  PROVE  ProofInv'
  <1>1. /\ jobs[j] \in Job /\ Honest(proven, j, jobs[j]) /\ jobs[j].status \notin Clean
        /\ Len(jobs[j].intents) >= 1 /\ jobs[j].intents[Len(jobs[j].intents)].action = "command"
    BY StatusAtWork DEF CallReceipt, ProofInv, ExecInv, AtWork, Pending, Clean
  <1>2. /\ Write(j, Receipted(jobs[j], receipt), ok)
        /\ proven' = proven \cup {<<j, Len(jobs[j].intents)>>}
    BY DEF CallReceipt
  <1>3. Receipted(jobs[j], receipt) \in Job
    BY <1>1, ReceiptedType
  <1>4. Honest(proven', j, Receipted(jobs[j], receipt))
    BY <1>1, <1>2, HonestReceipted
  <1> QED BY <1>2, <1>3, <1>4, HonestWrite

\* Manager.ObserveIntent.
LEMMA HonestObserve ==
  ASSUME ProofInv, ExecInv', NEW j \in JobIds, NEW n \in 1..Len(jobs[j].intents),
         NEW o \in Observation, NEW ok \in BOOLEAN, ObserveIntent(j, n, o, ok)
  PROVE  ProofInv'
  <1>1. jobs[j] \in Job /\ Honest(proven, j, jobs[j])
    BY DEF ProofInv, ExecInv, TypeOK
  <1>2. /\ Write(j, Observed(jobs[j], n, o), ok)
        /\ proven \subseteq proven'
        /\ Resolved(Observed(jobs[j], n, o).intents[n]) => <<j, n>> \in proven'
    BY DEF ObserveIntent
  <1>3. Observed(jobs[j], n, o) \in Job
    BY <1>1, ObservedType
  <1>4. Honest(proven', j, Observed(jobs[j], n, o))
    BY <1>1, <1>2, HonestObserved
  <1> QED BY <1>2, <1>3, <1>4, HonestWrite

\* The end of a process and the start of the next.
LEMMA HonestProcess ==
  ASSUME ProofInv, ExecInv', Crash \/ Open
  PROVE  ProofInv'
  <1>t. TypeOK
    BY DEF ProofInv, ExecInv
  <1>1. CASE Crash
    <2>1. \A j \in JobIds : jobs'[j] = NoJob /\ disk'[j] = disk[j]
      BY <1>1 DEF Crash
    <2>2. proven' = proven
      BY <1>1 DEF Crash, history
    <2> QED BY <2>1, <2>2, NoJobType, HonestNew DEF ProofInv
  <1>2. CASE Open
    <2>1. /\ \A j \in JobIds : jobs'[j] = Recovered(disk[j]) /\ disk'[j] = Recovered(disk[j])
          /\ proven' = proven
      BY <1>2 DEF Open
    <2>2. ASSUME NEW j \in JobIds PROVE Honest(proven, j, Recovered(disk[j]))
      BY <1>t, HonestRecovered DEF ProofInv, TypeOK
    <2> QED BY <2>1, <2>2 DEF ProofInv
  <1> QED BY <1>1, <1>2

\* Every step keeps ProofInv.
LEMMA HonestNext == ASSUME ProofInv, [Next]_vars PROVE ProofInv'
  <1>x. ExecInv'
    BY ExecNext DEF ProofInv
  <1>1. ASSUME NEW ok \in BOOLEAN, Admit(ok) PROVE ProofInv'
    <2>1. CASE ReserveManual \/ ManualRelease
      BY <1>x, <2>1, HonestUnchanged DEF ReserveManual, ManualRelease, journal, history
    <2> QED BY <1>1, <1>x, <2>1, HonestSubmit, HonestManualFinish DEF Admit
  <1>2. ASSUME NEW j \in JobIds, NEW ok \in BOOLEAN, Execute(j, ok) PROVE ProofInv'
    <2>1. CASE BeginCommand(j, ok)
      BY <1>x, <2>1, HonestBegin DEF BeginCommand, Actions
    <2>2. ASSUME NEW a \in MachineActions, BeginMachine(j, a, ok) PROVE ProofInv'
      <3>1. a \in Actions
        BY ConstantsAssumption DEF Actions
      <3> QED BY <1>x, <2>2, <3>1, HonestBegin DEF BeginMachine
    <2>3. CASE RunAdmit(j) \/ (\E r \in Results : RunnerReturns(j, r)) \/ Guard(j)
               \/ Call(j) \/ CallUnproved(j)
      BY <1>x, <2>3, HonestUnchanged
      DEF RunAdmit, RunnerReturns, Guard, Call, CallUnproved, journal, history
    <2>4. ASSUME NEW n \in 1..Len(jobs[j].intents), NEW timely \in BOOLEAN, Prove(j, n, timely, ok)
          PROVE  ProofInv'
      <3> DEFINE o == [state        |-> DesiredState(jobs[j].intents[n].action),
                       sameIdentity |-> TRUE, timely |-> timely]
      <3>1. o \in Observation /\ ObserveIntent(j, n, o, ok)
        BY <2>4 DEF Prove, Observation, DesiredState
      <3> HIDE DEF o
      <3> QED BY <1>x, <3>1, HonestObserve
    <2> QED BY <1>2, <1>x, <2>1, <2>2, <2>3, <2>4, HonestMarks, HonestComplete, HonestReceipt
            DEF Execute
  <1>3. ASSUME NEW j \in JobIds, NEW ok \in BOOLEAN, Operate(j, ok) PROVE ProofInv'
    <2>1. ASSUME NEW n \in 1..Len(jobs[j].intents), NEW s \in {"exists", "unknown"},
                 Reconcile(j, n, s, ok)
          PROVE  ProofInv'
      <3> DEFINE o == [state |-> s, sameIdentity |-> TRUE, timely |-> TRUE]
      <3>1. o \in Observation /\ ObserveIntent(j, n, o, ok)
        BY <2>1 DEF Reconcile, Observation
      <3> HIDE DEF o
      <3> QED BY <1>x, <3>1, HonestObserve
    <2> QED BY <1>3, <1>x, <2>1, HonestMarks DEF Operate
  <1>4. CASE Process
    <2>1. CASE Close \/ LoseLease
      BY <1>x, <2>1, HonestUnchanged DEF Close, LoseLease, journal, history
    <2> QED BY <1>4, <1>x, <2>1, HonestProcess DEF Process
  <1>5. CASE UNCHANGED vars
    BY <1>5, <1>x, HonestUnchanged DEF vars, journal, history
  <1> QED BY <1>1, <1>2, <1>3, <1>4, <1>5 DEF Next

-----------------------------------------------------------------------------
(* What a step does to the journal. *)

\* What every rewriting of a held record keeps: it is still the record of the
\* same request, no intent is forgotten, a review is not taken back, an end is
\* final, and an old binary's record stays under review.
Keeps(r, s) ==
    /\ s.key = r.key /\ s.legacy = r.legacy /\ s.status # "none"
    /\ r.reviewed => s.reviewed
    /\ r.status \in Terminal =>
          /\ s.status = r.status
          /\ r.legacy /\ r.outcome = RequiresReview => s.outcome = RequiresReview
    /\ Len(r.intents) <= Len(s.intents)
    /\ \A n \in 1..Len(r.intents) : s.intents[n].action = r.intents[n].action

\* The places between the durable intent of a command and its answer.
Sending == {"guard", "call", "called"}

\* The record of job j becomes r in memory and f, if anything, on disk.
Rewritten(j, r, f, ok) ==
    /\ jobs[j].status # "none"
    /\ Keeps(jobs[j], r) /\ Keeps(jobs[j], f)
    /\ jobs'[j] = r /\ disk'[j] \in {disk[j], f}
    /\ \A k \in JobIds : k # j => jobs'[k] = jobs[k] /\ disk'[k] = disk[k] /\ pc'[k] = pc[k]
    /\ IF ok THEN f = r /\ disk'[j] = r /\ storageErr' = storageErr ELSE storageErr'
    /\ pc'[j] \in Sending => ok \/ (pc[j] \in Sending /\ Len(r.intents) = Len(jobs[j].intents))
    /\ active' \in {active, 0} /\ proven \subseteq proven'
    /\ UNCHANGED <<archive, manual, manualJob, up, nextId, accepted, evicted, dispatched>>

Rewrites == \E j \in JobIds, r \in Job, f \in Job, ok \in BOOLEAN : Rewritten(j, r, f, ok)

\* No record is touched; a call may be sent, a reservation taken or given back.
Quiet ==
    /\ UNCHANGED <<journal, active, storageErr, up, nextId, accepted, evicted, proven>>
    /\ manual' => manualJob' = manualJob /\ (manual \/ available)
    /\ \A d \in dispatched' \ dispatched :
          \E j \in JobIds : pc[j] \in Sending /\ d = <<j, Len(jobs[j].intents)>>
    /\ \A j \in JobIds : pc'[j] \in Sending => pc[j] \in Sending

\* Writes that leave the intents alone.
LEMMA KeepsMarked ==
  ASSUME NEW r \in Job, NEW s \in Job, s.intents = r.intents, s.key = r.key,
         s.legacy = r.legacy, s.status # "none", r.reviewed => s.reviewed,
         r.status \in Terminal =>
            s.status = r.status /\ (s.outcome = r.outcome \/ s.outcome = RequiresReview)
  PROVE  Keeps(r, s)
  <1>1. Len(r.intents) \in Nat
    BY IntentsType
  <1> QED BY <1>1 DEF Keeps

\* The end of a pending job.
LEMMA KeepsEnded ==
  ASSUME NEW r \in Job, r.status \in Pending, NEW s \in Terminal
  PROVE  Keeps(r, Ended(r, s))
  <1>1. /\ Ended(r, s) \in Job /\ Ended(r, s).status = s /\ Ended(r, s).intents = r.intents
    BY EndedType
  <1>2. /\ Ended(r, s).key = r.key /\ Ended(r, s).legacy = r.legacy
        /\ Ended(r, s).reviewed = r.reviewed
    BY DEF Ended, Job
  <1>3. r.status \notin Terminal /\ s # "none"
    BY DEF Pending, Terminal, Clean
  <1> QED BY <1>1, <1>2, <1>3, KeepsMarked

\* One more intent.
LEMMA KeepsAppended ==
  ASSUME NEW r \in Job, r.status \in Pending, NEW a \in Actions
  PROVE  Keeps(r, Appended(r, a))
  <1>1. /\ Appended(r, a).status = r.status
        /\ Len(Appended(r, a).intents) = Len(r.intents) + 1
        /\ \A n \in 1..Len(r.intents) : Appended(r, a).intents[n] = r.intents[n]
    BY AppendedType
  <1>2. /\ Appended(r, a).key = r.key /\ Appended(r, a).legacy = r.legacy
        /\ Appended(r, a).reviewed = r.reviewed
    BY DEF Appended, Job
  <1>3. r.status \notin Terminal /\ r.status # "none"
    BY DEF Pending, Terminal, Clean
  <1>4. Len(r.intents) \in Nat
    BY IntentsType
  <1> QED BY <1>1, <1>2, <1>3, <1>4 DEF Keeps

\* A replaced intent leaves the rest of the record alone.
LEMMA ReplacedKeeps ==
  ASSUME NEW r \in Job, NEW n, NEW i, NEW o
  PROVE  LET s == WithOutcome(WithIntent(r, n, i), o)
         IN  s.key = r.key /\ s.legacy = r.legacy /\ s.reviewed = r.reviewed /\ s.outcome = o
  BY DEF WithOutcome, WithIntent, Job

\* A receipt.
LEMMA KeepsReceipted ==
  ASSUME NEW r \in Job, r.status \in Pending, NEW receipt \in {"acknowledged", "rejected"},
         Len(r.intents) >= 1, r.intents[Len(r.intents)].action = "command"
  PROVE  Keeps(r, Receipted(r, receipt)) /\ Len(Receipted(r, receipt).intents) = Len(r.intents)
  <1> DEFINE t == Receipted(r, receipt)
  <1>1. /\ t.status = r.status /\ Len(t.intents) = Len(r.intents)
        /\ t.intents[Len(r.intents)].action = "command"
        /\ \A m \in 1..Len(r.intents) : m # Len(r.intents) => t.intents[m] = r.intents[m]
    BY ReceiptedType
  <1>2. t.key = r.key /\ t.legacy = r.legacy /\ t.reviewed = r.reviewed
    BY ReplacedKeeps DEF Receipted
  <1>3. r.status \notin Terminal /\ r.status # "none"
    BY DEF Pending, Terminal, Clean
  <1>4. Len(r.intents) \in Nat
    BY IntentsType
  <1> HIDE DEF t
  <1>5. \A m \in 1..Len(r.intents) : t.intents[m].action = r.intents[m].action
    BY <1>1
  <1>6. Keeps(r, t)
    BY <1>1, <1>2, <1>3, <1>4, <1>5 DEF Keeps
  <1> QED BY <1>1, <1>6 DEF t

\* An observation: a legacy record is judged "requires_review", whatever was seen.
LEMMA KeepsObserved ==
  ASSUME NEW r \in Job, r.status # "none", NEW n \in 1..Len(r.intents), NEW o \in Observation
  PROVE  Keeps(r, Observed(r, n, o)) /\ Len(Observed(r, n, o).intents) = Len(r.intents)
  <1> DEFINE t == Observed(r, n, o)
  <1>1. /\ t.status = r.status /\ Len(t.intents) = Len(r.intents)
        /\ t.intents[n].action = r.intents[n].action
        /\ \A m \in 1..Len(r.intents) : m # n => t.intents[m] = r.intents[m]
    BY ObservedType
  <1>2. t.key = r.key /\ t.legacy = r.legacy /\ t.reviewed = r.reviewed
    BY ReplacedKeeps DEF Observed
  <1>3. r.legacy => t.outcome = RequiresReview
    BY ReplacedKeeps DEF Observed, Evaluate
  <1>4. Len(r.intents) \in Nat
    BY IntentsType
  <1> HIDE DEF t
  <1>5. \A m \in 1..Len(r.intents) : t.intents[m].action = r.intents[m].action
    BY <1>1
  <1>6. Keeps(r, t)
    BY <1>1, <1>2, <1>3, <1>4, <1>5 DEF Keeps
  <1> QED BY <1>1, <1>6 DEF t

\* A write by an executor or an operator.
LEMMA WriteRewrites ==
  ASSUME ExecInv, NEW j \in JobIds, NEW r \in Job, NEW ok \in BOOLEAN, Write(j, r, ok),
         jobs[j].status # "none", Keeps(jobs[j], r),
         \A k \in JobIds : k # j => pc'[k] = pc[k],
         pc'[j] \in Sending => ok \/ (pc[j] \in Sending /\ Len(r.intents) = Len(jobs[j].intents)),
         proven \subseteq proven',
         UNCHANGED <<archive, active, manual, manualJob, up, nextId, accepted, evicted, dispatched>>
  PROVE  Rewrites
  <1>1. TypeOK
    BY DEF ExecInv
  <1>2. /\ jobs'[j] = r /\ disk'[j] \in {disk[j], r}
        /\ ok => disk'[j] = r /\ storageErr' = storageErr
        /\ ~ok => storageErr'
        /\ \A k \in JobIds : k # j => jobs'[k] = jobs[k] /\ disk'[k] = disk[k]
    BY <1>1, WriteStep
  <1>3. Rewritten(j, r, r, ok)
    BY <1>2 DEF Rewritten
  <1> QED BY <1>3 DEF Rewrites

\* The steps of an executor that write its record.
LEMMA ExecutorRewrites ==
  ASSUME ExecInv, NEW j \in JobIds, NEW ok \in BOOLEAN,
         \/ RunStart(j, ok) \/ Log(j, ok)
         \/ \E a \in Actions : BeginIntent(j, a, ok)
         \/ \E receipt \in {"acknowledged", "rejected"} : CallReceipt(j, receipt, ok)
  PROVE  Rewrites
  <1>t. TypeOK
    BY DEF ExecInv
  <1>1. /\ pc[j] # "idle" /\ jobs[j] \in Job /\ jobs[j].status \in Pending
        /\ jobs[j].status # "none" /\ jobs[j].status \notin Terminal
    BY StatusAtWork DEF RunStart, Log, BeginIntent, CallReceipt, Pending, Terminal, Clean
  <1>2. CASE RunStart(j, ok)
    <2> DEFINE r == [jobs[j] EXCEPT !.status = "running"]
    <2>1. /\ r \in Job /\ r.intents = jobs[j].intents /\ r.key = jobs[j].key
          /\ r.legacy = jobs[j].legacy /\ r.status = "running" /\ r.reviewed = jobs[j].reviewed
      BY <1>1 DEF Job, Pending
    <2>2. Write(j, r, ok)
      BY <1>2 DEF RunStart
    <2> HIDE DEF r
    <2>3. Keeps(jobs[j], r)
      BY <1>1, <2>1, KeepsMarked
    <2>4. pc'[j] \notin Sending /\ \A k \in JobIds : k # j => pc'[k] = pc[k]
      BY <1>2, <1>t DEF RunStart, Sending, TypeOK
    <2> QED BY <1>1, <1>2, <2>1, <2>2, <2>3, <2>4, WriteRewrites DEF RunStart, history
  <1>3. CASE Log(j, ok)
    <2>1. Keeps(jobs[j], jobs[j])
      BY <1>1, KeepsMarked
    <2>2. pc'[j] \notin Sending /\ \A k \in JobIds : k # j => pc'[k] = pc[k]
      BY <1>3 DEF Log, Sending
    <2> QED BY <1>1, <1>3, <2>1, <2>2, WriteRewrites DEF Log, history
  <1>4. ASSUME NEW a \in Actions, BeginIntent(j, a, ok) PROVE Rewrites
    <2>1. Appended(jobs[j], a) \in Job /\ Keeps(jobs[j], Appended(jobs[j], a))
      BY <1>1, AppendedType, KeepsAppended
    <2>2. /\ pc'[j] \in Sending => ok
          /\ \A k \in JobIds : k # j => pc'[k] = pc[k]
      BY <1>4, <1>t DEF BeginIntent, Sending, TypeOK
    <2> QED BY <1>1, <1>4, <2>1, <2>2, WriteRewrites DEF BeginIntent, history
  <1>5. ASSUME NEW receipt \in {"acknowledged", "rejected"}, CallReceipt(j, receipt, ok)
        PROVE  Rewrites
    <2>0. Len(jobs[j].intents) >= 1 /\ jobs[j].intents[Len(jobs[j].intents)].action = "command"
      BY <1>5 DEF CallReceipt, ExecInv, AtWork
    <2>1. Receipted(jobs[j], receipt) \in Job /\ Keeps(jobs[j], Receipted(jobs[j], receipt))
      BY <1>1, <2>0, ReceiptedType, KeepsReceipted
    <2>2. pc'[j] \notin Sending /\ \A k \in JobIds : k # j => pc'[k] = pc[k]
      BY <1>5, <1>t DEF CallReceipt, Sending, TypeOK
    <2>3. proven \subseteq proven'
      BY <1>5 DEF CallReceipt
    <2> QED BY <1>1, <1>5, <2>1, <2>2, <2>3, WriteRewrites DEF CallReceipt
  <1> QED BY <1>2, <1>3, <1>4, <1>5

\* Observations, by the executor or by an operator.
LEMMA ObserveRewrites ==
  ASSUME ExecInv, NEW j \in JobIds, NEW n \in 1..Len(jobs[j].intents),
         NEW o \in Observation, NEW ok \in BOOLEAN,
         jobs[j].status # "none", ObserveIntent(j, n, o, ok)
  PROVE  Rewrites
  <1>1. jobs[j] \in Job
    BY DEF ExecInv, TypeOK
  <1> DEFINE r == Observed(jobs[j], n, o)
  <1>2. r \in Job /\ Keeps(jobs[j], r) /\ Len(r.intents) = Len(jobs[j].intents)
    BY <1>1, ObservedType, KeepsObserved
  <1>3. /\ Write(j, r, ok) /\ proven \subseteq proven' /\ UNCHANGED pc
        /\ UNCHANGED <<archive, active, manual, manualJob, up, nextId, accepted, evicted, dispatched>>
    BY DEF ObserveIntent
  <1> HIDE DEF r
  <1> QED BY <1>2, <1>3, WriteRewrites

\* Stop, Acknowledge and ReviewCommands.
LEMMA OperatorRewrites ==
  ASSUME ExecInv, NEW j \in JobIds, NEW ok \in BOOLEAN,
         Stop(j, ok) \/ Acknowledge(j, ok) \/ ReviewCommands(j, ok)
  PROVE  Rewrites
  <1>1. jobs[j] \in Job
    BY DEF ExecInv, TypeOK
  <1>2. jobs[j].status # "none"
    BY DEF Stop, Acknowledge, ReviewCommands, Pending, Terminal, Clean
  <1>3. \E r \in Job : Write(j, r, ok) /\ Keeps(jobs[j], r) /\ r.intents = jobs[j].intents
    <2>1. CASE Stop(j, ok)
      <3> DEFINE r == [jobs[j] EXCEPT !.stop = TRUE]
      <3>1. /\ r \in Job /\ r.intents = jobs[j].intents /\ r.key = jobs[j].key
            /\ r.legacy = jobs[j].legacy /\ r.status = jobs[j].status
            /\ r.reviewed = jobs[j].reviewed /\ r.outcome = jobs[j].outcome
        BY <1>1 DEF Job
      <3>2. Write(j, r, ok)
        BY <2>1 DEF Stop
      <3> HIDE DEF r
      <3> QED BY <1>1, <1>2, <3>1, <3>2, KeepsMarked
    <2>2. CASE Acknowledge(j, ok)
      <3> DEFINE r == [jobs[j] EXCEPT !.reviewed = TRUE]
      <3>1. /\ r \in Job /\ r.intents = jobs[j].intents /\ r.key = jobs[j].key
            /\ r.legacy = jobs[j].legacy /\ r.status = jobs[j].status
            /\ r.reviewed = TRUE /\ r.outcome = jobs[j].outcome
        BY <1>1 DEF Job
      <3>2. Write(j, r, ok)
        BY <2>2 DEF Acknowledge
      <3> HIDE DEF r
      <3> QED BY <1>1, <1>2, <3>1, <3>2, KeepsMarked
    <2>3. CASE ReviewCommands(j, ok)
      <3> DEFINE r == WithOutcome(jobs[j], RequiresReview)
      <3>1. /\ r \in Job /\ r.intents = jobs[j].intents /\ r.status = jobs[j].status
            /\ r.outcome = RequiresReview
        BY <1>1, OutcomeType DEF Outcomes
      <3>2. r.key = jobs[j].key /\ r.legacy = jobs[j].legacy /\ r.reviewed = jobs[j].reviewed
        BY <1>1 DEF WithOutcome, Job
      <3>3. Write(j, r, ok)
        BY <2>3 DEF ReviewCommands
      <3> HIDE DEF r
      <3> QED BY <1>1, <1>2, <3>1, <3>2, <3>3, KeepsMarked
    <2> QED BY <2>1, <2>2, <2>3
  <1>4. UNCHANGED <<archive, active, manual, manualJob, up, pc, nextId, history>>
    BY DEF Stop, Acknowledge, ReviewCommands
  <1> QED BY <1>2, <1>3, <1>4, WriteRewrites DEF history

\* The end of a job and of a manual handler.
LEMMA EndRewrites ==
  ASSUME ExecInv, NEW ok \in BOOLEAN,
         \/ \E failed \in BOOLEAN : ManualFinish(failed, ok)
         \/ \E j \in JobIds : Complete(j, ok)
  PROVE  Rewrites
  <1>t. TypeOK
    BY DEF ExecInv
  <1>1. ASSUME NEW failed \in BOOLEAN, ManualFinish(failed, ok) PROVE Rewrites
    <2> DEFINE j == manualJob
               s == IF failed \/ ~AllResolved(jobs[j]) THEN "interrupted" ELSE "succeeded"
               r == Ended(jobs[j], s)
    <2>1. j \in JobIds /\ pc[j] = "body" /\ jobs[j] \in Job /\ jobs[j].status \in Pending
      BY <1>1, <1>t, StatusAtWork DEF ManualFinish, TypeOK
    <2>2. s \in Terminal
      BY DEF Terminal, Clean
    <2>3. Write(j, r, ok) /\ pc' = [pc EXCEPT ![j] = "idle"]
      BY <1>1 DEF ManualFinish
    <2> HIDE DEF s, j
    <2>4. r \in Job /\ Keeps(jobs[j], r)
      BY <2>1, <2>2, EndedType, KeepsEnded
    <2> HIDE DEF r
    <2>5. pc'[j] \notin Sending /\ \A k \in JobIds : k # j => pc'[k] = pc[k]
      BY <1>t, <2>1, <2>3 DEF TypeOK, Sending
    <2>6. jobs[j].status # "none"
      BY <2>1 DEF Pending
    <2> QED BY <1>1, <2>1, <2>3, <2>4, <2>5, <2>6, WriteRewrites DEF ManualFinish, history
  <1>2. ASSUME NEW j \in JobIds, Complete(j, ok) PROVE Rewrites
    <2> DEFINE r == Ended(jobs[j], FinalStatus(j))
               m == IF ok THEN r ELSE [r EXCEPT !.status = "interrupted"]
    <2>1. pc[j] = "finish" /\ jobs[j] \in Job /\ jobs[j].status \in Pending
      BY <1>2, StatusAtWork DEF Complete
    <2>2. FinalStatus(j) \in Terminal
      BY DEF FinalStatus, Terminal, Clean
    <2>3. r \in Job /\ Keeps(jobs[j], r)
      BY <2>1, <2>2, EndedType, KeepsEnded
    <2>4. /\ jobs' = [jobs EXCEPT ![j] = m]
          /\ disk' \in {disk, [disk EXCEPT ![j] = r]}
          /\ ok => disk' = [disk EXCEPT ![j] = r]
          /\ storageErr' = (storageErr \/ ~ok)
          /\ active' = 0 /\ pc' = [pc EXCEPT ![j] = "idle"]
          /\ UNCHANGED <<archive, manual, manualJob, up, nextId, history>>
      BY <1>2 DEF Complete, SaveOrLatch, Save, m, r
    <2> HIDE DEF r
    <2>5. /\ m \in Job /\ m.intents = r.intents /\ m.key = r.key /\ m.legacy = r.legacy
          /\ m.reviewed = r.reviewed /\ m.status # "none"
      <3>1. CASE ok
        BY <3>1, <2>3 DEF Keeps
      <3>2. CASE ~ok
        BY <3>2, <2>3 DEF Job, Terminal
      <3> QED BY <3>1, <3>2
    <2>6. ok => m = r
      BY DEF m
    <2> HIDE DEF m
    <2>7. jobs[j].status \notin Terminal /\ jobs[j].status # "none"
      BY <2>1 DEF Pending, Terminal, Clean
    <2>8. Keeps(jobs[j], m)
      BY <2>3, <2>5, <2>7 DEF Keeps
    <2>9. /\ jobs'[j] = m /\ disk'[j] \in {disk[j], r} /\ (ok => disk'[j] = r)
          /\ pc'[j] = "idle"
          /\ \A k \in JobIds : k # j => jobs'[k] = jobs[k] /\ disk'[k] = disk[k] /\ pc'[k] = pc[k]
      BY <1>t, <2>4 DEF TypeOK
    <2>10. IF ok THEN storageErr' = storageErr ELSE storageErr'
      BY <1>t, <2>4 DEF TypeOK
    <2>11. Rewritten(j, m, r, ok)
      BY <2>3, <2>4, <2>6, <2>7, <2>8, <2>9, <2>10 DEF Rewritten, Sending, history
    <2> QED BY <2>3, <2>5, <2>11 DEF Rewrites
  <1> QED BY <1>1, <1>2

\* The steps that leave every record alone.
LEMMA QuietSteps ==
  ASSUME ExecInv,
         \/ \E j \in JobIds : \/ RunAdmit(j) \/ Guard(j) \/ Call(j) \/ CallUnproved(j)
                              \/ \E r \in Results : RunnerReturns(j, r)
         \/ ReserveManual \/ ManualRelease \/ Close \/ LoseLease \/ UNCHANGED vars
  PROVE  Quiet
  <1>t. TypeOK
    BY DEF ExecInv
  <1>1. ASSUME NEW j \in JobIds,
               RunAdmit(j) \/ Guard(j) \/ CallUnproved(j) \/ \E r \in Results : RunnerReturns(j, r)
        PROVE  Quiet
    <2>1. /\ UNCHANGED <<journal, control, nextId, history>>
          /\ \E x \in Places : pc' = [pc EXCEPT ![j] = x] /\ (x \in Sending => pc[j] \in Sending)
      BY <1>1 DEF RunAdmit, Guard, CallUnproved, RunnerReturns, Places, Sending
    <2>2. \A k \in JobIds : pc'[k] \in Sending => pc[k] \in Sending
      BY <1>t, <2>1 DEF TypeOK
    <2> QED BY <2>1, <2>2 DEF Quiet, control, history
  <1>2. ASSUME NEW j \in JobIds, Call(j) PROVE Quiet
    <2>1. \A k \in JobIds : pc'[k] \in Sending => pc[k] \in Sending
      BY <1>2, <1>t DEF Call, Sending, TypeOK
    <2>2. \A d \in dispatched' \ dispatched : pc[j] \in Sending /\ d = <<j, Len(jobs[j].intents)>>
      BY <1>2 DEF Call, Sending
    <2> QED BY <1>2, <2>1, <2>2 DEF Call, Quiet, control
  <1>3. CASE ReserveManual
    BY <1>3 DEF ReserveManual, Quiet, history
  <1>4. CASE ManualRelease
    BY <1>4 DEF ManualRelease, Quiet, history
  <1>5. CASE Close \/ LoseLease
    BY <1>5 DEF Close, LoseLease, Quiet, history
  <1>6. CASE UNCHANGED vars
    BY <1>6 DEF vars, control, history, Quiet
  <1> QED BY <1>1, <1>2, <1>3, <1>4, <1>5, <1>6

\* Every step admits a job, rewrites a record, leaves the records alone, or
\* ends or starts the process.
LEMMA StepShape ==
  ASSUME ExecInv, [Next]_vars
  PROVE  \/ Rewrites \/ Quiet \/ Crash \/ Open
         \/ \E ok \in BOOLEAN : ManualBegin(ok) \/ \E k \in Keys \cup {NoKey} : Submit(k, ok)
  <1>1. ASSUME NEW ok \in BOOLEAN, Admit(ok)
        PROVE  \/ Rewrites \/ Quiet \/ ManualBegin(ok)
               \/ \E k \in Keys \cup {NoKey} : Submit(k, ok)
    BY <1>1, EndRewrites, QuietSteps DEF Admit
  <1>2. ASSUME NEW j \in JobIds, NEW ok \in BOOLEAN, Execute(j, ok) PROVE Rewrites \/ Quiet
    <2>1. CASE BeginCommand(j, ok)
      BY <2>1, ExecutorRewrites DEF BeginCommand, Actions
    <2>2. ASSUME NEW a \in MachineActions, BeginMachine(j, a, ok) PROVE Rewrites
      <3>1. a \in Actions
        BY ConstantsAssumption DEF Actions
      <3> QED BY <2>2, <3>1, ExecutorRewrites DEF BeginMachine
    <2>3. ASSUME NEW n \in 1..Len(jobs[j].intents), NEW timely \in BOOLEAN, Prove(j, n, timely, ok)
          PROVE  Rewrites
      <3> DEFINE o == [state        |-> DesiredState(jobs[j].intents[n].action),
                       sameIdentity |-> TRUE, timely |-> timely]
      <3>1. o \in Observation /\ ObserveIntent(j, n, o, ok)
        BY <2>3 DEF Prove, Observation, DesiredState
      <3>2. jobs[j].status # "none"
        BY <2>3, StatusAtWork DEF Prove, Pending
      <3> HIDE DEF o
      <3> QED BY <3>1, <3>2, ObserveRewrites
    <2> QED BY <1>2, <2>1, <2>2, <2>3, ExecutorRewrites, EndRewrites, QuietSteps DEF Execute
  <1>3. ASSUME NEW j \in JobIds, NEW ok \in BOOLEAN, Operate(j, ok) PROVE Rewrites
    <2>1. ASSUME NEW n \in 1..Len(jobs[j].intents), NEW s \in {"exists", "unknown"},
                 Reconcile(j, n, s, ok)
          PROVE  Rewrites
      <3> DEFINE o == [state |-> s, sameIdentity |-> TRUE, timely |-> TRUE]
      <3>1. o \in Observation /\ ObserveIntent(j, n, o, ok)
        BY <2>1 DEF Reconcile, Observation
      <3>2. jobs[j].status # "none"
        BY <2>1 DEF Reconcile, Terminal, Clean
      <3> HIDE DEF o
      <3> QED BY <3>1, <3>2, ObserveRewrites
    <2> QED BY <1>3, <2>1, OperatorRewrites DEF Operate
  <1>4. CASE Process
    BY <1>4, QuietSteps DEF Process
  <1> QED BY <1>1, <1>2, <1>3, <1>4, QuietSteps DEF Next

-----------------------------------------------------------------------------
(* The journal and what it knows. *)

HasCommand(r, n) == n \in 1..Len(r.intents) /\ r.intents[n].action = "command"

\* An empty slot is empty, an evicted job is gone for good, and without a
\* process there are only the files.
Blank == \A j \in JobIds :
    /\ ~up => jobs[j] = NoJob
    /\ jobs[j].status = "none" => jobs[j] = NoJob
    /\ disk[j].status = "none" => disk[j] = NoJob
    /\ j \in evicted => jobs[j] = NoJob /\ disk[j] = NoJob

\* Until a write fails the files say what the process believes.
Synced == ~storageErr => \A j \in JobIds : jobs[j].status # "none" => disk[j] = jobs[j]

\* The command of a call is in the file, and in memory, from where later
\* writes of the file come; so is one that is about to be sent.
Journalled ==
    /\ \A d \in dispatched :
          \/ d[1] \in evicted
          \/ HasCommand(disk[d[1]], d[2]) /\ (up => HasCommand(jobs[d[1]], d[2]))
    /\ \A j \in JobIds : pc[j] \in Sending => HasCommand(disk[j], Len(jobs[j].intents))

\* Since the present executor was admitted, the unproved calls of all others
\* are reviewed, in memory and on disk.
OthersReviewed ==
    active # 0 \/ manual =>
        \A d \in dispatched \ proven :
            \/ d[1] \in {active, manualJob} \/ d[1] \in evicted
            \/ disk[d[1]].reviewed /\ jobs[d[1]].reviewed

Keyed(r, k) == r.status # "none" /\ r.key = k

\* The journal still knows the key of every job it started and holds.
KeysKnown == \A a \in accepted :
    /\ a[1] < nextId
    /\ \/ a[1] \in evicted
       \/ Keyed(disk[a[1]], a[2]) /\ (up => Keyed(jobs[a[1]], a[2]))

Archived(j) == archive[j].legacy /\ archive[j].outcome = Unknown

\* An old binary's record is under review in every process that opened it; one
\* that none has opened is still what the old binary wrote.
Quarantine ==
    /\ up => \A j \in JobIds :
          /\ disk[j].legacy => jobs[j].legacy
          /\ jobs[j].legacy =>
                jobs[j].outcome = RequiresReview /\ jobs[j].status \in Terminal /\ Archived(j)
    /\ ~up => \A j \in JobIds :
          disk[j].legacy => Archived(j) \/ (archive[j] = NoJob /\ disk[j].outcome = Unknown)

JournalInv ==
    /\ ProofInv
    /\ Blank
    /\ Synced
    /\ Journalled
    /\ OthersReviewed
    /\ KeysKnown /\ KeyStartsOnce
    /\ Quarantine

\* A directory that no process has opened.
LEMMA JournalInit == Init => JournalInv
  <1> SUFFICES ASSUME Init PROVE JournalInv
    OBVIOUS
  <1>1. ProofInv /\ TypeOK
    BY HonestInit DEF ProofInv, ExecInv
  <1>2. ASSUME NEW r \in LegacyJobs PROVE r.status # "none" /\ r.outcome = Unknown
    <2>1. PICK s \in {"running", "interrupted"}, i \in {<<>>, <<NewIntent("create")>>} :
             r = [NewJob(NoKey, s) EXCEPT !.legacy = TRUE, !.outcome = Unknown, !.intents = i]
      BY DEF LegacyJobs
    <2> QED BY <2>1 DEF NewJob
  <1>3. \A j \in JobIds : /\ disk[j] = NoJob \/ disk[j] \in LegacyJobs
                          /\ jobs[j] = NoJob /\ archive[j] = NoJob /\ pc[j] = "idle"
    BY DEF Init
  <1>4. Blank /\ Synced
    BY <1>2, <1>3, NoJobType DEF Init, Blank, Synced
  <1>5. Journalled /\ OthersReviewed /\ KeysKnown /\ KeyStartsOnce
    BY <1>3 DEF Init, Journalled, OthersReviewed, KeysKnown, KeyStartsOnce, Sending
  <1>6. ~NoJob.legacy
    BY DEF NoJob, NewJob
  <1>7. Quarantine
    BY <1>2, <1>3, <1>6 DEF Init, Quarantine
  <1> QED BY <1>1, <1>4, <1>5, <1>7 DEF JournalInv

\* No write forgets a command.
LEMMA KeepsCommand ==
  ASSUME NEW r \in Job, NEW s \in Job, Keeps(r, s), NEW n, HasCommand(r, n)
  PROVE  HasCommand(s, n)
  <1>1. Len(r.intents) \in Nat /\ Len(s.intents) \in Nat
    BY IntentsType
  <1> QED BY <1>1 DEF Keeps, HasCommand

\* A record is rewritten.
LEMMA JournalRewrites ==
  ASSUME JournalInv, ProofInv', Rewrites
  PROVE  JournalInv'
  <1>t. TypeOK /\ TypeOK' /\ ExecInv /\ ExecInv'
    BY DEF JournalInv, ProofInv, ExecInv
  <1>0. PICK j \in JobIds, r \in Job, f \in Job, ok \in BOOLEAN : Rewritten(j, r, f, ok)
    BY DEF Rewrites
  <1>1. /\ jobs[j].status # "none" /\ Keeps(jobs[j], r) /\ Keeps(jobs[j], f)
        /\ jobs'[j] = r /\ disk'[j] \in {disk[j], f}
        /\ \A k \in JobIds : k # j => jobs'[k] = jobs[k] /\ disk'[k] = disk[k] /\ pc'[k] = pc[k]
    BY <1>0 DEF Rewritten
  <1>2. IF ok THEN f = r /\ disk'[j] = r /\ storageErr' = storageErr ELSE storageErr'
    BY <1>0 DEF Rewritten
  <1>3. pc'[j] \in Sending => ok \/ (pc[j] \in Sending /\ Len(r.intents) = Len(jobs[j].intents))
    BY <1>0 DEF Rewritten
  <1>4. /\ active' \in {active, 0} /\ proven \subseteq proven'
        /\ archive' = archive /\ manual' = manual /\ manualJob' = manualJob /\ up' = up
        /\ nextId' = nextId /\ accepted' = accepted /\ evicted' = evicted
        /\ dispatched' = dispatched
    BY <1>0 DEF Rewritten
  <1>5. jobs[j] \in Job /\ r.status # "none" /\ f.status # "none"
    BY <1>t, <1>1 DEF TypeOK, Keeps
  <1>6. j \notin evicted /\ up
    BY <1>1, NoJobType DEF JournalInv, Blank
  <1>7. Blank'
    BY <1>1, <1>4, <1>5, <1>6 DEF JournalInv, Blank
  <1>8. Synced'
    BY <1>1, <1>2, <1>5 DEF JournalInv, Synced
  <1>9. Journalled'
    <2>1. ASSUME NEW d \in dispatched, d[1] \notin evicted
          PROVE  HasCommand(disk'[d[1]], d[2]) /\ (up => HasCommand(jobs'[d[1]], d[2]))
      <3>0. /\ HasCommand(disk[d[1]], d[2]) /\ (up => HasCommand(jobs[d[1]], d[2]))
            /\ d[1] \in JobIds
        BY <1>t, <2>1 DEF JournalInv, Journalled, TypeOK
      <3>1. CASE d[1] # j
        BY <1>1, <3>0, <3>1
      <3>2. CASE d[1] = j
        <4>1. HasCommand(r, d[2]) /\ HasCommand(f, d[2])
          BY <1>1, <1>5, <1>6, <3>0, <3>2, KeepsCommand
        <4> QED BY <1>1, <3>0, <3>2, <4>1
      <3> QED BY <3>1, <3>2
    <2>2. ASSUME NEW k \in JobIds, pc'[k] \in Sending
          PROVE  HasCommand(disk'[k], Len(jobs'[k].intents))
      <3>1. CASE k # j
        BY <1>1, <2>2, <3>1 DEF JournalInv, Journalled
      <3>2. CASE k = j /\ ok
        <4>1. Len(r.intents) >= 1 /\ r.intents[Len(r.intents)].action = "command"
          BY <1>1, <1>t, <2>2, <3>2 DEF ExecInv, AtWork, Sending
        <4>2. disk'[k] = r /\ jobs'[k] = r /\ Len(r.intents) \in Nat
          BY <1>1, <1>2, <3>2, IntentsType
        <4> QED BY <4>1, <4>2 DEF HasCommand
      <3>3. CASE k = j /\ ~ok
        <4>1. pc[j] \in Sending /\ Len(r.intents) = Len(jobs[j].intents)
          BY <1>3, <2>2, <3>3
        <4>2. HasCommand(disk[j], Len(jobs[j].intents))
          BY <4>1 DEF JournalInv, Journalled
        <4>3. HasCommand(jobs[j], Len(jobs[j].intents))
          <5>1. Len(jobs[j].intents) \in Nat
            BY <1>5, IntentsType
          <5> QED BY <1>t, <4>1, <5>1 DEF ExecInv, AtWork, Sending, HasCommand
        <4>4. HasCommand(f, Len(jobs[j].intents))
          BY <1>1, <1>5, <4>3, KeepsCommand
        <4> QED BY <1>1, <3>3, <4>1, <4>2, <4>4
      <3> QED BY <3>1, <3>2, <3>3
    <2> QED BY <1>4, <2>1, <2>2 DEF Journalled
  <1>10. OthersReviewed'
    <2> SUFFICES ASSUME active' # 0 \/ manual', NEW d \in dispatched' \ proven',
                        d[1] \notin {active', manualJob'}, d[1] \notin evicted'
                 PROVE  disk'[d[1]].reviewed /\ jobs'[d[1]].reviewed
      BY DEF OthersReviewed
    <2>1. active' = active
      BY <1>4, <1>t DEF ExecInv, OneExecutor
    <2>2. d \in dispatched \ proven /\ d[1] \in JobIds
      BY <1>4, <1>t DEF TypeOK
    <2>3. disk[d[1]].reviewed /\ jobs[d[1]].reviewed
      BY <1>4, <2>1, <2>2 DEF JournalInv, OthersReviewed
    <2> QED BY <1>1, <2>2, <2>3 DEF Keeps
  <1>11. KeysKnown' /\ KeyStartsOnce'
    <2>1. ASSUME NEW a \in accepted, a[1] \notin evicted
          PROVE  Keyed(disk'[a[1]], a[2]) /\ (up => Keyed(jobs'[a[1]], a[2]))
      <3>0. /\ Keyed(disk[a[1]], a[2]) /\ (up => Keyed(jobs[a[1]], a[2]))
            /\ a[1] \in JobIds
        BY <1>t, <2>1 DEF JournalInv, KeysKnown, TypeOK
      <3>1. CASE a[1] # j
        BY <1>1, <3>0, <3>1
      <3>2. CASE a[1] = j
        BY <1>1, <1>6, <3>0, <3>2 DEF Keyed, Keeps
      <3> QED BY <3>1, <3>2
    <2> QED BY <1>4, <2>1 DEF JournalInv, KeysKnown, KeyStartsOnce
  <1>12. Quarantine'
    BY <1>1, <1>4, <1>6 DEF JournalInv, Quarantine, Archived, Keeps
  <1> QED BY <1>7, <1>8, <1>9, <1>10, <1>11, <1>12 DEF JournalInv

\* While admission is open, a call that was never proved has been reviewed, in
\* memory and on disk.
LEMMA AdmittedReviewed ==
  ASSUME JournalInv, available, NEW d \in dispatched \ proven, d[1] \notin evicted
  PROVE  disk[d[1]].reviewed /\ jobs[d[1]].reviewed
  <1>t. TypeOK /\ ExecInv /\ ProofInv
    BY DEF JournalInv, ProofInv, ExecInv
  <1> DEFINE j == d[1]
  <1>1. j \in JobIds /\ d = <<j, d[2]>> /\ jobs[j] \in Job
    BY <1>t DEF TypeOK
  <1>2. up /\ ~storageErr /\ active = 0 /\ ~manual
    BY DEF available, busy
  <1>3. HasCommand(jobs[j], d[2])
    BY <1>2 DEF JournalInv, Journalled
  <1>4. jobs[j].status # "none"
    BY <1>1, <1>3, NoJobType DEF JournalInv, Blank, HasCommand
  <1>5. jobs[j].status \notin Pending
    BY <1>1, <1>2, <1>t, AllIdle
  <1>6. jobs[j].status \notin Clean
    BY <1>1, <1>3, <1>t DEF ProofInv, Honest, HasCommand
  <1>7. jobs[j].status = "interrupted"
    BY <1>1, <1>4, <1>5, <1>6 DEF Job, Terminal
  <1>8. jobs[j].reviewed
    BY <1>1, <1>7 DEF available, busy, Held
  <1>9. disk[j] = jobs[j]
    BY <1>1, <1>2, <1>4 DEF JournalInv, Synced
  <1> QED BY <1>8, <1>9

\* No record is touched.
LEMMA JournalQuiet ==
  ASSUME JournalInv, ProofInv', Quiet
  PROVE  JournalInv'
  <1>t. TypeOK /\ TypeOK' /\ ExecInv /\ ExecInv' /\ ProofInv
    BY DEF JournalInv, ProofInv, ExecInv
  <1>1. /\ jobs' = jobs /\ disk' = disk /\ archive' = archive /\ active' = active
        /\ storageErr' = storageErr /\ up' = up /\ nextId' = nextId
        /\ accepted' = accepted /\ evicted' = evicted /\ proven' = proven
    BY DEF Quiet, journal
  <1>2. Blank' /\ Synced' /\ KeysKnown' /\ KeyStartsOnce' /\ Quarantine'
    BY <1>1 DEF JournalInv, Blank, Synced, KeysKnown, KeyStartsOnce, Quarantine, Archived
  <1>3. ASSUME NEW d \in dispatched' \ dispatched
        PROVE  /\ d[1] \in JobIds /\ pc[d[1]] \in Sending
               /\ HasCommand(disk[d[1]], d[2]) /\ HasCommand(jobs[d[1]], d[2])
    <2>1. PICK j \in JobIds : pc[j] \in Sending /\ d = <<j, Len(jobs[j].intents)>>
      BY DEF Quiet
    <2>2. jobs[j] \in Job /\ Len(jobs[j].intents) \in Nat
      BY <1>t, IntentsType DEF TypeOK
    <2>3. HasCommand(jobs[j], Len(jobs[j].intents))
      BY <1>t, <2>1, <2>2 DEF ExecInv, AtWork, Sending, HasCommand
    <2> QED BY <2>1, <2>3 DEF JournalInv, Journalled
  <1>4. Journalled'
    BY <1>1, <1>3 DEF JournalInv, Journalled, Quiet
  <1>5. OthersReviewed'
    <2> SUFFICES ASSUME active' # 0 \/ manual', NEW d \in dispatched' \ proven',
                        d[1] \notin {active', manualJob'}, d[1] \notin evicted'
                 PROVE  disk'[d[1]].reviewed /\ jobs'[d[1]].reviewed
      BY DEF OthersReviewed
    <2>0. d[1] \in JobIds
      BY <1>t DEF TypeOK
    <2>1. CASE active # 0 \/ manual
      <3>1. d[1] \notin {active, manualJob}
        BY <1>1, <1>t, <2>0, <2>1 DEF Quiet, ExecInv, OneExecutor, JobIds
      <3>2. d \in dispatched
        BY <1>3, <1>t, <3>1 DEF ExecInv, OneExecutor, Sending
      <3> QED BY <1>1, <2>1, <3>1, <3>2 DEF JournalInv, OthersReviewed
    <2>2. CASE active = 0 /\ ~manual
      <3>1. available
        BY <1>1, <2>2 DEF Quiet
      <3>2. \A j \in JobIds : pc[j] = "idle" /\ jobs[j].status \notin Pending
        BY <1>t, <2>2, AllIdle
      <3>3. d \in dispatched
        BY <1>3, <3>2 DEF Sending
      <3> QED BY <1>1, <2>0, <3>1, <3>3, AdmittedReviewed
    <2> QED BY <2>1, <2>2
  <1> QED BY <1>2, <1>4, <1>5 DEF JournalInv

\* A new job is admitted: it gets a fresh slot, and S is evicted to make room.
LEMMA JournalAdds ==
  ASSUME JournalInv, ProofInv', NEW S \in SUBSET JobIds, NEW r \in Job, NEW ok \in BOOLEAN,
         nextId \in JobIds, nextId' = nextId + 1, up, S \subseteq Held,
         r.status # "none", r.intents = <<>>, ~r.legacy,
         \A j \in JobIds : j # nextId =>
            /\ jobs'[j] = (IF j \in S THEN NoJob ELSE jobs[j])
            /\ disk'[j] = (IF j \in S THEN NoJob ELSE disk[j]),
         jobs'[nextId] = (IF ok THEN r ELSE NoJob),
         disk'[nextId] \in {r, NoJob}, ok => disk'[nextId] = r,
         \A j \in JobIds : pc'[j] \notin Sending,
         storageErr => storageErr',
         evicted' = evicted \cup S,
         UNCHANGED <<archive, up, dispatched, proven>>,
         OthersReviewed', KeyStartsOnce',
         \/ accepted' = accepted
         \/ ok /\ accepted' = accepted \cup {<<nextId, r.key>>}
  PROVE  JournalInv'
  <1>t. TypeOK /\ TypeOK' /\ ExecInv /\ ProofInv
    BY DEF JournalInv, ProofInv, ExecInv
  <1>1. /\ jobs[nextId] = NoJob /\ disk[nextId] = NoJob /\ nextId \notin evicted
        /\ nextId \notin S
    BY <1>t, NoJobType DEF ExecInv, Fresh, Held, TypeOK, JobIds
  <1>n. NoJob.status = "none" /\ NoJob.intents = <<>> /\ ~NoJob.legacy
    BY DEF NoJob, NewJob
  <1>2. Blank'
    BY <1>1, <1>n DEF JournalInv, Blank
  <1>3. Synced'
    BY <1>1, <1>n, <1>t DEF JournalInv, Synced, TypeOK
  <1>4. Journalled'
    <2>1. ASSUME NEW d \in dispatched, d[1] \notin evicted'
          PROVE  HasCommand(disk'[d[1]], d[2]) /\ HasCommand(jobs'[d[1]], d[2])
      <3>1. HasCommand(disk[d[1]], d[2]) /\ HasCommand(jobs[d[1]], d[2]) /\ d[1] \in JobIds
        BY <1>t, <2>1 DEF JournalInv, Journalled, TypeOK
      <3>2. d[1] # nextId /\ d[1] \notin S
        BY <1>1, <1>n, <2>1, <3>1 DEF HasCommand
      <3> QED BY <3>1, <3>2
    <2> QED BY <2>1 DEF Journalled
  <1>5. KeysKnown'
    <2>1. ASSUME NEW a \in accepted, a[1] \notin evicted'
          PROVE  Keyed(disk'[a[1]], a[2]) /\ Keyed(jobs'[a[1]], a[2]) /\ a[1] < nextId'
      <3>1. Keyed(disk[a[1]], a[2]) /\ Keyed(jobs[a[1]], a[2]) /\ a[1] \in JobIds /\ a[1] < nextId
        BY <1>t, <2>1 DEF JournalInv, KeysKnown, TypeOK
      <3>2. a[1] # nextId /\ a[1] \notin S
        BY <1>1, <1>n, <2>1, <3>1 DEF Keyed
      <3> QED BY <3>1, <3>2 DEF JobIds
    <2>2. \A a \in accepted : a[1] < nextId'
      BY <1>t DEF JournalInv, KeysKnown, TypeOK, JobIds
    <2>3. ok => Keyed(disk'[nextId], r.key) /\ Keyed(jobs'[nextId], r.key) /\ nextId < nextId'
      BY DEF Keyed, JobIds
    <2> QED BY <2>1, <2>2, <2>3 DEF KeysKnown
  <1>6. Quarantine'
    BY <1>1, <1>n DEF JournalInv, Quarantine, Archived
  <1> QED BY <1>2, <1>3, <1>4, <1>5, <1>6 DEF JournalInv

\* Submit: a key is started again only when the journal no longer holds the job.
LEMMA JournalSubmit ==
  ASSUME JournalInv, ProofInv', NEW k \in Keys \cup {NoKey}, NEW ok \in BOOLEAN, Submit(k, ok)
  PROVE  JournalInv'
  <1> DEFINE r == NewJob(k, "queued")
             S == Evictable
  <1>t. TypeOK /\ ExecInv /\ ProofInv
    BY DEF JournalInv, ProofInv, ExecInv
  <1>1. /\ nextId \in JobIds /\ nextId' = nextId + 1 /\ available /\ up /\ active = 0 /\ ~manual
        /\ ~Duplicate(k)
    BY <1>t DEF Submit, available, busy, TypeOK, JobIds
  <1>2. /\ r \in Job /\ r.status # "none" /\ r.intents = <<>> /\ ~r.legacy /\ r.key = k
    BY NewJobType DEF Pending, NewJob
  <1>3. S \subseteq Held /\ Held \subseteq JobIds
    BY DEF Evictable, Held
  <1>4. nextId \notin S /\ jobs[nextId] = NoJob /\ disk[nextId] = NoJob
    BY <1>t, <1>1, <1>3, NoJobType DEF Held, ExecInv, Fresh, JobIds
  <1>5. \A j \in JobIds : pc[j] = "idle"
    BY <1>t, <1>1, AllIdle
  <1>6. /\ disk' \in {Without(disk, S), [Without(disk, S) EXCEPT ![nextId] = r]}
        /\ ok => disk' = [Without(disk, S) EXCEPT ![nextId] = r]
        /\ jobs' = IF ok THEN [Without(jobs, S) EXCEPT ![nextId] = r] ELSE Without(jobs, S)
        /\ pc' = IF ok THEN [pc EXCEPT ![nextId] = "spawned"] ELSE pc
        /\ active' = (IF ok THEN nextId ELSE active)
        /\ evicted' = evicted \cup S
        /\ accepted' = IF ok /\ k # NoKey THEN accepted \cup {<<nextId, k>>} ELSE accepted
        /\ UNCHANGED <<archive, storageErr, up, manual, dispatched, proven>>
    BY DEF Submit, r, S
  <1> HIDE DEF r, S
  <1>7. /\ \A j \in JobIds : j # nextId =>
              /\ jobs'[j] = (IF j \in S THEN NoJob ELSE jobs[j])
              /\ disk'[j] = (IF j \in S THEN NoJob ELSE disk[j])
        /\ jobs'[nextId] = (IF ok THEN r ELSE NoJob)
        /\ disk'[nextId] \in {r, NoJob} /\ (ok => disk'[nextId] = r)
    BY <1>1, <1>4, <1>6 DEF Without
  <1>8. \A j \in JobIds : pc'[j] \notin Sending
    BY <1>1, <1>5, <1>6, <1>t DEF Sending, TypeOK
  <1>9. OthersReviewed'
    <2> SUFFICES ASSUME NEW d \in dispatched \ proven, d[1] \notin evicted'
                 PROVE  disk'[d[1]].reviewed /\ jobs'[d[1]].reviewed
      BY <1>6 DEF OthersReviewed
    <2>1. disk[d[1]].reviewed /\ jobs[d[1]].reviewed
      BY <1>1, <1>6, AdmittedReviewed
    <2>2. d[1] \in JobIds /\ d[1] \notin S
      BY <1>6, <1>t DEF TypeOK
    <2>3. d[1] # nextId
      <3>1. NoJob.reviewed = FALSE
        BY DEF NoJob, NewJob
      <3> QED BY <1>4, <2>1, <3>1
    <2> QED BY <1>7, <2>1, <2>2, <2>3
  <1>10. KeyStartsOnce'
    <2>1. ASSUME k # NoKey, NEW a \in accepted, a[2] = k PROVE a[1] \in evicted
      BY <1>1, <1>t, <2>1 DEF JournalInv, KeysKnown, Keyed, Duplicate, Held, TypeOK
    <2>2. \A a \in accepted : a[1] < nextId /\ a[1] \in Nat
      BY <1>t DEF JournalInv, KeysKnown, TypeOK, JobIds
    <2>3. \A a, b \in accepted : a[2] = b[2] /\ a[1] < b[1] => a[1] \in evicted
      BY DEF JournalInv, KeyStartsOnce
    <2>4. CASE ok /\ k # NoKey
      <3> SUFFICES ASSUME NEW a \in accepted \cup {<<nextId, k>>},
                          NEW b \in accepted \cup {<<nextId, k>>},
                          a[2] = b[2], a[1] < b[1]
                   PROVE  a[1] \in evicted
        BY <1>6, <2>4 DEF KeyStartsOnce
      <3>1. a \in accepted
        BY <1>1, <2>2 DEF JobIds
      <3>2. CASE b \in accepted
        BY <2>3, <3>1, <3>2
      <3>3. CASE b = <<nextId, k>>
        BY <2>1, <2>4, <3>1, <3>3
      <3> QED BY <3>2, <3>3
    <2>5. CASE ~(ok /\ k # NoKey)
      BY <1>6, <2>3, <2>5 DEF KeyStartsOnce
    <2> QED BY <2>4, <2>5
  <1>11. accepted' = accepted \/ (ok /\ accepted' = accepted \cup {<<nextId, r.key>>})
    BY <1>2, <1>6
  <1>12. S \in SUBSET JobIds
    BY <1>3
  <1> QED BY <1>1, <1>2, <1>3, <1>6, <1>7, <1>8, <1>9, <1>10, <1>11, <1>12, JournalAdds

\* The first command of a manual handler.
LEMMA JournalManual ==
  ASSUME JournalInv, ProofInv', NEW ok \in BOOLEAN, ManualBegin(ok)
  PROVE  JournalInv'
  <1> DEFINE r == NewJob(NoKey, "running")
             S == {}
  <1>t. TypeOK /\ ExecInv /\ ProofInv
    BY DEF JournalInv, ProofInv, ExecInv
  <1>1. /\ nextId \in JobIds /\ nextId' = nextId + 1 /\ up /\ active = 0 /\ manual /\ manualJob = 0
    BY <1>t DEF ManualBegin, ExecInv, OneExecutor, TypeOK, JobIds
  <1>2. r \in Job /\ r.status # "none" /\ r.intents = <<>> /\ ~r.legacy
    BY NewJobType DEF Pending, NewJob
  <1>4. jobs[nextId] = NoJob /\ disk[nextId] = NoJob
    BY <1>t, <1>1 DEF ExecInv, Fresh, JobIds
  <1>5. \A j \in JobIds : pc[j] = "idle"
    BY <1>t, <1>1 DEF ExecInv, OneExecutor, JobIds
  <1>3. S \in SUBSET JobIds /\ S \subseteq Held
    OBVIOUS
  <1> HIDE DEF r
  <1>6. /\ disk' \in {disk, [disk EXCEPT ![nextId] = r]}
        /\ ok => disk' = [disk EXCEPT ![nextId] = r]
        /\ jobs' = IF ok THEN [jobs EXCEPT ![nextId] = r] ELSE jobs
        /\ pc' = IF ok THEN [pc EXCEPT ![nextId] = "body"] ELSE pc
        /\ storageErr' = (storageErr \/ ~ok)
        /\ manualJob' = (IF ok THEN nextId ELSE 0)
        /\ UNCHANGED <<archive, active, up, manual, history>>
    BY DEF ManualBegin, SaveOrLatch, Save, r
  <1>7. /\ \A j \in JobIds : j # nextId =>
              /\ jobs'[j] = (IF j \in S THEN NoJob ELSE jobs[j])
              /\ disk'[j] = (IF j \in S THEN NoJob ELSE disk[j])
        /\ jobs'[nextId] = (IF ok THEN r ELSE NoJob)
        /\ disk'[nextId] \in {r, NoJob} /\ (ok => disk'[nextId] = r)
    BY <1>1, <1>4, <1>6, <1>t DEF TypeOK
  <1>8. \A j \in JobIds : pc'[j] \notin Sending
    BY <1>1, <1>5, <1>6, <1>t DEF Sending, TypeOK
  <1>9. OthersReviewed'
    <2> SUFFICES ASSUME NEW d \in dispatched \ proven, d[1] \notin evicted
                 PROVE  disk'[d[1]].reviewed /\ jobs'[d[1]].reviewed
      BY <1>6 DEF OthersReviewed, history
    <2>1. disk[d[1]].reviewed /\ jobs[d[1]].reviewed /\ d[1] \in JobIds
      BY <1>1, <1>t DEF JournalInv, OthersReviewed, TypeOK, JobIds
    <2>2. d[1] # nextId
      <3>1. NoJob.reviewed = FALSE
        BY DEF NoJob, NewJob
      <3> QED BY <1>4, <2>1, <3>1
    <2> QED BY <1>7, <2>1, <2>2
  <1>10. KeyStartsOnce' /\ accepted' = accepted /\ evicted' = evicted \cup S
    BY <1>6 DEF JournalInv, KeyStartsOnce, history
  <1> HIDE DEF S
  <1>11. storageErr => storageErr'
    BY <1>6
  <1>12. UNCHANGED <<archive, up, dispatched, proven>>
    BY <1>6 DEF history
  <1> QED BY <1>1, <1>2, <1>3, <1>7, <1>8, <1>9, <1>10, <1>11, <1>12, JournalAdds

\* The end of a process: the files stay as they are.
LEMMA JournalCrash == ASSUME JournalInv, ProofInv', Crash PROVE JournalInv'
  <1>1. /\ \A j \in JobIds : jobs'[j] = NoJob /\ pc'[j] = "idle"
        /\ up /\ ~up' /\ ~manual' /\ active' = 0
        /\ UNCHANGED <<disk, archive, nextId, history>>
    BY DEF Crash
  <1>2. Blank' /\ Synced'
    BY <1>1, NoJobType DEF JournalInv, Blank, Synced, history
  <1>3. Journalled' /\ OthersReviewed' /\ KeysKnown' /\ KeyStartsOnce'
    BY <1>1 DEF JournalInv, Journalled, OthersReviewed, KeysKnown, KeyStartsOnce, Sending, history
  <1>4. Quarantine'
    BY <1>1 DEF JournalInv, Quarantine, Archived
  <1> QED BY <1>2, <1>3, <1>4 DEF JournalInv

\* What OpenCluster keeps of a record.
LEMMA RecoveredKeeps ==
  ASSUME NEW r \in Job
  PROVE  /\ Recovered(r).key = r.key /\ Recovered(r).legacy = r.legacy
         /\ Recovered(r).reviewed = r.reviewed
         /\ r.legacy => Recovered(r).outcome = RequiresReview
  BY DEF Recovered, Ended, WithOutcome, Job

\* The start of a process: it believes what it wrote.
LEMMA JournalOpen == ASSUME JournalInv, ProofInv', Open PROVE JournalInv'
  <1>t. TypeOK /\ TypeOK' /\ ExecInv
    BY DEF JournalInv, ProofInv, ExecInv
  <1>1. /\ \A j \in JobIds : /\ jobs'[j] = Recovered(disk[j]) /\ disk'[j] = Recovered(disk[j])
                             /\ archive'[j] = Preserved(archive[j], disk[j])
                             /\ disk[j] \in Job
        /\ ~up /\ up'
        /\ UNCHANGED <<active, manual, manualJob, storageErr, pc, nextId, dispatched, proven,
                       accepted, evicted>>
    BY <1>t DEF Open, TypeOK
  <1>2. Recovered(NoJob) = NoJob /\ ~NoJob.legacy
    BY DEF Recovered, NoJob, NewJob, Pending
  <1>3. ASSUME NEW j \in JobIds
        PROVE  /\ disk'[j].intents = disk[j].intents
               /\ disk'[j].key = disk[j].key /\ disk'[j].legacy = disk[j].legacy
               /\ disk[j].legacy => disk'[j].outcome = RequiresReview
               /\ disk'[j].status = "none" <=> disk[j].status = "none"
               /\ disk'[j].status \notin Pending /\ disk'[j] \in Job
    BY <1>1, RecoveredType, RecoveredKeeps DEF Pending
  <1>4. \A j \in JobIds : pc[j] = "idle"
    BY <1>1, <1>t DEF ExecInv, AtWork
  <1>5. Blank' /\ Synced'
    BY <1>1, <1>2, <1>3 DEF JournalInv, Blank, Synced
  <1>6. Journalled'
    <2>1. \A d \in dispatched : d[1] \in JobIds
      BY <1>t DEF TypeOK
    <2> QED BY <1>1, <1>3, <1>4, <2>1 DEF JournalInv, Journalled, HasCommand, Sending
  <1>7. OthersReviewed'
    BY <1>1, <1>t DEF ExecInv, OthersReviewed
  <1>8. KeysKnown' /\ KeyStartsOnce'
    <2>1. \A a \in accepted : a[1] \in JobIds
      BY <1>t DEF TypeOK
    <2> QED BY <1>1, <1>3, <2>1 DEF JournalInv, KeysKnown, KeyStartsOnce, Keyed
  <1>9. Quarantine'
    <2> SUFFICES ASSUME NEW j \in JobIds, disk[j].legacy
                 PROVE  disk'[j].status \in Terminal /\ Archived(j)'
      BY <1>1, <1>3 DEF Quarantine
    <2>1. disk'[j].status \in Terminal
      BY <1>2, <1>3 DEF JournalInv, Blank, Job
    <2>2. Archived(j)'
      BY <1>1, <1>2 DEF JournalInv, Quarantine, Archived, Preserved
    <2> QED BY <2>1, <2>2
  <1> QED BY <1>5, <1>6, <1>7, <1>8, <1>9 DEF JournalInv

\* Every step keeps JournalInv.
LEMMA JournalNext == ASSUME JournalInv, [Next]_vars PROVE JournalInv'
  <1>1. ProofInv' /\ ExecInv
    BY HonestNext DEF JournalInv, ProofInv
  <1> QED BY <1>1, StepShape, JournalRewrites, JournalQuiet, JournalSubmit, JournalManual,
             JournalCrash, JournalOpen

-----------------------------------------------------------------------------
(* The lost lease, and what is final. *)

\* A call after the loss was the last one: nobody can reach "call" without the lease.
LateInv == late = 0 \/ (late = 1 /\ ~lease /\ \A j \in JobIds : pc[j] # "call")

\* The steps other than a call: nobody gets to "call" without the lease.
Calm == /\ late' = late /\ (lease' => lease)
        /\ \A j \in JobIds : pc'[j] = "call" => pc[j] = "call" \/ lease

\* A lost lease does not come back, and Guard consults it.
LEMMA LateNext == ASSUME ExecInv, LateInv, [Next]_vars PROVE LateInv'
  <1>t. TypeOK
    BY DEF ExecInv
  <1>1. ASSUME Calm PROVE LateInv'
    BY <1>1 DEF Calm, LateInv
  <1>2. ASSUME NEW ok \in BOOLEAN, Admit(ok) PROVE Calm
    <2>1. ASSUME NEW k \in Keys \cup {NoKey}, Submit(k, ok) PROVE Calm
      BY <1>t, <2>1 DEF Submit, Calm, TypeOK
    <2>2. CASE ManualBegin(ok)
      BY <1>t, <2>2 DEF ManualBegin, Calm, TypeOK, history
    <2>3. ASSUME NEW failed \in BOOLEAN, ManualFinish(failed, ok) PROVE Calm
      BY <1>t, <2>3 DEF ManualFinish, Calm, TypeOK, history
    <2>4. CASE ReserveManual \/ ManualRelease
      BY <2>4 DEF ReserveManual, ManualRelease, Calm, history
    <2> QED BY <1>2, <2>1, <2>2, <2>3, <2>4 DEF Admit
  <1>3. ASSUME NEW j \in JobIds, NEW ok \in BOOLEAN, Execute(j, ok), ~Call(j) PROVE Calm
    <2>1. CASE RunStart(j, ok) \/ RunAdmit(j) \/ \E r \in Results : RunnerReturns(j, r)
      BY <1>t, <2>1 DEF RunStart, RunAdmit, RunnerReturns, Calm, TypeOK, control, history
    <2>2. CASE Complete(j, ok) \/ Log(j, ok)
      BY <1>t, <2>2 DEF Complete, Log, Calm, TypeOK, history
    <2>3. ASSUME NEW a, BeginIntent(j, a, ok) PROVE Calm
      BY <1>t, <2>3 DEF BeginIntent, Calm, TypeOK, history
    <2>4. CASE Guard(j) \/ CallUnproved(j)
      BY <1>t, <2>4 DEF Guard, CallUnproved, Calm, TypeOK, control, history
    <2>5. ASSUME NEW receipt, CallReceipt(j, receipt, ok) PROVE Calm
      BY <1>t, <2>5 DEF CallReceipt, Calm, TypeOK
    <2>6. ASSUME NEW n, NEW timely, Prove(j, n, timely, ok) PROVE Calm
      BY <2>6 DEF Prove, ObserveIntent, Calm
    <2> QED BY <1>3, <2>1, <2>2, <2>3, <2>4, <2>5, <2>6 DEF Execute, BeginCommand, BeginMachine
  <1>4. ASSUME NEW j \in JobIds, Call(j) PROVE LateInv'
    <2>1. late = 0
      BY <1>4 DEF Call, LateInv
    <2>2. \A k \in JobIds : k # j => pc[k] = "idle"
      <3>1. \A k \in JobIds : pc[k] # "idle" => k = active \/ (manual /\ k = manualJob)
        BY DEF ExecInv, OneExecutor
      <3>2. ~(active # 0 /\ manual) /\ 0 \notin JobIds
        BY DEF ExecInv, OneExecutor, JobIds
      <3>3. pc[j] # "idle"
        BY <1>4 DEF Call
      <3> QED BY <3>1, <3>2, <3>3
    <2>3. \A k \in JobIds : pc'[k] # "call"
      BY <1>4, <1>t, <2>2 DEF Call, TypeOK
    <2> QED BY <1>4, <2>1, <2>3 DEF Call, LateInv, control
  <1>5. ASSUME NEW j \in JobIds, NEW ok \in BOOLEAN, Operate(j, ok) PROVE Calm
    BY <1>5 DEF Operate, Stop, Acknowledge, ReviewCommands, Reconcile, ObserveIntent, Calm, history
  <1>6. CASE Process
    <2>1. CASE Open
      BY <2>1 DEF Open, LateInv
    <2>2. CASE Crash
      <3>1. lease' = FALSE /\ late' = late /\ pc' = [j \in JobIds |-> "idle"]
        BY <2>2 DEF Crash, history
      <3>2. late' = late /\ (lease' => lease)
        BY <3>1
      <3>3. \A j \in JobIds : pc'[j] # "call"
        BY <3>1
      <3> QED BY <1>1, <3>2, <3>3 DEF Calm
    <2> QED BY <1>1, <1>6, <2>1, <2>2 DEF Process, Close, LoseLease, Calm, history
  <1>7. CASE UNCHANGED vars
    <2>1. lease' = lease /\ late' = late /\ pc' = pc
      BY <1>7 DEF vars, control, history
    <2>2. lease' => lease
      BY <2>1
    <2>3. \A j \in JobIds : pc'[j] = "call" => pc[j] = "call"
      BY <2>1
    <2> QED BY <1>1, <2>1, <2>2, <2>3 DEF Calm
  <1> QED BY <1>1, <1>2, <1>3, <1>4, <1>5, <1>6, <1>7 DEF Next

\* What a step leaves of a terminal record.
Final(j) ==
    \/ disk'[j].status = disk[j].status /\ (disk[j].reviewed => disk'[j].reviewed)
    \/ disk'[j] = NoJob /\ j \in evicted' \ evicted

\* While no write has failed, the file is what the process believes, and the
\* process never changes an end.
LEMMA FinalNext ==
  ASSUME JournalInv, [Next]_vars, ~storageErr, NEW j \in JobIds, disk[j].status \in Terminal
  PROVE  Final(j)
  <1>t. TypeOK /\ ExecInv /\ ProofInv
    BY DEF JournalInv, ProofInv, ExecInv
  <1>0. disk[j] # NoJob /\ j \notin evicted
    BY NoJobType DEF JournalInv, Blank, Terminal, Clean
  <1>1. CASE Rewrites
    <2>1. PICK i \in JobIds, r \in Job, f \in Job, ok \in BOOLEAN : Rewritten(i, r, f, ok)
      BY <1>1 DEF Rewrites
    <2>2. CASE i # j
      BY <2>1, <2>2 DEF Rewritten, Final
    <2>3. CASE i = j
      <3>1. disk[j] = jobs[j]
        BY <2>1, <2>3 DEF Rewritten, JournalInv, Synced
      <3> QED BY <2>1, <2>3, <3>1 DEF Rewritten, Keeps, Final
    <2> QED BY <2>2, <2>3
  <1>2. CASE Quiet
    BY <1>2 DEF Quiet, journal, Final
  <1>3. CASE Crash
    BY <1>3 DEF Crash, Final
  <1>4. CASE Open
    <2>1. disk'[j] = Recovered(disk[j]) /\ disk[j] \in Job
      BY <1>4, <1>t DEF Open, TypeOK
    <2>2. disk[j].status \notin Pending
      BY DEF Pending, Terminal, Clean
    <2> QED BY <2>1, <2>2, RecoveredType, RecoveredKeeps DEF Final
  <1>5. j < nextId
    BY <1>0, <1>t DEF ExecInv, Fresh, TypeOK, JobIds
  <1>6. ASSUME NEW ok \in BOOLEAN, ManualBegin(ok) PROVE Final(j)
    <2> DEFINE r == NewJob(NoKey, "running")
    <2>1. disk' = disk \/ disk' = [disk EXCEPT ![nextId] = r]
      BY <1>6 DEF ManualBegin, SaveOrLatch, Save
    <2>2. j # nextId
      BY <1>5, <1>t DEF TypeOK, JobIds
    <2>3. disk'[j] = disk[j]
      BY <1>t, <2>1, <2>2 DEF TypeOK
    <2> QED BY <2>3 DEF Final
  <1>7. ASSUME NEW ok \in BOOLEAN, NEW k \in Keys \cup {NoKey}, Submit(k, ok) PROVE Final(j)
    <2> DEFINE r == NewJob(k, "queued")
               room == Without(disk, Evictable)
    <2>1. /\ disk' = room \/ disk' = [room EXCEPT ![nextId] = r]
          /\ evicted' = evicted \cup Evictable
      BY <1>7 DEF Submit
    <2>a. j # nextId /\ room = [i \in JobIds |-> room[i]]
      BY <1>5, <1>t DEF TypeOK, JobIds, Without
    <2>2. disk'[j] = Without(disk, Evictable)[j]
      <3> HIDE DEF r, room
      <3>1. disk'[j] = room[j]
        BY <2>1, <2>a
      <3> QED BY <3>1 DEF room
    <2>3. CASE j \in Evictable
      BY <1>0, <2>1, <2>2, <2>3 DEF Without, Final
    <2>4. CASE j \notin Evictable
      BY <2>2, <2>4 DEF Without, Final
    <2> QED BY <2>3, <2>4
  <1> QED BY <1>1, <1>2, <1>3, <1>4, <1>6, <1>7, <1>t, StepShape

-----------------------------------------------------------------------------
(* Theorems. *)

\* The inductive invariant: the executor's discipline, and honest records in
\* memory and in the files.
THEOREM ProofInvariant == Spec => []ProofInv
  <1>1. Init => ProofInv
    BY HonestInit
  <1>2. ProofInv /\ [Next]_vars => ProofInv'
    BY HonestNext
  <1> QED BY <1>1, <1>2, PTL DEF Spec

\* Every reachable state is well typed.
THEOREM TypeCorrect == Spec => []TypeOK
  <1>1. ProofInv => TypeOK
    BY DEF ProofInv, ExecInv
  <1> QED BY <1>1, ProofInvariant, PTL

\* At most one executor exists, and it is the one that was admitted.
THEOREM SingleExecutor == Spec => []OneExecutor
  <1>1. ProofInv => OneExecutor
    BY DEF ProofInv, ExecInv
  <1> QED BY <1>1, ProofInvariant, PTL

\* A clean status, in memory or on disk, rests on a proof of every intent.
THEOREM CleanIsProved == Spec => []CleanMeansProved
  <1>1. ProofInv => CleanMeansProved
    BY DEF ProofInv, Honest, CleanMeansProved
  <1> QED BY <1>1, ProofInvariant, PTL

\* An outcome of "succeeded" is never shown over an open intent.
THEOREM SuccessIsProved == Spec => []ReconciledMeansProved
  <1>1. ProofInv => ReconciledMeansProved
    BY DEF ProofInv, Honest, ReconciledMeansProved
  <1> QED BY <1>1, ProofInvariant, PTL

\* The inductive invariant of the journal: files and memory agree on what was
\* sent, started, evicted and left behind by an older binary.
THEOREM JournalInvariant == Spec => []JournalInv
  <1>1. Init => JournalInv
    BY JournalInit
  <1>2. JournalInv /\ [Next]_vars => JournalInv'
    BY JournalNext
  <1> QED BY <1>1, <1>2, PTL DEF Spec

\* No crash, failed write or lost lease makes the journal forget a call that was made.
THEOREM NoCallForgotten == Spec => []CallsAreJournalled
  <1>1. JournalInv => CallsAreJournalled
    BY DEF JournalInv, Journalled, HasCommand, CallsAreJournalled
  <1> QED BY <1>1, JournalInvariant, PTL

\* A command is sent only when the unproved calls of all other jobs have been
\* reviewed, durably.
THEOREM ReviewComesFirst == Spec => []UnprovedIsReviewedFirst
  <1>1. JournalInv => UnprovedIsReviewedFirst
    <2> SUFFICES ASSUME JournalInv, NEW k \in JobIds, pc[k] \in {"guard", "call", "called"},
                        NEW d \in dispatched \ proven, d[1] # k, d[1] \notin evicted
                 PROVE  disk[d[1]].reviewed
      BY DEF UnprovedIsReviewedFirst
    <2>1. TypeOK /\ ExecInv
      BY DEF JournalInv, ProofInv, ExecInv
    <2>2. d[1] \in JobIds
      BY <2>1 DEF TypeOK
    <2>3. (active # 0 \/ manual) /\ d[1] \notin {active, manualJob}
      BY <2>1, <2>2 DEF ExecInv, OneExecutor, JobIds
    <2> QED BY <2>3 DEF JournalInv, OthersReviewed
  <1> QED BY <1>1, JournalInvariant, PTL

\* A dedupe key starts one job as long as the journal holds the job it started.
THEOREM OneStartPerKey == Spec => []KeyStartsOnce
  <1>1. JournalInv => KeyStartsOnce
    BY DEF JournalInv
  <1> QED BY <1>1, JournalInvariant, PTL

\* An incompatible record stays under review and archived.
THEOREM LegacyStaysQuarantined == Spec => []LegacyQuarantined
  <1>1. JournalInv => LegacyQuarantined
    BY DEF JournalInv, Quarantine, Archived, LegacyQuarantined
  <1> QED BY <1>1, JournalInvariant, PTL

\* A lost lease lets at most one call through.
THEOREM OneLateCall == Spec => []AtMostOneLateCall
  <1>1. Init => LateInv
    BY DEF Init, LateInv
  <1>2. ProofInv /\ LateInv /\ [Next]_vars => LateInv'
    BY LateNext DEF ProofInv
  <1>3. LateInv => AtMostOneLateCall
    BY DEF LateInv, AtMostOneLateCall
  <1> QED BY <1>1, <1>2, <1>3, ProofInvariant, PTL DEF Spec

\* Terminal statuses and reviews in the files are final until a write fails.
THEOREM EndsAreFinal == Spec => TerminalIsFinal
  <1>1. JournalInv /\ [Next]_vars =>
          [\A j \in JobIds :
             ~storageErr /\ disk[j].status \in Terminal =>
                \/ disk'[j].status = disk[j].status /\ (disk[j].reviewed => disk'[j].reviewed)
                \/ disk'[j] = NoJob /\ j \in evicted' \ evicted]_vars
    BY FinalNext DEF Final
  <1> QED BY <1>1, JournalInvariant, PTL DEF Spec, TerminalIsFinal
===============================================================================
