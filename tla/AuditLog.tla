------------------------------ MODULE AuditLog ------------------------------
(***************************************************************************)
(* The audit journal (internal/audit/logger.go) and the guard that makes   *)
(* every mutating HTTP request record its intent first                     *)
(* (internal/api/audit_guard.go).                                          *)
(*                                                                         *)
(* Every request appends two records: <<r, "requested">> by the guard and  *)
(* <<r, "outcome">> by its handler.  The journal is the sequence of what   *)
(* the writes appended, each a line of its own unless the one before lost  *)
(* its newline; then the two share a line, which does not parse.  The      *)
(* first `synced` survive a crash, and of the rest one may survive whole,  *)
(* without its newline, in part or not at all.  Failing writes, crashes    *)
(* and a closed journal draw on MaxFaults.                                 *)
(***************************************************************************)
EXTENDS Naturals, Sequences, FiniteSets

CONSTANTS Requests,     \* 1..n, in the order they arrive
          MaxEntries,   \* records kept in memory
          MaxFaults

VARIABLES file,         \* what the writes appended to the journal
          bare,         \* positions of the records whose newline is missing
          synced,       \* how many of them are on disk
          events,       \* the records in memory, oldest first
          up,           \* the process runs and its manager is open
          closed,       \* logFile = nil
          healthErr,    \* the sticky error is set
          writer,       \* the request that holds mu between write and fsync, or 0
          pc,           \* [Requests -> where the request is]
          performed,    \* history: requests whose mutation was carried out
          faults

vars == <<file, bare, synced, events, up, closed, healthErr, writer, pc, performed, faults>>

Kinds == {"requested", "outcome"}
Records == Requests \X Kinds
\* Part of a record, which does not parse.
Torn == <<0, "torn">>
Idle == 0
PC == {"new", "intent", "handler", "logging", "over"}

Prefix(s, n) == SubSeq(s, 1, n)
\* The last MaxEntries of a sequence of records.
Newest(s) == IF Len(s) <= MaxEntries THEN s ELSE SubSeq(s, Len(s) - MaxEntries + 1, Len(s))

Init == /\ file = <<>> /\ bare = {} /\ synced = 0 /\ events = <<>> /\ up = TRUE /\ closed = FALSE
        /\ healthErr = FALSE /\ writer = Idle /\ pc = [r \in Requests |-> "new"]
        /\ performed = {} /\ faults = 0

Fault == faults < MaxFaults /\ faults' = faults + 1
NoFault == UNCHANGED faults

-----------------------------------------------------------------------------
\* Health: neither failed nor closed.
Healthy == ~healthErr /\ ~closed

\* The guard: an unhealthy journal refuses the request before anything starts.
auditMutationGuard(r) ==
  /\ up /\ pc[r] = "new" /\ \A q \in Requests : q < r => pc[q] # "new"
  /\ pc' = [pc EXCEPT ![r] = IF Healthy THEN "intent" ELSE "over"] /\ NoFault
  /\ UNCHANGED <<file, bare, synced, events, up, closed, healthErr, writer, performed>>

\* Which record the request appends next.
Appending(r) == IF pc[r] = "intent" THEN <<r, "requested">> ELSE <<r, "outcome">>

\* A failed Record: the guard answers 503, Log only prints the error.
Refused(r) == pc' = [pc EXCEPT ![r] = "over"]

\* Record takes mu and finds the journal failed or closed, or the event cannot be encoded
\* within the record limit; all of these stick.
RecordRefused(r) ==
  /\ up /\ writer = Idle /\ pc[r] \in {"intent", "logging"}
  /\ IF Healthy THEN Fault ELSE NoFault
  /\ healthErr' = TRUE /\ Refused(r)
  /\ UNCHANGED <<file, bare, synced, events, up, closed, writer, performed>>

\* Mutant: the window is never cut.
PublishAll(e) == events' = Append(events, e)

\* The window of the newest maxEntries records, shifted by one.
Publish(e) == events' = Append(IF Len(events) = MaxEntries THEN Tail(events) ELSE events, e)

\* Mutant: the mutation starts as soon as its intent is written, before the fsync.
RecordWriteStarts(r) ==
  /\ up /\ writer = Idle /\ pc[r] \in {"intent", "logging"} /\ Healthy
  /\ file' = Append(file, Appending(r)) /\ Publish(Appending(r)) /\ NoFault
  /\ pc' = [pc EXCEPT ![r] = IF pc[r] = "intent" THEN "handler" ELSE "over"]
  /\ UNCHANGED <<bare, synced, up, closed, healthErr, performed, writer>>

\* Mutant: the error of one record does not keep the next from being written.
RecordWriteForgets(r) ==
  /\ up /\ writer = Idle /\ pc[r] \in {"intent", "logging"} /\ ~closed
  /\ \/ /\ file' = Append(file, Appending(r)) /\ writer' = r /\ NoFault
        /\ UNCHANGED <<healthErr, pc>>
     \/ /\ Fault /\ file' \in {file, Append(file, Torn)} /\ healthErr' = TRUE /\ Refused(r)
        /\ UNCHANGED writer
  /\ UNCHANGED <<bare, synced, events, up, closed, performed>>

\* Write appends the whole line; or it fails, and all of it but the newline, less or nothing is
\* there. Nothing looks at how the file ends.
RecordWrite(r) ==
  /\ up /\ writer = Idle /\ pc[r] \in {"intent", "logging"} /\ Healthy
  /\ \/ /\ file' = Append(file, Appending(r)) /\ writer' = r /\ NoFault
        /\ UNCHANGED <<bare, healthErr, pc>>
     \/ /\ Fault /\ healthErr' = TRUE /\ Refused(r) /\ UNCHANGED writer
        /\ \/ file' \in {file, Append(file, Torn)} /\ UNCHANGED bare
           \/ file' = Append(file, Appending(r)) /\ bare' = bare \cup {Len(file) + 1}
  /\ UNCHANGED <<synced, events, up, closed, performed>>

\* Sync, then the record is published in memory and mu released.
RecordSync(r) ==
  /\ up /\ writer = r /\ writer' = Idle
  /\ \/ /\ synced' = Len(file) /\ Publish(Appending(r)) /\ NoFault
        /\ pc' = [pc EXCEPT ![r] = IF pc[r] = "intent" THEN "handler" ELSE "over"]
        /\ UNCHANGED healthErr
     \/ /\ Fault /\ healthErr' = TRUE /\ Refused(r)
        /\ UNCHANGED <<synced, events>>
  /\ UNCHANGED <<file, bare, up, closed, performed>>

\* c.Next(): the handler carries the mutation out and then logs what came of it.
Handler(r) ==
  /\ up /\ pc[r] = "handler" /\ pc' = [pc EXCEPT ![r] = "logging"]
  /\ performed' = performed \cup {r} /\ NoFault
  /\ UNCHANGED <<file, bare, synced, events, up, closed, healthErr, writer>>

\* Close syncs; requests that still run find the journal closed.
Close ==
  /\ up /\ ~closed /\ writer = Idle /\ Fault /\ closed' = TRUE
  /\ \/ synced' = Len(file) /\ UNCHANGED healthErr
     \/ healthErr' = TRUE /\ UNCHANGED synced
  /\ UNCHANGED <<file, bare, events, up, writer, pc, performed>>

-----------------------------------------------------------------------------
\* What a crash leaves of the writes that were not synced: some of them, the last one perhaps
\* in part or without its newline.
Crash ==
  /\ up /\ Fault /\ up' = FALSE /\ events' = <<>> /\ writer' = Idle
  /\ \E n \in synced..Len(file) :
       \/ file' = Prefix(file, n) /\ bare' = bare \cap 1..n
       \/ n < Len(file) /\ file' = Append(Prefix(file, n), Torn) /\ bare' = bare \cap 1..n
       \/ n < Len(file) /\ file' = Prefix(file, n + 1) /\ bare' = (bare \cap 1..n) \cup {n + 1}
  /\ synced' = Len(file')
  /\ pc' = [r \in Requests |-> IF pc[r] = "new" THEN "new" ELSE "over"]
  /\ UNCHANGED <<closed, healthErr, performed>>

\* An orderly end after Close.
Exit ==
  /\ up /\ closed /\ \A r \in Requests : pc[r] \in {"new", "over"} /\ NoFault
  /\ up' = FALSE /\ events' = <<>>
  /\ UNCHANGED <<file, bare, synced, closed, healthErr, writer, pc, performed>>

\* The slots of the reader: the first maxEntries records in order, then every further one
\* over the oldest slot.
Slots(s) ==
  [i \in 1..(IF Len(s) < MaxEntries THEN Len(s) ELSE MaxEntries) |->
     s[CHOOSE k \in 1..Len(s) : /\ k % MaxEntries = i % MaxEntries
                                /\ \A j \in 1..Len(s) : j % MaxEntries = i % MaxEntries => j <= k]]

\* Mutant: the reader hands its slots out as they are.
OrderedAsRead(s) == Slots(s)

\* The slots put back in order, starting with the oldest.
Ordered(s) ==
  LET slots == Slots(s)
      next == IF Len(s) <= MaxEntries THEN 0 ELSE Len(s) % MaxEntries
  IN  SubSeq(slots, next + 1, Len(slots)) \o SubSeq(slots, 1, next)

\* Mutant: the reader takes the records that share a line one by one.
ReadableGlued == \A i \in 1..Len(file) : file[i] # Torn

\* Every line parses: no part of a record is there, and no record shares its line with the next.
\* A last line without a newline parses.
Readable == /\ \A i \in 1..Len(file) : file[i] # Torn
            /\ \A i \in bare : i = Len(file)

\* One line that does not parse refuses the journal as a whole.
NewAuditManager ==
  /\ ~up /\ Readable
  /\ up' = TRUE /\ closed' = FALSE /\ healthErr' = FALSE
  /\ events' = Ordered(file) /\ synced' = Len(file) /\ NoFault
  /\ UNCHANGED <<file, bare, writer, pc, performed>>

\* The operator repairs the journal the start refused: part of a record at the end goes, and
\* records that share a line get lines of their own.
Repair ==
  /\ ~up /\ ~Readable
  /\ file' = IF file[Len(file)] = Torn THEN Prefix(file, Len(file) - 1) ELSE file
  /\ bare' = {} /\ synced' = Len(file') /\ NoFault
  /\ UNCHANGED <<events, up, closed, healthErr, writer, pc, performed>>

Next == \/ \E r \in Requests : \/ auditMutationGuard(r) \/ RecordRefused(r) \/ RecordWrite(r)
                               \/ RecordSync(r) \/ Handler(r)
        \/ Close \/ Crash \/ Exit \/ NewAuditManager \/ Repair

Spec == Init /\ [][Next]_vars

-----------------------------------------------------------------------------
TypeOK ==
  /\ file \in Seq(Records \cup {Torn}) /\ bare \subseteq 1..Len(file) /\ synced \in 0..Len(file)
  /\ events \in Seq(Records) /\ Len(events) <= MaxEntries
  /\ {up, closed, healthErr} \subseteq BOOLEAN /\ writer \in Requests \cup {Idle}
  /\ pc \in [Requests -> PC] /\ performed \subseteq Requests /\ faults \in 0..MaxFaults

\* A mutation that was carried out has its intent among the synced records of the journal, so
\* that no crash, failed write or repair can lose the trace of it (auditMutationGuard: "A disk
\* failure must not silently turn an installation into an unaudited control plane"). It may share
\* its line with the record before, until the repair the next start asks for.
PerformedIsAudited ==
  \A r \in performed : \E i \in 1..synced : file[i] = <<r, "requested">>

\* A record that lost more than its newline is never followed by another one: the failure sticks
\* until the journal is repaired (Record's healthErr, NewAuditManager's refusal).
TornIsLast == \A i \in 1..Len(file) : file[i] = Torn => i = Len(file)

\* One that lost only its newline passes the next start, which reads it as it is, and the records
\* of that process follow it on the same line. It is the only one: the start after that refuses
\* the journal, so what a repair has to part are two records.
GluedOnce == \A i, j \in bare : i < Len(file) /\ j < Len(file) => i = j

\* What the audit view shows is the newest maxEntries records of the journal in the order they
\* were written, after any number of failures and restarts; only a record whose own write is
\* not confirmed may be missing at the end (Record's window, NewAuditManager's ring).
ViewIsNewest ==
  up => \E n \in {Len(file), Len(file) - 1} :
          /\ 0 <= n /\ (n < Len(file) => healthErr \/ writer # Idle)
          /\ events = Newest(Prefix(file, n))
=============================================================================
