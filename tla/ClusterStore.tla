---------------------------- MODULE ClusterStore ----------------------------
(***************************************************************************)
(* The encrypted registry: one SQLite file whose records are sealed with   *)
(* a key of a keyring that lives in another file, opened by one process at *)
(* a time (internal/clusters/store.go and settings.go, the offline         *)
(* commands of cmd/talosdeck/main.go).                                     *)
(*                                                                         *)
(* A record is the number of the key that sealed it.  A SQLite transaction *)
(* is atomic.  The operator starts the server, rotates the key, takes and  *)
(* puts back database backups; failing writes, crashes and starts with     *)
(* another key file than the configured one draw on MaxFaults.             *)
(***************************************************************************)
EXTENDS Naturals, FiniteSets

CONSTANTS Paths,       \* key files
          Keys,        \* 1..n, in the order they are made
          MaxFaults

VARIABLES files,       \* [Paths -> Keyring or NoRing]
          db,          \* [Records -> key or 0], or the empty file before the first start
          exists,      \* the database file exists
          copy,        \* a database backup, or NoCopy
          proc,        \* the process that holds the lock, or Closed
          configured,  \* the key file the operator uses
          misused,     \* history: another one was used
          made,        \* keys made so far
          faults

vars == <<files, db, exists, copy, proc, configured, misused, made, faults>>

\* Cluster credentials and private records are verified at start, revisions are not.
Records == {"credentials", "private", "revision"}
Verified == {"credentials", "private"}
NoRing == [active |-> 0, keys |-> {}]
NoCopy == [r \in Records |-> 0]
Closed == [pc |-> "closed"]
Keyring == [active : Keys, keys : SUBSET Keys]

Init == /\ files = [p \in Paths |-> NoRing] /\ db = NoCopy /\ exists = FALSE /\ copy = NoCopy
        /\ proc = Closed /\ configured \in Paths /\ misused = FALSE /\ made = 0 /\ faults = 0

Fault == faults < MaxFaults /\ faults' = faults + 1
NoFault == UNCHANGED faults
Opens(ring, rs, table) == \A r \in rs : table[r] = 0 \/ table[r] \in ring.keys
At(pc) == proc.pc = pc
Goto(pc) == proc' = [proc EXCEPT !.pc = pc]
Exit == proc' = Closed

-----------------------------------------------------------------------------
(* Start. *)

\* Open without a database: the first key is made and written before the database.
OpenNew(p) ==
    /\ proc = Closed /\ ~exists /\ p = configured
    /\ IF files[p] # NoRing THEN UNCHANGED <<files, made>>
       ELSE /\ made + 1 \in Keys /\ made' = made + 1
            /\ files' = [files EXCEPT ![p] = [active |-> made + 1, keys |-> {made + 1}]]
    /\ \/ /\ exists' = TRUE /\ proc' = [pc |-> "open", path |-> p, ring |-> files'[p]] /\ NoFault
       \/ Fault /\ UNCHANGED <<exists, proc>>
    /\ UNCHANGED <<db, copy, configured, misused>>

\* Mutant: a keyring is accepted without being tried.
AcceptsAny(ring) == ring # NoRing

\* The verification of credentials and private records at the end of Open.
Accepts(ring) == ring # NoRing /\ Opens(ring, Verified, db)

OpenExisting(p) ==
    /\ proc = Closed /\ exists /\ Accepts(files[p])
    /\ IF p = configured THEN NoFault /\ UNCHANGED misused ELSE Fault /\ misused' = TRUE
    /\ proc' = [pc |-> "open", path |-> p, ring |-> files[p]] /\ configured' = p
    /\ UNCHANGED <<files, db, exists, copy, made>>

-----------------------------------------------------------------------------
(* Records. *)

\* Create, UpdateCredentials, AddRevision, PutSecret: sealed with the active key in memory.
Put(r) ==
    /\ At("open")
    /\ r = "revision" => db["credentials"] # 0
    /\ db' = [db EXCEPT ![r] = proc.ring.active]
    /\ UNCHANGED <<files, exists, copy, proc, configured, misused, made, faults>>

\* DeleteSecret.
DeleteSecret ==
    /\ At("open") /\ db["private"] # 0 /\ db' = [db EXCEPT !["private"] = 0]
    /\ UNCHANGED <<files, exists, copy, proc, configured, misused, made, faults>>

\* -backup-database: VACUUM INTO a new file; the offline restore puts it back.
Backup ==
    /\ At("open") /\ copy # db /\ copy' = db /\ Exit
    /\ UNCHANGED <<files, db, exists, configured, misused, made, faults>>

Restore ==
    /\ proc = Closed /\ copy # NoCopy /\ db # copy /\ Fault /\ db' = copy
    /\ UNCHANGED <<files, exists, copy, proc, configured, misused, made>>

Close ==
    /\ At("open") /\ Exit
    /\ UNCHANGED <<files, db, exists, copy, configured, misused, made, faults>>

-----------------------------------------------------------------------------
(* Key rotation. *)

\* Previous keys stay in the ring.
NextRing(ring, k) == [active |-> k, keys |-> ring.keys \cup {k}]

\* RotateKey: another path must not exist yet.
RotateStart(p) ==
    /\ At("open") /\ made + 1 \in Keys
    /\ p # proc.path => files[p] = NoRing
    /\ made' = made + 1
    /\ proc' = [pc |-> "writeNew", path |-> proc.path, ring |-> proc.ring,
                next |-> NextRing(proc.ring, made + 1), new |-> p]
    /\ UNCHANGED <<files, db, exists, copy, configured, misused, faults>>

\* writeKeys: a temporary file, fsync, rename, fsync of the directory; it may fail on either
\* side of the rename.
WriteKeys(p, pc) ==
    \/ files' = [files EXCEPT ![p] = proc.next] /\ Goto(pc) /\ NoFault
    \/ Fault /\ Exit /\ files' \in {files, [files EXCEPT ![p] = proc.next]}

\* Mutant: the records are sealed anew before the old file has the new key.
WriteNewOnly ==
    /\ At("writeNew") /\ WriteKeys(proc.new, "reseal")
    /\ UNCHANGED <<db, exists, copy, configured, misused, made>>

WriteNew ==
    /\ At("writeNew") /\ WriteKeys(proc.new, "writeOld")
    /\ UNCHANGED <<db, exists, copy, configured, misused, made>>

WriteOld ==
    /\ At("writeOld") /\ WriteKeys(proc.path, "reseal")
    /\ UNCHANGED <<db, exists, copy, configured, misused, made>>

Resealed == [r \in Records |-> IF db[r] = 0 THEN 0 ELSE proc.next.active]

\* The transaction over clusters, revisions and private records; then the command ends and the
\* operator may configure the new file.
Reseal ==
    /\ At("reseal")
    /\ \/ /\ Opens(proc.ring, Records, db) /\ db' = Resealed /\ Exit /\ NoFault
          /\ configured' \in {configured, proc.new}
       \/ Fault /\ Exit /\ UNCHANGED <<db, configured>>
    /\ UNCHANGED <<files, exists, copy, misused, made>>

Crash ==
    /\ proc # Closed /\ Fault /\ Exit
    /\ UNCHANGED <<files, db, exists, copy, configured, misused, made>>

Next == \/ \E p \in Paths : OpenNew(p)
        \/ \E p \in Paths : OpenExisting(p)
        \/ \E r \in Records : Put(r)
        \/ DeleteSecret \/ Backup \/ Restore \/ Close
        \/ \E p \in Paths : RotateStart(p)
        \/ WriteNew \/ WriteOld \/ Reseal \/ Crash

Spec == Init /\ [][Next]_vars

-----------------------------------------------------------------------------
(* Properties. *)

\* Well-typed states: every keyring holds its active key, and keys were made before use.
TypeOK ==
    /\ \A p \in Paths : files[p] = NoRing \/ (files[p] \in Keyring /\ files[p].active \in files[p].keys)
    /\ \A r \in Records : db[r] \in 0..made /\ copy[r] \in 0..made
    /\ proc = Closed \/ (proc.path \in Paths /\ proc.ring \in Keyring)
    /\ configured \in Paths /\ faults \in 0..MaxFaults

\* With the key file the operator has configured every record is readable, of all three tables,
\* and so is an older database backup: after a completed, a failed or an interrupted rotation,
\* wherever it stopped, and after the next one (RotateKey, writeKeys).
RecordsReadable ==
    exists /\ ~misused => /\ Opens(files[configured], Records, db)
                          /\ Opens(files[configured], Records, copy)

\* A running server reads every cluster credential and private record, whatever key file it was
\* started with: a keyring that lacks a needed key is refused at start, not later (Open).
WrongKeyIsRefused == proc # Closed => Opens(proc.ring, Verified, db)
=============================================================================
