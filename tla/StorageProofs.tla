---------------------------- MODULE StorageProofs ----------------------------
(***************************************************************************)
(* What the stores on the server's disk, the sessions kept in one of them  *)
(* and the backups of a cluster promise.                                   *)
(*                                                                         *)
(* The encrypted registry, for any key files, any number of keys and any   *)
(* number of failures: the configured key file opens every record.  The    *)
(* inductive invariant says what the process that holds the lock knows of  *)
(* the files at each point of a rotation: the configured file always holds *)
(* the keyring the records were read with, or the next one, which contains *)
(* it.                                                                     *)
(*                                                                         *)
(* The audit journal, for any number of requests, records and failures: no *)
(* mutation without a trace, no record after a part of one, one pair of    *)
(* records at most on a line, and a view that shows the newest records in  *)
(* order, whether they came through the window of Record or through the    *)
(* ring of the reader.                                                     *)
(*                                                                         *)
(* The backups of a cluster, for any number of archives, places, control   *)
(* planes and failures: what the catalogue lists is where the target is,   *)
(* nothing is started or wiped twice, and retention keeps the newest       *)
(* complete copies.  The inductive invariant says where a job can be, what *)
(* its archive is, and how far an approved restore got.                    *)
(*                                                                         *)
(* Sessions, for any number of users' tokens, tickets, requests and        *)
(* signing keys: a session that ended stays ended, an administrator        *)
(* remains, and a ticket opens one download of a session that still lives. *)
(* A write that fails may still be on disk, so disk and memory differ      *)
(* until the next change or restart.  What makes an end durable is that    *)
(* versions only grow: disk is never behind memory, no token is ahead of   *)
(* its user, and the token of an ended session is revoked, or behind its   *)
(* user, in both.                                                          *)
(***************************************************************************)
EXTENDS Sessions, Integers, Sequences, SequenceTheorems, FiniteSetTheorems,
        WellFoundedInduction, TLAPS

CONSTANTS Paths, StoreKeys, StoreFaults,       \* of the registry
          Requests, MaxEntries, AuditFaults,   \* of the journal
          Backups, Locations, Nodes, Retention, MaxDue, BackupFaults  \* of the backups

VARIABLES files, db, exists, copy, proc, configured, misused, made,
          file, bare, synced, events, closed, healthErr, writer, pc, performed,
          local, partial, inventory, remote, objects, removing, location, due, keys, started,
          plan, planned, changed, etcd, resets, stop, polled, result, job

Store == INSTANCE ClusterStore WITH Keys <- StoreKeys, MaxFaults <- StoreFaults
Audit == INSTANCE AuditLog WITH MaxFaults <- AuditFaults
Backup == INSTANCE BackupLifecycle WITH MaxFaults <- BackupFaults

-----------------------------------------------------------------------------
(* The encrypted registry. *)

\* The process between two commands, and in the middle of a rotation.
Server == [pc : {"open"}, path : Paths, ring : Store!Keyring]
Rotation == [pc : {"writeNew", "writeOld", "reseal"}, path : Paths, ring : Store!Keyring,
             next : Store!Keyring, new : Paths]

\* A keyring that can seal what it can open.
Whole(ring) == ring.active \in ring.keys

\* The shapes of the state; before the first start there is nothing to read.
StoreShapes ==
    /\ files \in [Paths -> Store!Keyring \cup {Store!NoRing}]
    /\ db \in [Store!Records -> StoreKeys \cup {0}] /\ copy \in [Store!Records -> StoreKeys \cup {0}]
    /\ proc \in Server \cup Rotation \cup {Store!Closed}
    /\ exists \in BOOLEAN /\ misused \in BOOLEAN /\ configured \in Paths
    /\ ~exists => db = Store!NoCopy /\ copy = Store!NoCopy /\ proc = Store!Closed

\* Every keyring, in a file or in memory, holds its active key; a rotation only adds a key.
Rings ==
    /\ \A p \in Paths : files[p] # Store!NoRing => Whole(files[p])
    /\ proc # Store!Closed => Whole(proc.ring)
    /\ proc \in Rotation => Whole(proc.next) /\ proc.ring.keys \subseteq proc.next.keys

\* What the process knows of the key files while it works with the configured one.
Lockstep ==
    proc # Store!Closed /\ ~misused =>
        /\ proc.path = configured
        /\ proc.pc \in {"open", "writeNew"} => files[configured] = proc.ring
        /\ proc.pc = "writeOld" => /\ files[configured] \in {proc.ring, proc.next}
                                   /\ files[proc.new] = proc.next
        /\ proc.pc = "reseal" => files[configured] = proc.next /\ files[proc.new] = proc.next

\* The inductive invariant.
StoreInv == StoreShapes /\ Rings /\ Lockstep /\ Store!RecordsReadable /\ Store!WrongKeyIsRefused

\* A keyring with more keys opens what the smaller one opens.
LEMMA MoreKeys ==
  ASSUME NEW ring, NEW more, NEW rs, NEW table, ring.keys \subseteq more.keys,
         Store!Opens(ring, rs, table)
  PROVE  Store!Opens(more, rs, table)
  BY DEF Store!Opens

\* A process is one of three things, and its place tells which.
LEMMA StorePlaces ==
  ASSUME StoreShapes
  PROVE  /\ proc = Store!Closed <=> proc.pc = "closed"
         /\ proc \in Server <=> proc.pc = "open"
         /\ proc \in Rotation <=> proc.pc \in {"writeNew", "writeOld", "reseal"}
  BY DEF StoreShapes, Server, Rotation, Store!Closed

LEMMA StoreInit == Store!Init => StoreInv
  <1> SUFFICES ASSUME Store!Init PROVE StoreInv
    OBVIOUS
  <1>1. StoreShapes
    BY DEF Store!Init, StoreShapes, Store!NoCopy
  <1>2. Rings /\ Lockstep /\ Store!WrongKeyIsRefused
    BY <1>1, StorePlaces DEF Store!Init, Rings, Lockstep, Store!WrongKeyIsRefused
  <1> QED BY <1>1, <1>2 DEF Store!Init, StoreInv, Store!RecordsReadable

\* The first start writes the key before the database.
LEMMA StoreOpenNew == ASSUME StoreInv, NEW p \in Paths, Store!OpenNew(p) PROVE StoreInv'
  <1> USE DEF StoreInv
  <1>1. /\ files' \in [Paths -> Store!Keyring \cup {Store!NoRing}] /\ Whole(files'[p])
        /\ files'[p] \in Store!Keyring
        /\ \A q \in Paths : q # p => files'[q] = files[q]
    <2>1. CASE files[p] # Store!NoRing
      BY <2>1 DEF Store!OpenNew, StoreShapes, Rings
    <2>2. CASE files[p] = Store!NoRing
      <3> DEFINE ring == [active |-> made + 1, keys |-> {made + 1}]
      <3>1. files' = [files EXCEPT ![p] = ring] /\ made + 1 \in StoreKeys
        BY <2>2 DEF Store!OpenNew
      <3>2. ring \in Store!Keyring /\ Whole(ring)
        BY <3>1 DEF Store!Keyring, Whole
      <3> HIDE DEF ring
      <3> QED BY <3>1, <3>2 DEF StoreShapes
    <2> QED BY <2>1, <2>2
  <1>2. /\ proc' \in {Store!Closed, [pc |-> "open", path |-> p, ring |-> files'[p]]}
        /\ (~exists' => proc' = Store!Closed) /\ exists' \in BOOLEAN
        /\ db' = db /\ copy' = copy /\ db = Store!NoCopy /\ copy = Store!NoCopy
        /\ UNCHANGED <<configured, misused>> /\ p = configured
    BY DEF Store!OpenNew, StoreShapes
  <1>3. StoreShapes' /\ proc' \notin Rotation
    BY <1>1, <1>2 DEF StoreShapes, Server, Rotation, Store!Closed
  <1>4. Rings'
    BY <1>1, <1>2, <1>3 DEF Rings, StoreShapes, Store!Closed
  <1>5. Lockstep'
    BY <1>1, <1>2 DEF Lockstep, Store!Closed
  <1>6. Store!RecordsReadable' /\ Store!WrongKeyIsRefused'
    BY <1>2 DEF Store!RecordsReadable, Store!WrongKeyIsRefused, Store!Opens, Store!NoCopy, Store!Verified, Store!Records
  <1> QED BY <1>3, <1>4, <1>5, <1>6

\* A start with an existing database, perhaps with another key file.
LEMMA StoreOpenExisting == ASSUME StoreInv, NEW p \in Paths, Store!OpenExisting(p) PROVE StoreInv'
  <1> USE DEF StoreInv
  <1>1. /\ proc' = [pc |-> "open", path |-> p, ring |-> files[p]] /\ configured' = p
        /\ UNCHANGED <<files, db, exists, copy>> /\ exists
        /\ files[p] # Store!NoRing /\ Store!Opens(files[p], Store!Verified, db)
        /\ misused' \in BOOLEAN
        /\ ~misused' => ~misused /\ p = configured
    BY DEF Store!OpenExisting, Store!Accepts, StoreShapes
  <1>2. files[p] \in Store!Keyring /\ Whole(files[p])
    BY <1>1 DEF StoreShapes, Rings
  <1>3. proc' \in Server /\ proc' \notin Rotation /\ proc'.ring = files[p]
    BY <1>1, <1>2 DEF Server, Rotation
  <1>4. StoreShapes' /\ Rings'
    BY <1>1, <1>2, <1>3 DEF StoreShapes, Rings
  <1>5. Lockstep' /\ Store!RecordsReadable' /\ Store!WrongKeyIsRefused'
    BY <1>1 DEF Lockstep, Store!RecordsReadable, Store!WrongKeyIsRefused
  <1> QED BY <1>4, <1>5

\* A server seals with a key its own ring holds, and the configured file is that ring.
LEMMA StorePut ==
  ASSUME StoreInv, Store!At("open"), NEW r \in Store!Records, NEW k \in {0, proc.ring.active},
         db' = [db EXCEPT ![r] = k],
         UNCHANGED <<files, exists, copy, proc, configured, misused>>
  PROVE  StoreInv'
  <1> USE DEF StoreInv
  <1>1. proc # Store!Closed /\ proc \in Server /\ exists
    BY StorePlaces DEF Store!At, Store!Closed, StoreShapes
  <1>2. k = 0 \/ k \in proc.ring.keys
    BY <1>1 DEF Rings, Whole
  <1>3. db' \in [Store!Records -> StoreKeys \cup {0}]
    BY <1>1 DEF StoreShapes, Server, Store!Keyring
  <1>4. StoreShapes' /\ Rings' /\ Lockstep'
    BY <1>1, <1>3 DEF StoreShapes, Rings, Lockstep, Whole
  <1>5. \A q \in Store!Records : db'[q] = db[q] \/ db'[q] = k
    BY DEF StoreShapes
  <1>6. Store!WrongKeyIsRefused'
    BY <1>1, <1>2, <1>5 DEF Store!WrongKeyIsRefused, Store!Opens, Store!Verified, Store!Records
  <1>7. Store!RecordsReadable'
    <2> SUFFICES ASSUME ~misused PROVE Store!RecordsReadable'
      BY DEF Store!RecordsReadable
    <2>1. files[configured] = proc.ring
      BY <1>1 DEF Lockstep, Store!At
    <2> QED BY <1>1, <1>2, <1>5, <2>1 DEF Store!RecordsReadable, Store!Opens
  <1> QED BY <1>4, <1>6, <1>7

\* The lock is given up, with the files as they are, and perhaps a backup taken or put back.
LEMMA StoreExit ==
  ASSUME StoreInv, proc' = Store!Closed, db' \in {db, copy}, copy' \in {db, copy}, exists,
         UNCHANGED <<files, exists, configured, misused>>
  PROVE  StoreInv'
  <1> USE DEF StoreInv
  <1>1. StoreShapes' /\ proc' \notin Rotation
    BY DEF StoreShapes, Store!Closed, Rotation
  <1>2. Rings' /\ Lockstep' /\ Store!WrongKeyIsRefused'
    BY <1>1 DEF Rings, Lockstep, Store!WrongKeyIsRefused, Whole
  <1> QED BY <1>1, <1>2 DEF Store!RecordsReadable

\* A rotation starts: the next ring is the ring and one key more.
LEMMA StoreRotateStart == ASSUME StoreInv, NEW p \in Paths, Store!RotateStart(p) PROVE StoreInv'
  <1> USE DEF StoreInv
  <1> DEFINE next == Store!NextRing(proc.ring, made + 1)
  <1>1. proc # Store!Closed /\ proc \in Server /\ exists
    BY StorePlaces DEF Store!RotateStart, Store!At, Store!Closed, StoreShapes
  <1>2. next \in Store!Keyring /\ Whole(next) /\ proc.ring.keys \subseteq next.keys
    BY <1>1 DEF Store!RotateStart, Store!NextRing, Store!Keyring, Server, Whole
  <1>3. /\ proc' = [pc |-> "writeNew", path |-> proc.path, ring |-> proc.ring,
                    next |-> next, new |-> p]
        /\ UNCHANGED <<files, db, exists, copy, configured, misused>>
    BY DEF Store!RotateStart
  <1> HIDE DEF next
  <1>4. /\ proc' \in Rotation /\ proc' # Store!Closed /\ proc'.pc = "writeNew"
        /\ proc'.path = proc.path /\ proc'.ring = proc.ring /\ proc'.next = next
    BY <1>1, <1>2, <1>3 DEF Rotation, Server, Store!Closed
  <1>5. StoreShapes'
    BY <1>1, <1>3, <1>4 DEF StoreShapes
  <1>6. Rings'
    BY <1>1, <1>2, <1>3, <1>4 DEF Rings
  <1>7. Lockstep'
    BY <1>1, <1>3, <1>4 DEF Lockstep, Store!RotateStart, Store!At
  <1>8. Store!RecordsReadable' /\ Store!WrongKeyIsRefused'
    BY <1>1, <1>3, <1>4 DEF Store!RecordsReadable, Store!WrongKeyIsRefused
  <1> QED BY <1>5, <1>6, <1>7, <1>8

\* A key file is written, before or after the other one: it may fail on either side of the
\* rename, and then the process ends.
LEMMA StoreWriteKeys ==
  ASSUME StoreInv, NEW p \in Paths, NEW place \in {"writeOld", "reseal"},
         \/ Store!At("writeNew") /\ p = proc.new /\ place = "writeOld"
         \/ Store!At("writeOld") /\ p = proc.path /\ place = "reseal",
         Store!WriteKeys(p, place), UNCHANGED <<db, exists, copy, configured, misused>>
  PROVE  StoreInv'
  <1> USE DEF StoreInv
  <1>1. proc # Store!Closed /\ proc \in Rotation /\ exists
    BY StorePlaces DEF Store!At, Store!Closed, StoreShapes
  <1>2. proc.next \in Store!Keyring /\ Whole(proc.next) /\ proc.ring.keys \subseteq proc.next.keys
    BY <1>1 DEF Rotation, Rings
  <1>3. files' \in [Paths -> Store!Keyring \cup {Store!NoRing}]
    BY <1>2 DEF Store!WriteKeys, StoreShapes
  <1>4. \A q \in Paths : files'[q] = files[q] \/ (q = p /\ files'[q] = proc.next)
    BY <1>2 DEF Store!WriteKeys, StoreShapes
  <1>5. \/ proc' = Store!Closed
        \/ /\ proc' = [proc EXCEPT !.pc = place] /\ files'[p] = proc.next
    BY DEF Store!WriteKeys, StoreShapes, Store!Exit, Store!Goto
  <1>6. proc' # Store!Closed => /\ proc' \in Rotation /\ proc'.pc = place /\ files'[p] = proc.next
                          /\ proc'.path = proc.path /\ proc'.ring = proc.ring
                          /\ proc'.next = proc.next /\ proc'.new = proc.new
    BY <1>1, <1>5 DEF Rotation
  <1>7. StoreShapes'
    BY <1>1, <1>3, <1>6 DEF StoreShapes
  <1>8. Rings'
    <2>1. proc' \in Rotation => proc' # Store!Closed
      BY DEF Rotation, Store!Closed
    <2> QED BY <1>1, <1>2, <1>4, <1>6, <2>1 DEF Rings
  <1>9. Lockstep'
    <2> SUFFICES ASSUME proc' # Store!Closed, ~misused PROVE Lockstep'
      BY DEF Lockstep
    <2>1. proc.path = configured /\ proc.new \in Paths /\ configured \in Paths
      BY <1>1 DEF Lockstep, Rotation, StoreShapes
    <2>2. CASE place = "writeOld"
      BY <1>1, <1>4, <1>6, <2>1, <2>2 DEF Lockstep, Store!At
    <2>3. CASE place = "reseal"
      BY <1>1, <1>4, <1>6, <2>1, <2>3 DEF Lockstep, Store!At
    <2> QED BY <2>2, <2>3
  <1>a. Store!WrongKeyIsRefused'
    BY <1>1, <1>6 DEF Store!WrongKeyIsRefused
  <1>b. Store!RecordsReadable'
    <2> SUFFICES ASSUME ~misused PROVE Store!RecordsReadable'
      BY DEF Store!RecordsReadable
    <2>1. configured \in Paths /\ files[configured] \in {proc.ring, proc.next}
      BY <1>1 DEF Lockstep, StoreShapes, Store!At
    <2>2. files[configured].keys \subseteq files'[configured].keys
      BY <1>2, <1>4, <2>1
    <2> QED BY <1>1, <2>2, MoreKeys DEF Store!RecordsReadable
  <1> QED BY <1>7, <1>8, <1>9, <1>a, <1>b

\* The records are sealed anew when both files hold the new key.
LEMMA StoreReseal == ASSUME StoreInv, Store!Reseal PROVE StoreInv'
  <1> USE DEF StoreInv
  <1>1. proc # Store!Closed /\ proc \in Rotation /\ exists
    BY StorePlaces DEF Store!Reseal, Store!At, Store!Closed, StoreShapes
  <1>2. CASE UNCHANGED <<db, configured>>
    BY <1>1, <1>2, StoreExit DEF Store!Reseal, Store!Exit
  <1>3. CASE db' = Store!Resealed /\ configured' \in {configured, proc.new}
    <2>1. proc.next \in Store!Keyring /\ Whole(proc.next) /\ proc.new \in Paths
      BY <1>1 DEF Rotation, Rings
    <2>2. proc' = Store!Closed /\ proc' \notin Rotation /\ UNCHANGED <<files, exists, copy, misused>>
      BY DEF Store!Reseal, Store!Exit, Store!Closed, Rotation
    <2>3. Store!Resealed \in [Store!Records -> StoreKeys \cup {0}] /\ Store!Opens(proc.next, Store!Records, Store!Resealed)
      BY <2>1 DEF Store!Resealed, Store!Keyring, Whole, Store!Opens, StoreShapes
    <2>4. StoreShapes'
      BY <1>1, <1>3, <2>1, <2>2, <2>3 DEF StoreShapes
    <2>5. Rings' /\ Lockstep' /\ Store!WrongKeyIsRefused'
      BY <2>2 DEF Rings, Lockstep, Store!WrongKeyIsRefused
    <2>6. Store!RecordsReadable'
      <3> SUFFICES ASSUME ~misused PROVE Store!RecordsReadable'
        BY <2>2 DEF Store!RecordsReadable
      <3>1. files[configured'] = proc.next /\ files[configured] = proc.next
        BY <1>1, <1>3 DEF Lockstep, Store!Reseal, Store!At
      <3> QED BY <1>1, <1>3, <2>2, <2>3, <3>1 DEF Store!RecordsReadable
    <2> QED BY <2>4, <2>5, <2>6
  <1> QED BY <1>2, <1>3 DEF Store!Reseal

\* Every step keeps the invariant.
LEMMA StoreNext == ASSUME StoreInv, [Store!Next]_(Store!vars) PROVE StoreInv'
  <1>s. StoreShapes
    BY DEF StoreInv
  <1>1. CASE \E p \in Paths : Store!OpenNew(p) \/ Store!OpenExisting(p) \/ Store!RotateStart(p)
    BY <1>1, StoreOpenNew, StoreOpenExisting, StoreRotateStart
  <1>2. CASE \E r \in Store!Records : Store!Put(r)
    BY <1>2, StorePut DEF Store!Put
  <1>3. CASE Store!DeleteSecret
    BY <1>3, StorePut DEF Store!DeleteSecret, Store!Records
  <1>4. ASSUME Store!Backup \/ Store!Restore \/ Store!Close \/ Store!Crash PROVE StoreInv'
    <2>1. exists
      BY <1>4, <1>s, StorePlaces DEF StoreShapes, Store!Backup, Store!Restore, Store!Close, Store!Crash, Store!At, Store!Closed
    <2> QED BY <1>4, <2>1, StoreExit DEF Store!Backup, Store!Restore, Store!Close, Store!Crash, Store!Exit
  <1>5. CASE Store!WriteNew \/ Store!WriteOld
    <2>1. Store!At("writeNew") \/ Store!At("writeOld") => proc.new \in Paths /\ proc.path \in Paths
      BY <1>s, StorePlaces DEF Store!At, Rotation
    <2> QED BY <1>5, <2>1, StoreWriteKeys DEF Store!WriteNew, Store!WriteOld
  <1>6. CASE Store!Reseal
    BY <1>6, StoreReseal
  <1>7. CASE UNCHANGED Store!vars
    BY <1>7 DEF Store!vars, StoreInv, StoreShapes, Rings, Lockstep, Store!RecordsReadable, Store!WrongKeyIsRefused, Whole, Store!Opens
  <1> QED BY <1>1, <1>2, <1>3, <1>4, <1>5, <1>6, <1>7 DEF Store!Next

-----------------------------------------------------------------------------
(* Theorems. *)

\* The inductive invariant holds in every state.
THEOREM StoreInvariant == Store!Spec => []StoreInv
  <1> QED BY StoreInit, StoreNext, PTL DEF Store!Spec

\* The configured key file opens every record and the database backup, wherever a rotation
\* stopped: RotateKey writes the new file, then the old one, and only then seals anew.
THEOREM EveryRecordReadable == Store!Spec => []Store!RecordsReadable
  <1>1. StoreInv => Store!RecordsReadable
    BY DEF StoreInv
  <1> QED BY <1>1, StoreInvariant, PTL

\* A server that started reads credentials and private records, whatever file it was given.
THEOREM WrongKeyRefused == Store!Spec => []Store!WrongKeyIsRefused
  <1>1. StoreInv => Store!WrongKeyIsRefused
    BY DEF StoreInv
  <1> QED BY <1>1, StoreInvariant, PTL

-----------------------------------------------------------------------------
(* The audit journal. *)

\* The view holds at least one record, and 0 names no request.
Sensible == MaxEntries \in Nat \ {0} /\ Audit!Idle \notin Requests

-----------------------------------------------------------------------------
(* Remainders: the slots of the reader's ring. *)

LEMMA Quotient ==
  ASSUME NEW M \in Nat \ {0}, NEW n \in Int
  PROVE  \E q \in Int, r \in 0..(M - 1) : r = n % M /\ n = M * q + r
  <1>1. n \div M \in Int /\ n % M \in 0..(M - 1)
    OBVIOUS
  <1>2. ASSUME NEW q \in Int, q = n \div M, NEW r \in Int, r = n % M PROVE n = M * q + r
    BY <1>2
  <1>3. PICK q \in Int : q = n \div M
    BY <1>1
  <1>4. PICK r \in 0..(M - 1) : r = n % M
    BY <1>1
  <1>5. n = M * q + r
    BY <1>2, <1>3, <1>4
  <1> QED BY <1>4, <1>5

LEMMA Remainder ==
  ASSUME NEW M \in Nat \ {0}, NEW q \in Int, NEW r \in 0..(M - 1)
  PROVE  (M * q + r) % M = r
  OBVIOUS

\* Whole turns of the ring do not change the slot.
LEMMA WholeTurns ==
  ASSUME NEW M \in Nat \ {0}, NEW q \in Int, NEW i \in Int
  PROVE  (M * q + i) % M = i % M
  <1>1. PICK r \in 0..(M - 1), p \in Int : r = i % M /\ i = M * p + r
    BY Quotient
  <1>2. q + p \in Int /\ M * (q + p) = M * q + M * p
    OBVIOUS
  <1>3. M * q + i = M * (q + p) + r
    BY <1>1, <1>2
  <1>4. (M * (q + p) + r) % M = r
    BY <1>2, Remainder
  <1> QED BY <1>1, <1>3, <1>4

\* Two places of one slot are a whole turn apart.
LEMMA OneTurnApart ==
  ASSUME NEW M \in Nat \ {0}, NEW n \in Int, NEW m \in Int, n % M = m % M, n < m
  PROVE  n + M <= m
  <1>1. PICK p \in Int, r \in 0..(M - 1) : r = n % M /\ n = M * p + r
    BY Quotient
  <1>2. PICK q \in Int : m = M * q + r
    <2>1. PICK q \in Int, t \in 0..(M - 1) : t = m % M /\ m = M * q + t
      BY Quotient
    <2>2. t = r
      BY <1>1, <2>1
    <2> QED BY <2>1, <2>2
  <1>3. M * p \in Int /\ M * q \in Int
    OBVIOUS
  <1>4. M * p < M * q
    BY <1>1, <1>2, <1>3
  <1>5. p < q
    <2>1. CASE q <= p
      <3>1. M * q <= M * p
        BY <2>1
      <3> QED BY <1>3, <1>4, <3>1
    <2> QED BY <2>1
  <1>6. M * q >= M * (p + 1)
    BY <1>5
  <1>7. M * (p + 1) = M * p + M
    OBVIOUS
  <1> DEFINE a == M * p
             b == M * q
  <1>8. n = a + r /\ m = b + r /\ b >= a + M /\ a \in Int /\ b \in Int /\ r \in Int
    BY <1>1, <1>2, <1>3, <1>6, <1>7
  <1> HIDE DEF a, b
  <1> QED BY <1>8

-----------------------------------------------------------------------------
(* The ring, the window and what they show. *)

\* The place in s that slot i of the ring holds at the end.
Place(L, i) ==
  IF L <= MaxEntries THEN i
  ELSE LET d == L % MaxEntries IN IF i <= d THEN L - d + i ELSE L - d - MaxEntries + i

\* The last place of slot i is one of the newest MaxEntries.
LEMMA PlaceInSlot ==
  ASSUME Sensible, NEW L \in Nat, NEW i \in 1..(IF L < MaxEntries THEN L ELSE MaxEntries)
  PROVE  /\ Place(L, i) \in 1..L /\ Place(L, i) > L - MaxEntries
         /\ Place(L, i) % MaxEntries = i % MaxEntries
  <1> DEFINE M == MaxEntries
  <1>m. M \in Nat \ {0} /\ L \in Int /\ i \in Int
    BY DEF Sensible
  <1>1. CASE L <= M
    BY <1>1, <1>m DEF Place
  <1>2. CASE L > M
    <2> HIDE DEF M
    <2>1. PICK q \in Int, d \in 0..(M - 1) : d = L % M /\ L = M * q + d
      BY <1>m, Quotient
    <2> DEFINE t == M * q
    <2>2. t \in Int /\ L = t + d /\ M * (q - 1) = t - M /\ q - 1 \in Int
      BY <1>m, <2>1
    <2>3. (t + i) % M = i % M
      BY <1>m, WholeTurns
    <2>4. (t - M + i) % M = i % M
      <3>1. (M * (q - 1) + i) % M = i % M
        BY <1>m, <2>2, WholeTurns
      <3> QED BY <2>2, <3>1
    <2>5. Place(L, i) = IF i <= d THEN t + i ELSE t - M + i
      <3> HIDE DEF t
      <3>1. Place(L, i) = IF i <= d THEN L - d + i ELSE L - d - M + i
        BY <1>2, <1>m, <2>1 DEF Place, M
      <3> QED BY <2>2, <3>1, <1>m
    <2> HIDE DEF t
    <2>6. Place(L, i) \in 1..L /\ Place(L, i) > L - M
      BY <1>2, <1>m, <2>2, <2>5 DEF M
    <2>7. Place(L, i) % M = i % M
      BY <2>3, <2>4, <2>5
    <2> QED BY <2>6, <2>7 DEF M
  <1> QED BY <1>1, <1>2, <1>m

\* The slots hold the last record that went over each of them.
LEMMA SlotHolds ==
  ASSUME Sensible, NEW S, NEW s \in Seq(S),
         NEW i \in 1..(IF Len(s) < MaxEntries THEN Len(s) ELSE MaxEntries)
  PROVE  Audit!Slots(s)[i] = s[Place(Len(s), i)]
  <1> DEFINE M == MaxEntries
             L == Len(s)
             P(k) == /\ k % M = i % M
                     /\ \A j \in 1..L : j % M = i % M => j <= k
  <1>m. M \in Nat \ {0} /\ L \in Nat
    BY DEF Sensible
  <1>1. Place(L, i) \in 1..L /\ Place(L, i) > L - M /\ Place(L, i) % M = i % M
    BY PlaceInSlot, <1>m
  <1>2. P(Place(L, i))
    <2> SUFFICES ASSUME NEW j \in 1..L, j % M = i % M, j > Place(L, i) PROVE FALSE
      BY <1>1
    <2>1. Place(L, i) + M <= j
      BY <1>m, <1>1, OneTurnApart
    <2> QED BY <1>m, <1>1, <2>1
  <1>3. \A k \in 1..L : P(k) => k = Place(L, i)
    BY <1>1, <1>2
  <1>4. Place(L, i) = CHOOSE k \in 1..L : P(k)
    BY <1>1, <1>2, <1>3
  <1> QED BY <1>4 DEF Audit!Slots

\* What Newest shows.
LEMMA NewestShows ==
  ASSUME Sensible, NEW S, NEW s \in Seq(S)
  PROVE  /\ Audit!Newest(s) \in Seq(S)
         /\ Len(Audit!Newest(s)) = IF Len(s) <= MaxEntries THEN Len(s) ELSE MaxEntries
         /\ \A j \in 1..Len(Audit!Newest(s)) :
               Audit!Newest(s)[j] = s[IF Len(s) <= MaxEntries THEN j ELSE Len(s) - MaxEntries + j]
  <1>m. MaxEntries \in Nat \ {0} /\ Len(s) \in Nat
    BY DEF Sensible
  <1>1. CASE Len(s) <= MaxEntries
    BY <1>1 DEF Audit!Newest
  <1>2. CASE Len(s) > MaxEntries
    <2> DEFINE m == Len(s) - MaxEntries + 1
    <2>1. \A i \in m..Len(s) : s[i] \in S
      BY <1>2, <1>m
    <2>2. /\ SubSeq(s, m, Len(s)) \in Seq(S)
          /\ Len(SubSeq(s, m, Len(s))) = MaxEntries
          /\ \A j \in 1..MaxEntries : SubSeq(s, m, Len(s))[j] = s[m + j - 1]
      BY <1>2, <1>m, <2>1, SubSeqProperties
    <2> QED BY <1>2, <1>m, <2>2 DEF Audit!Newest
  <1> QED BY <1>1, <1>2, <1>m

\* The ring of the reader shows the newest records, in the order they were written.
LEMMA RingShowsNewest ==
  ASSUME Sensible, NEW S, NEW s \in Seq(S)
  PROVE  Audit!Ordered(s) = Audit!Newest(s)
  <1> DEFINE M == MaxEntries
             L == Len(s)
             W == IF L < M THEN L ELSE M
             next == IF L <= M THEN 0 ELSE L % M
             slots == Audit!Slots(s)
             left == SubSeq(slots, next + 1, W)
             right == SubSeq(slots, 1, next)
  <1>m. M \in Nat \ {0} /\ L \in Nat /\ W \in Nat
    BY DEF Sensible
  <1>1. next \in 0..W
    BY <1>m, Quotient
  <1>2. slots \in Seq(S) /\ Len(slots) = W
    <2>1. slots = [i \in 1..W |-> slots[i]]
      BY DEF Audit!Slots
    <2>2. ASSUME NEW i \in 1..W PROVE slots[i] \in S
      <3>1. Place(L, i) \in 1..L
        BY <1>m, PlaceInSlot
      <3>2. slots[i] = s[Place(L, i)]
        BY SlotHolds
      <3> QED BY <3>1, <3>2, ElementOfSeq
    <2> HIDE DEF slots, W
    <2> QED BY <1>m, <2>1, <2>2
  <1>3. \A i \in 1..W : slots[i] = s[Place(L, i)]
    BY SlotHolds
  <1> HIDE DEF slots, W
  <1>4. /\ left \in Seq(S) /\ Len(left) = W - next
        /\ \A j \in 1..(W - next) : left[j] = slots[next + j]
    BY <1>m, <1>1, <1>2, SubSeqProperties
  <1>5. /\ right \in Seq(S) /\ Len(right) = next
        /\ \A j \in 1..next : right[j] = slots[j]
    BY <1>m, <1>1, <1>2, SubSeqProperties
  <1>6. Audit!Ordered(s) = left \o right
    BY <1>2 DEF Audit!Ordered, slots
  <1> HIDE DEF left, right
  <1> DEFINE cat == left \o right
  <1>7. /\ cat \in Seq(S) /\ Len(cat) = W
        /\ \A j \in 1..W : cat[j] =
              IF j <= W - next THEN slots[next + j] ELSE slots[j - (W - next)]
    <2> HIDE DEF M, L
    <2>1. /\ left \o right \in Seq(S) /\ Len(left \o right) = Len(left) + Len(right)
          /\ \A j \in 1..(Len(left) + Len(right)) : (left \o right)[j] =
                IF j <= Len(left) THEN left[j] ELSE right[j - Len(left)]
      BY <1>4, <1>5, ConcatProperties
    <2> HIDE DEF next
    <2>2. Len(left) + Len(right) = W
      BY <1>m, <1>1, <1>4, <1>5
    <2>3. ASSUME NEW j \in 1..W
          PROVE  (left \o right)[j] =
                   IF j <= W - next THEN slots[next + j] ELSE slots[j - (W - next)]
      <3>1. CASE j <= W - next
        BY <1>m, <1>1, <1>4, <2>1, <2>2, <3>1
      <3>2. CASE ~(j <= W - next)
        <4>1. j - (W - next) \in 1..next
          BY <1>m, <1>1, <3>2
        <4> QED BY <1>4, <1>5, <2>1, <2>2, <3>2, <4>1
      <3> QED BY <3>1, <3>2
    <2> QED BY <2>1, <2>2, <2>3
  <1> HIDE DEF cat
  <1>8. /\ Audit!Newest(s) \in Seq(S) /\ Len(Audit!Newest(s)) = W
        /\ \A j \in 1..W : Audit!Newest(s)[j] = s[IF L <= M THEN j ELSE L - M + j]
    BY NewestShows, <1>m DEF W
  <1>9. ASSUME NEW j \in 1..W PROVE cat[j] = Audit!Newest(s)[j]
    <2> HIDE DEF M, L
    <2>1. CASE L <= M
      <3>1. next = 0 /\ Place(L, j) = j
        BY <2>1 DEF Place, M
      <3> QED BY <1>3, <1>7, <1>8, <1>m, <2>1, <3>1
    <2>2. CASE L > M
      <3>1. W = M /\ next = L % M /\ next \in Int
        BY <1>1, <1>m, <2>2 DEF W, M, L
      <3>2. \A i \in 1..M : Place(L, i) = IF i <= next THEN L - next + i ELSE L - next - M + i
        BY <2>2, <1>m DEF Place, M, L
      <3> HIDE DEF next
      <3>3. CASE j <= M - next
        <4>1. next + j \in 1..M /\ Place(L, next + j) = L - M + j
          BY <1>1, <1>m, <3>1, <3>2, <3>3
        <4>2. cat[j] = s[L - M + j]
          BY <1>3, <1>7, <3>1, <3>3, <4>1
        <4> QED BY <1>8, <2>2, <4>2, <1>m
      <3>4. CASE j > M - next
        <4>1. j - (M - next) \in 1..M /\ Place(L, j - (M - next)) = L - M + j
          BY <1>1, <1>m, <3>1, <3>2, <3>4
        <4>2. cat[j] = s[L - M + j]
          BY <1>3, <1>7, <3>1, <3>4, <4>1, <1>m
        <4> QED BY <1>8, <2>2, <4>2, <1>m
      <3> QED BY <3>3, <3>4, <1>1, <1>m, <3>1
    <2> QED BY <2>1, <2>2, <1>m
  <1> QED BY <1>6, <1>7, <1>8, <1>9, SeqEqual DEF cat

\* The window of Record shows the newest records when it showed them before.
LEMMA WindowShowsNewest ==
  ASSUME Sensible, NEW S, NEW s \in Seq(S), NEW e \in S
  PROVE  Audit!Newest(Append(s, e)) =
           Append(IF Len(Audit!Newest(s)) = MaxEntries THEN Tail(Audit!Newest(s)) ELSE Audit!Newest(s), e)
  <1> DEFINE M == MaxEntries
             old == Audit!Newest(s)
             kept == IF Len(old) = M THEN Tail(old) ELSE old
             long == Append(s, e)
             new == Append(kept, e)
  <1>m. M \in Nat \ {0} /\ Len(s) \in Nat
    BY DEF Sensible
  <1>1. /\ old \in Seq(S)
        /\ Len(old) = IF Len(s) <= M THEN Len(s) ELSE M
        /\ \A j \in 1..Len(old) : old[j] = s[IF Len(s) <= M THEN j ELSE Len(s) - M + j]
    BY NewestShows
  <1>2. /\ long \in Seq(S) /\ Len(long) = Len(s) + 1 /\ long[Len(s) + 1] = e
        /\ \A j \in 1..Len(s) : long[j] = s[j]
    OBVIOUS
  <1>3. /\ Audit!Newest(long) \in Seq(S)
        /\ Len(Audit!Newest(long)) = IF Len(s) + 1 <= M THEN Len(s) + 1 ELSE M
        /\ \A j \in 1..Len(Audit!Newest(long)) :
              Audit!Newest(long)[j] = long[IF Len(s) + 1 <= M THEN j ELSE Len(s) + 1 - M + j]
    <2> HIDE DEF long
    <2>1. /\ Audit!Newest(long) \in Seq(S)
          /\ Len(Audit!Newest(long)) = IF Len(long) <= MaxEntries THEN Len(long) ELSE MaxEntries
          /\ \A j \in 1..Len(Audit!Newest(long)) : Audit!Newest(long)[j] =
                long[IF Len(long) <= MaxEntries THEN j ELSE Len(long) - MaxEntries + j]
      BY <1>2, NewestShows
    <2> QED BY <1>2, <2>1
  <1> HIDE DEF old, long, M
  <1>4. CASE Len(s) < M
    <2>1. kept = old /\ Len(old) = Len(s)
      BY <1>1, <1>4, <1>m
    <2> HIDE DEF kept
    <2>2. /\ new \in Seq(S) /\ Len(new) = Len(s) + 1 /\ new[Len(s) + 1] = e
          /\ \A j \in 1..Len(s) : new[j] = old[j]
      BY <1>1, <2>1
    <2> HIDE DEF new
    <2>3. \A j \in 1..Len(s) : new[j] = s[j]
      BY <1>1, <1>4, <1>m, <2>1, <2>2
    <2>4. Len(Audit!Newest(long)) = Len(new)
      BY <1>3, <1>4, <1>m, <2>2
    <2>5. \A j \in 1..Len(new) : Audit!Newest(long)[j] = new[j]
      BY <1>2, <1>3, <1>4, <1>m, <2>2, <2>3, <2>4
    <2> QED BY <1>3, <2>2, <2>4, <2>5, SeqEqual DEF new, kept, long, old, M
  <1>5. CASE Len(s) >= M
    <2>1. kept = Tail(old) /\ Len(old) = M /\ old # <<>>
      BY <1>1, <1>5, <1>m
    <2>2. /\ kept \in Seq(S) /\ Len(kept) = M - 1
          /\ \A j \in 1..(M - 1) : kept[j] = old[j + 1]
      <3>1. /\ Tail(old) \in Seq(S) /\ Len(Tail(old)) = Len(old) - 1
            /\ \A j \in 1..Len(Tail(old)) : Tail(old)[j] = old[j + 1]
        BY <1>1, <2>1, HeadTailProperties
      <3> HIDE DEF kept
      <3> QED BY <2>1, <3>1
    <2> HIDE DEF kept
    <2>3. /\ new \in Seq(S) /\ Len(new) = M /\ new[M] = e
          /\ \A j \in 1..(M - 1) : new[j] = kept[j]
      BY <1>m, <2>2
    <2> HIDE DEF new
    <2>4. \A j \in 1..(M - 1) : new[j] = s[Len(s) - M + j + 1]
      <3> SUFFICES ASSUME NEW j \in 1..(M - 1) PROVE new[j] = s[Len(s) - M + j + 1]
        OBVIOUS
      <3>1. new[j] = old[j + 1] /\ j + 1 \in 1..M
        BY <1>m, <2>2, <2>3
      <3>2. CASE Len(s) = M
        BY <1>1, <1>m, <2>1, <3>1, <3>2
      <3>3. CASE Len(s) > M
        BY <1>1, <1>m, <2>1, <3>1, <3>3
      <3> QED BY <1>5, <1>m, <3>2, <3>3
    <2>5. Len(Audit!Newest(long)) = M
      BY <1>3, <1>5, <1>m
    <2>6. ASSUME NEW j \in 1..M PROVE Audit!Newest(long)[j] = new[j]
      <3>1. Audit!Newest(long)[j] = long[Len(s) + 1 - M + j]
        BY <1>3, <1>5, <1>m, <2>5
      <3>2. CASE j = M
        BY <1>2, <1>m, <2>3, <3>1, <3>2
      <3>3. CASE j # M
        <4>1. Len(s) + 1 - M + j \in 1..Len(s) /\ j \in 1..(M - 1)
          BY <1>5, <1>m, <3>3
        <4>2. Len(s) + 1 - M + j = Len(s) - M + j + 1
          BY <1>m
        <4> QED BY <1>2, <2>4, <3>1, <4>1, <4>2
      <3> QED BY <3>2, <3>3
    <2> QED BY <1>3, <2>3, <2>5, <2>6, SeqEqual DEF new, kept, long, old, M
  <1> QED BY <1>4, <1>5, <1>m

\* The first lines of a journal.
LEMMA PrefixShows ==
  ASSUME NEW S, NEW s \in Seq(S), NEW n \in 0..Len(s)
  PROVE  /\ Audit!Prefix(s, n) \in Seq(S) /\ Len(Audit!Prefix(s, n)) = n
         /\ \A i \in 1..n : Audit!Prefix(s, n)[i] = s[i]
  <1>1. \A i \in 1..n : s[i] \in S
    OBVIOUS
  <1>2. n \in Int /\ 1 \in Int /\ Len(s) \in Nat
    OBVIOUS
  <1>3. /\ SubSeq(s, 1, n) \in Seq(S)
        /\ Len(SubSeq(s, 1, n)) = IF 1 <= n THEN n - 1 + 1 ELSE 0
        /\ \A i \in 1..(n - 1 + 1) : SubSeq(s, 1, n)[i] = s[1 + i - 1]
    BY <1>1, <1>2, SubSeqProperties
  <1> QED BY <1>2, <1>3 DEF Audit!Prefix

\* A line is taken off again.
LEMMA PrefixOfAppend ==
  ASSUME NEW S, NEW s \in Seq(S), NEW e \in S
  PROVE  Audit!Prefix(Append(s, e), Len(s)) = s
  <1> DEFINE t == Append(s, e)
  <1>1. t \in Seq(S) /\ Len(t) = Len(s) + 1 /\ Len(s) \in 0..Len(t) /\ \A i \in 1..Len(s) : t[i] = s[i]
    OBVIOUS
  <1> HIDE DEF t
  <1>2. /\ Audit!Prefix(t, Len(s)) \in Seq(S) /\ Len(Audit!Prefix(t, Len(s))) = Len(s)
        /\ \A i \in 1..Len(s) : Audit!Prefix(t, Len(s))[i] = t[i]
    BY <1>1, PrefixShows
  <1> QED BY <1>1, <1>2, SeqEqual DEF t

-----------------------------------------------------------------------------
(* The inductive invariant. *)

Lines == Audit!Records \cup {Audit!Torn}
Intent(r) == <<r, "requested">>
Audited(r) == \E i \in 1..synced : file[i] = Intent(r)

\* The shapes of the state.
AuditShapes ==
  /\ file \in Seq(Lines) /\ synced \in 0..Len(file)
  /\ up \in BOOLEAN /\ closed \in BOOLEAN /\ healthErr \in BOOLEAN
  /\ writer \in Requests \cup {Audit!Idle} /\ pc \in [Requests -> Audit!PC] /\ performed \subseteq Requests

\* A request that may mutate, or has, left its intent among the synced lines.
Traces == \A r \in Requests : r \in performed \/ pc[r] = "handler" => Audited(r)

\* Between its write and its fsync a record is the last line and not yet in the view.
Writing ==
  writer # Audit!Idle =>
    /\ up /\ ~healthErr /\ pc[writer] \in {"intent", "logging"}
    /\ Len(file) > 0 /\ file[Len(file)] = Audit!Appending(writer)
    /\ events = Audit!Newest(Audit!Prefix(file, Len(file) - 1))

\* A process that may still write has no torn line behind it.
Untorn == up /\ ~healthErr => \A i \in 1..Len(file) : file[i] # Audit!Torn

\* The view lacks at most a record that was not confirmed.
View ==
  up /\ writer = Audit!Idle =>
    \/ events = Audit!Newest(file)
    \/ healthErr /\ Len(file) > 0 /\ events = Audit!Newest(Audit!Prefix(file, Len(file) - 1))

\* A process that may still write has at most one record without a newline behind it, which the
\* start found at the end; and at most one such record is followed by another.
Glue ==
  /\ bare \subseteq 1..Len(file)
  /\ up /\ ~healthErr => \A i, j \in bare : i = j
  /\ Audit!GluedOnce

AuditInv == Sensible /\ AuditShapes /\ Traces /\ Writing /\ Untorn /\ Audit!TornIsLast /\ Glue /\ View

\* No synced line but a torn one is ever lost.
LinesKept == \A i \in 1..synced : file[i] # Audit!Torn => i \in 1..synced' /\ file'[i] = file[i]

LEMMA TracesKept ==
  ASSUME AuditInv, LinesKept,
         \A r \in Requests : r \in performed' \/ pc'[r] = "handler"
                                => r \in performed \/ pc[r] = "handler"
  PROVE  Traces'
  <1> SUFFICES ASSUME NEW r \in Requests, r \in performed' \/ pc'[r] = "handler"
               PROVE  Audited(r)'
    BY DEF Traces
  <1>1. PICK i \in 1..synced : file[i] = Intent(r)
    BY DEF AuditInv, Traces, Audited
  <1>2. file[i] # Audit!Torn
    BY <1>1 DEF Intent, Audit!Torn
  <1> QED BY <1>1, <1>2 DEF LinesKept, Audited, Intent

LEMMA AuditInit == ASSUME Sensible, Audit!Init PROVE AuditInv
  <1>1. Len(file) = 0 /\ file \in Seq(Lines) /\ synced = 0
    BY DEF Audit!Init
  <1>2. Audit!Newest(file) = <<>> /\ events = <<>>
    BY <1>1 DEF Audit!Init, Audit!Newest, Sensible
  <1>3. AuditShapes
    <2>1. synced \in 0..Len(file)
      BY <1>1
    <2>2. pc \in [Requests -> Audit!PC]
      BY DEF Audit!Init, Audit!PC
    <2>3. /\ up \in BOOLEAN /\ closed \in BOOLEAN /\ healthErr \in BOOLEAN
          /\ writer \in Requests \cup {Audit!Idle} /\ performed \subseteq Requests
      BY DEF Audit!Init
    <2> QED BY <1>1, <2>1, <2>2, <2>3 DEF AuditShapes
  <1>t. Traces
    BY DEF Audit!Init, Traces
  <1>4. Writing /\ Untorn /\ Audit!TornIsLast /\ View
    BY <1>1, <1>2 DEF Audit!Init, Writing, Untorn, Audit!TornIsLast, View
  <1>5. Glue BY DEF Audit!Init, Glue, Audit!GluedOnce
  <1> QED BY <1>3, <1>4, <1>5, <1>t DEF AuditInv

\* Steps that leave the lines alone: the guard, a refusal, the handler, Close and Exit.
Still ==
  /\ file' = file /\ bare' = bare /\ synced' \in synced..Len(file)
  /\ up' \in BOOLEAN /\ closed' \in BOOLEAN /\ healthErr' \in BOOLEAN
  /\ up' => up /\ events' = events
  /\ healthErr => healthErr'
  /\ writer # Audit!Idle => up' = up /\ healthErr' = healthErr /\ pc'[writer] = pc[writer]
  /\ writer' = writer
  /\ pc' \in [Requests -> Audit!PC] /\ performed' \subseteq Requests
  /\ \A r \in Requests : r \in performed' \/ pc'[r] = "handler"
                            => r \in performed \/ pc[r] = "handler"

LEMMA AuditStill == ASSUME AuditInv, Still PROVE AuditInv'
  <1>1. AuditShapes'
    BY DEF AuditInv, AuditShapes, Still
  <1>2. Traces'
    BY TracesKept DEF Still, LinesKept, AuditInv, AuditShapes
  <1>3. Writing'
    <2> SUFFICES ASSUME writer # Audit!Idle PROVE Writing'
      BY DEF Writing, Still
    <2> QED BY DEF AuditInv, Writing, Still, Audit!Appending
  <1>4. Untorn' /\ Audit!TornIsLast' /\ View'
    BY DEF AuditInv, Untorn, Audit!TornIsLast, View, Still
  <1>5. Glue'
    BY DEF AuditInv, AuditShapes, Glue, Audit!GluedOnce, Still
  <1> QED BY <1>1, <1>2, <1>3, <1>4, <1>5 DEF AuditInv, Sensible

LEMMA StillSteps ==
  ASSUME AuditInv
  PROVE  /\ \A r \in Requests : Audit!auditMutationGuard(r) \/ Audit!RecordRefused(r) \/ Audit!Handler(r) => Still
         /\ Audit!Close \/ Audit!Exit => Still
  <1> USE DEF AuditInv
  <1>t. synced \in synced..Len(file) /\ Len(file) \in synced..Len(file)
    BY DEF AuditShapes
  <1>1. ASSUME NEW r \in Requests, Audit!auditMutationGuard(r) PROVE Still
    BY <1>1, <1>t DEF Audit!auditMutationGuard, Still, AuditShapes, Writing, Audit!PC
  <1>2. ASSUME NEW r \in Requests, Audit!RecordRefused(r) PROVE Still
    <2>1. pc' \in [Requests -> Audit!PC] /\ \A q \in Requests : pc'[q] = "handler" => pc[q] = "handler"
      BY <1>2 DEF Audit!RecordRefused, Audit!Refused, AuditShapes, Audit!PC
    <2> QED BY <1>2, <1>t, <2>1 DEF Audit!RecordRefused, Still, AuditShapes
  <1>3. ASSUME NEW r \in Requests, Audit!Handler(r) PROVE Still
    BY <1>3, <1>t DEF Audit!Handler, Still, AuditShapes, Writing, Audit!PC
  <1>4. CASE Audit!Close
    <2>1. writer = Audit!Idle /\ closed' = TRUE /\ UNCHANGED <<file, bare, events, up, writer, pc, performed>>
      BY <1>4 DEF Audit!Close
    <2>2. healthErr' = healthErr \/ healthErr' = TRUE
      BY <1>4 DEF Audit!Close
    <2>4. healthErr \in BOOLEAN
      BY DEF AuditShapes
    <2>5. healthErr' \in BOOLEAN /\ (healthErr => healthErr')
      <3>1. CASE healthErr' = healthErr
        BY <2>4, <3>1
      <3>2. CASE healthErr' = TRUE
        BY <3>2
      <3> QED BY <2>2, <3>1, <3>2
    <2>3. synced' \in synced..Len(file)
      BY <1>4, <1>t DEF Audit!Close
    <2> QED BY <2>1, <2>3, <2>5 DEF Still, AuditShapes
  <1>5. CASE Audit!Exit
    <2>1. writer = Audit!Idle
      BY <1>5 DEF Audit!Exit, Writing, AuditShapes
    <2> QED BY <1>5, <1>t, <2>1 DEF Audit!Exit, Still, AuditShapes
  <1> QED BY <1>1, <1>2, <1>3, <1>4, <1>5

\* A line is written, whole, in part or not at all.
LEMMA AuditWrite == ASSUME AuditInv, NEW r \in Requests, Audit!RecordWrite(r) PROVE AuditInv'
  <1> USE DEF AuditInv
  <1>1. /\ up /\ up' /\ writer = Audit!Idle /\ ~healthErr /\ pc[r] \in {"intent", "logging"}
        /\ UNCHANGED <<synced, events, closed, performed>> /\ up' = up
    BY DEF Audit!RecordWrite, Audit!Healthy, AuditShapes
  <1>2. events = Audit!Newest(file) /\ \A i \in 1..Len(file) : file[i] # Audit!Torn
    BY <1>1 DEF View, Untorn
  <1>3. Audit!Appending(r) \in Lines /\ Audit!Torn \in Lines /\ Audit!Appending(r) # Audit!Torn
    BY DEF Audit!Appending, Lines, Audit!Records, Audit!Kinds, Audit!Torn
  <1>4. r # Audit!Idle /\ r \in Requests
    BY DEF Sensible
  <1>5. ASSUME NEW e \in Lines, file' = Append(file, e)
        PROVE  /\ file' \in Seq(Lines) /\ Len(file') = Len(file) + 1 /\ file'[Len(file')] = e
               /\ \A i \in 1..Len(file) : file'[i] = file[i]
               /\ Audit!Prefix(file', Len(file') - 1) = file
    <2>1. file \in Seq(Lines)
      BY DEF AuditShapes
    <2>2. /\ file' \in Seq(Lines) /\ Len(file') = Len(file) + 1 /\ file'[Len(file')] = e
          /\ \A i \in 1..Len(file) : file'[i] = file[i] /\ Len(file') - 1 = Len(file)
      BY <1>5, <2>1
    <2>3. Len(file') - 1 = Len(file)
      BY <2>1, <2>2
    <2> QED BY <1>5, <2>1, <2>2, <2>3, PrefixOfAppend
  <1>g. Len(file) \in Nat /\ bare \subseteq 1..Len(file) /\ \A i, j \in bare : i = j
    BY <1>1 DEF Glue, AuditShapes
  <1>6. CASE file' = Append(file, Audit!Appending(r)) /\ writer' = r /\ UNCHANGED <<bare, healthErr, pc>>
    <2>1. /\ file' \in Seq(Lines) /\ Len(file') = Len(file) + 1
          /\ file'[Len(file')] = Audit!Appending(r)
          /\ \A i \in 1..Len(file) : file'[i] = file[i]
          /\ Audit!Prefix(file', Len(file') - 1) = file
      BY <1>3, <1>5, <1>6
    <2>2. \A i \in 1..Len(file') : file'[i] # Audit!Torn
      BY <1>2, <1>3, <2>1 DEF AuditShapes
    <2>3. AuditShapes'
      BY <1>1, <1>4, <1>6, <2>1 DEF AuditShapes
    <2>4. LinesKept
      BY <1>1, <2>1 DEF LinesKept, AuditShapes
    <2>5. Traces'
      BY <1>1, <1>6, <2>4, TracesKept
    <2>6. Writing'
      BY <1>1, <1>2, <1>4, <1>6, <2>1 DEF Writing, Audit!Appending, AuditShapes
    <2>7. Untorn' /\ Audit!TornIsLast' /\ View'
      BY <1>4, <1>6, <2>2 DEF Untorn, Audit!TornIsLast, View
    <2>8. Glue'
      BY <1>6, <1>g, <2>1 DEF Glue, Audit!GluedOnce
    <2> QED BY <2>3, <2>5, <2>6, <2>7, <2>8 DEF Sensible
  <1>7. CASE /\ healthErr' = TRUE /\ writer' = writer /\ Audit!Refused(r)
             /\ \/ file' \in {file, Append(file, Audit!Torn)} /\ bare' = bare
                \/ file' = Append(file, Audit!Appending(r)) /\ bare' = bare \cup {Len(file) + 1}
    <2>1. /\ pc' \in [Requests -> Audit!PC]
          /\ \A q \in Requests : pc'[q] = "handler" => pc[q] = "handler"
      BY <1>7 DEF Audit!Refused, AuditShapes, Audit!PC
    <2>2. CASE file' = file /\ bare' = bare
      <3>1. Still
        BY <1>1, <1>7, <2>1, <2>2 DEF Still, AuditShapes
      <3> QED BY <3>1, AuditStill
    <2>3. ASSUME NEW e \in {Audit!Torn, Audit!Appending(r)}, file' = Append(file, e),
                 bare' \in {bare, bare \cup {Len(file) + 1}}
          PROVE  AuditInv'
      <3>1. /\ file' \in Seq(Lines) /\ Len(file') = Len(file) + 1
            /\ \A i \in 1..Len(file) : file'[i] = file[i]
            /\ Audit!Prefix(file', Len(file') - 1) = file
        BY <1>3, <1>5, <2>3
      <3>2. AuditShapes'
        BY <1>1, <1>7, <2>1, <3>1 DEF AuditShapes
      <3>3. LinesKept
        BY <1>1, <3>1 DEF LinesKept, AuditShapes
      <3>4. Traces'
        BY <1>1, <2>1, <3>3, TracesKept
      <3>5. Writing' /\ Untorn' /\ View'
        BY <1>1, <1>2, <1>7, <3>1 DEF Writing, Untorn, View, AuditShapes
      <3>6. Audit!TornIsLast'
        BY <1>2, <3>1 DEF Audit!TornIsLast, AuditShapes
      <3>7. Glue'
        <4>1. bare' \subseteq 1..(Len(file) + 1) /\ \A i \in bare' : i \in bare \/ i = Len(file) + 1
          BY <1>g, <2>3
        <4>2. Audit!GluedOnce'
          BY <1>g, <3>1, <4>1 DEF Audit!GluedOnce
        <4> QED BY <1>7, <3>1, <4>1, <4>2 DEF Glue
      <3> QED BY <3>2, <3>4, <3>5, <3>6, <3>7 DEF Sensible
    <2> QED BY <1>7, <2>2, <2>3
  <1> QED BY <1>6, <1>7 DEF Audit!RecordWrite

\* The fsync: the record is safe and shown, or the error sticks.
LEMMA AuditSync == ASSUME AuditInv, NEW r \in Requests, Audit!RecordSync(r) PROVE AuditInv'
  <1> USE DEF AuditInv
  <1>1. /\ writer = r /\ r # Audit!Idle /\ writer' = Audit!Idle /\ up' = up /\ up /\ ~healthErr
        /\ UNCHANGED <<file, bare, closed, performed>>
        /\ pc[r] \in {"intent", "logging"} /\ Len(file) > 0 /\ file[Len(file)] = Audit!Appending(r)
        /\ events = Audit!Newest(Audit!Prefix(file, Len(file) - 1))
        /\ \A i \in 1..Len(file) : file[i] # Audit!Torn
    BY DEF Audit!RecordSync, Writing, Sensible, AuditShapes, Untorn
  <1>2. file \in Seq(Lines) /\ Len(file) \in Nat /\ synced \in 0..Len(file)
    BY DEF AuditShapes
  <1>3. CASE /\ synced' = Len(file) /\ Audit!Publish(Audit!Appending(r)) /\ UNCHANGED healthErr
             /\ pc' = [pc EXCEPT ![r] = IF pc[r] = "intent" THEN "handler" ELSE "over"]
    <2>1. pc' \in [Requests -> Audit!PC] /\ \A q \in Requests : q # r => pc'[q] = pc[q]
      BY <1>3 DEF AuditShapes, Audit!PC
    <2>2. AuditShapes'
      BY <1>1, <1>2, <1>3, <2>1 DEF AuditShapes
    <2>3. Traces'
      <3> SUFFICES ASSUME NEW q \in Requests, q \in performed \/ pc'[q] = "handler"
                   PROVE  \E i \in 1..Len(file) : file[i] = Intent(q)
        BY <1>1, <1>3 DEF Traces, Audited, Intent
      <3>1. CASE q \in performed \/ pc[q] = "handler"
        BY <1>2, <3>1 DEF Traces, Audited
      <3>2. CASE ~(q \in performed \/ pc[q] = "handler")
        <4>1. q = r /\ pc[r] = "intent"
          BY <1>3, <2>1, <3>2 DEF AuditShapes
        <4>2. file[Len(file)] = Intent(q)
          BY <1>1, <4>1 DEF Audit!Appending, Intent
        <4> QED BY <1>1, <1>2, <4>2
      <3> QED BY <3>1, <3>2
    <2>4. events' = Audit!Newest(file)
      <3> DEFINE s == Audit!Prefix(file, Len(file) - 1)
      <3>1. s \in Seq(Lines) /\ Len(s) = Len(file) - 1 /\ \A i \in 1..Len(s) : s[i] = file[i]
        <4>1. Len(file) - 1 \in 0..Len(file)
          BY <1>1, <1>2
        <4> QED BY <1>2, <4>1, PrefixShows
      <3>2. Audit!Appending(r) \in Lines
        BY DEF Audit!Appending, Lines, Audit!Records, Audit!Kinds
      <3> HIDE DEF s
      <3>3. file = Append(s, Audit!Appending(r))
        <4> DEFINE t == Append(s, Audit!Appending(r))
        <4>1. /\ t \in Seq(Lines) /\ Len(t) = Len(file) /\ t[Len(file)] = Audit!Appending(r)
              /\ \A i \in 1..(Len(file) - 1) : t[i] = file[i]
          BY <1>1, <1>2, <3>1, <3>2
        <4> HIDE DEF t
        <4>2. \A i \in 1..Len(file) : t[i] = file[i]
          BY <1>1, <1>2, <4>1
        <4> QED BY <1>2, <4>1, <4>2, SeqEqual DEF t
      <3>4. events = Audit!Newest(s)
        BY <1>1 DEF s
      <3>5. Audit!Newest(Append(s, Audit!Appending(r))) =
              Append(IF Len(Audit!Newest(s)) = MaxEntries THEN Tail(Audit!Newest(s)) ELSE Audit!Newest(s), Audit!Appending(r))
        BY <3>1, <3>2, WindowShowsNewest
      <3> QED BY <1>3, <3>3, <3>4, <3>5 DEF Audit!Publish
    <2>5. Writing' /\ Untorn' /\ Audit!TornIsLast' /\ View'
      BY <1>1, <1>3, <2>4 DEF Writing, Untorn, Audit!TornIsLast, View
    <2>6. Glue'
      BY <1>1, <1>3 DEF Glue, Audit!GluedOnce
    <2> QED BY <2>2, <2>3, <2>5, <2>6 DEF Sensible
  <1>4. CASE healthErr' = TRUE /\ Audit!Refused(r) /\ UNCHANGED <<synced, events>>
    <2>1. /\ pc' \in [Requests -> Audit!PC]
          /\ \A q \in Requests : pc'[q] = "handler" => pc[q] = "handler"
      BY <1>4 DEF Audit!Refused, AuditShapes, Audit!PC
    <2>2. AuditShapes'
      BY <1>1, <1>4, <2>1 DEF AuditShapes
    <2>3. LinesKept
      BY <1>1, <1>4 DEF LinesKept
    <2>4. Traces'
      BY <1>1, <2>1, <2>3, TracesKept
    <2>5. Writing' /\ Untorn' /\ Audit!TornIsLast' /\ View'
      BY <1>1, <1>4 DEF Writing, Untorn, Audit!TornIsLast, View
    <2>6. Glue'
      BY <1>1, <1>4 DEF Glue, Audit!GluedOnce
    <2> QED BY <2>2, <2>4, <2>5, <2>6 DEF Sensible
  <1> QED BY <1>3, <1>4 DEF Audit!RecordSync

\* A crash keeps the synced lines.
LEMMA AuditCrash == ASSUME AuditInv, Audit!Crash PROVE AuditInv'
  <1> USE DEF AuditInv
  <1>1. PICK n \in synced..Len(file) :
          \/ file' = Audit!Prefix(file, n) /\ bare' = bare \cap 1..n
          \/ n < Len(file) /\ file' = Append(Audit!Prefix(file, n), Audit!Torn) /\ bare' = bare \cap 1..n
          \/ n < Len(file) /\ file' = Audit!Prefix(file, n + 1) /\ bare' = (bare \cap 1..n) \cup {n + 1}
    BY DEF Audit!Crash
  <1>2. /\ ~up' /\ up' \in BOOLEAN /\ writer' = Audit!Idle /\ synced' = Len(file')
        /\ UNCHANGED <<closed, healthErr, performed>>
        /\ pc' = [r \in Requests |-> IF pc[r] = "new" THEN "new" ELSE "over"]
    BY DEF Audit!Crash
  <1>3. file \in Seq(Lines) /\ Len(file) \in Nat /\ synced \in 0..Len(file) /\ n \in 0..Len(file)
    BY <1>1 DEF AuditShapes
  <1> DEFINE s == Audit!Prefix(file, n)
  <1>4. s \in Seq(Lines) /\ Len(s) = n /\ \A i \in 1..n : s[i] = file[i]
    BY <1>3, PrefixShows
  <1> HIDE DEF s
  <1>5. /\ file' \in Seq(Lines) /\ Len(file') >= n /\ Len(file') \in Nat
        /\ \A i \in 1..n : file'[i] = file[i]
        /\ \/ Len(file') = n
           \/ Len(file') = n + 1 /\ n < Len(file)
        /\ \/ bare' = bare \cap 1..n
           \/ Len(file') = n + 1 /\ n < Len(file) /\ bare' = (bare \cap 1..n) \cup {n + 1}
    <2>1. CASE file' = s /\ bare' = bare \cap 1..n
      BY <1>3, <1>4, <2>1
    <2>3. CASE n < Len(file) /\ file' = Audit!Prefix(file, n + 1) /\ bare' = (bare \cap 1..n) \cup {n + 1}
      <3>1. n + 1 \in 0..Len(file)
        BY <1>3, <2>3
      <3>2. file' \in Seq(Lines) /\ Len(file') = n + 1 /\ \A i \in 1..(n + 1) : file'[i] = file[i]
        BY <1>3, <2>3, <3>1, PrefixShows
      <3> QED BY <1>3, <2>3, <3>2
    <2>2. CASE n < Len(file) /\ file' = Append(s, Audit!Torn) /\ bare' = bare \cap 1..n
      <3>1. Audit!Torn \in Lines
        BY DEF Lines
      <3> QED BY <1>3, <1>4, <2>2, <3>1
    <2> QED BY <1>1, <2>1, <2>2, <2>3 DEF s
  <1>6. pc' \in [Requests -> Audit!PC] /\ \A r \in Requests : pc'[r] # "handler"
    BY <1>2 DEF Audit!PC
  <1>7. AuditShapes'
    <2>1. synced' \in 0..Len(file')
      BY <1>2, <1>5
    <2> QED BY <1>2, <1>5, <1>6, <2>1 DEF AuditShapes
  <1>8. LinesKept
    BY <1>1, <1>2, <1>3, <1>5 DEF LinesKept
  <1>9. Traces'
    BY <1>2, <1>6, <1>8, TracesKept
  <1>a. Audit!TornIsLast'
    <2> SUFFICES ASSUME NEW i \in 1..Len(file'), file'[i] = Audit!Torn, i # Len(file') PROVE FALSE
      BY DEF Audit!TornIsLast
    <2>1. i \in 1..n /\ i # Len(file) /\ i \in 1..Len(file)
      BY <1>3, <1>5
    <2> QED BY <1>5, <2>1 DEF Audit!TornIsLast
  <1>b. Writing' /\ Untorn' /\ View'
    BY <1>2 DEF Writing, Untorn, View
  <1>c. Glue'
    <2>1. bare' \subseteq 1..Len(file')
      BY <1>3, <1>5
    <2>2. \A i \in bare' : i < Len(file') => i \in bare /\ i < Len(file)
      BY <1>3, <1>5
    <2>3. Audit!GluedOnce'
      BY <2>2 DEF Glue, Audit!GluedOnce
    <2> QED BY <1>2, <2>1, <2>3 DEF Glue
  <1> QED BY <1>7, <1>9, <1>a, <1>b, <1>c DEF Sensible

\* The start reads the whole journal, through the ring.
LEMMA AuditOpen == ASSUME AuditInv, Audit!NewAuditManager PROVE AuditInv'
  <1> USE DEF AuditInv
  <1>1. /\ up' = TRUE /\ healthErr' = FALSE /\ closed' = FALSE /\ synced' = Len(file)
        /\ UNCHANGED <<file, bare, writer, pc, performed>> /\ events' = Audit!Ordered(file)
        /\ \A i \in 1..Len(file) : file[i] # Audit!Torn
        /\ \A i \in bare : i = Len(file)
    BY DEF Audit!NewAuditManager, Audit!Readable
  <1>2. file \in Seq(Lines) /\ Len(file) \in Nat /\ synced \in 0..Len(file)
    BY DEF AuditShapes
  <1>3. writer = Audit!Idle
    BY DEF Audit!NewAuditManager, Writing
  <1>4. AuditShapes'
    <2>1. synced' \in 0..Len(file')
      BY <1>1, <1>2
    <2> QED BY <1>1, <2>1 DEF AuditShapes
  <1>5. LinesKept
    BY <1>1, <1>2 DEF LinesKept
  <1>6. Traces'
    BY <1>1, <1>5, TracesKept
  <1>7. events' = Audit!Newest(file)
    BY <1>1, <1>2, RingShowsNewest
  <1>8. Writing' /\ Untorn' /\ Audit!TornIsLast' /\ View'
    BY <1>1, <1>3, <1>7 DEF Writing, Untorn, Audit!TornIsLast, View
  <1>9. Glue'
    BY <1>1, <1>2 DEF Glue, Audit!GluedOnce
  <1> QED BY <1>4, <1>6, <1>8, <1>9 DEF Sensible

\* The repair takes part of a record away and parts two records, and nothing else.
LEMMA AuditRepair == ASSUME AuditInv, Audit!Repair PROVE AuditInv'
  <1> USE DEF AuditInv
  <1>1. /\ ~up /\ bare' = {} /\ synced' = Len(file')
        /\ file' = IF file[Len(file)] = Audit!Torn THEN Audit!Prefix(file, Len(file) - 1) ELSE file
        /\ UNCHANGED <<events, up, closed, healthErr, writer, pc, performed>>
    BY DEF Audit!Repair
  <1>2. file \in Seq(Lines) /\ Len(file) \in Nat /\ synced \in 0..Len(file)
    BY DEF AuditShapes
  <1>0. Len(file) > 0
    <2>1. \E i \in 1..Len(file) : TRUE
      BY DEF Audit!Repair, Audit!Readable, Glue
    <2> QED BY <1>2, <2>1
  <1>3. /\ file' \in Seq(Lines) /\ Len(file') \in Nat
        /\ Len(file') = Len(file) \/ (Len(file') = Len(file) - 1 /\ file[Len(file)] = Audit!Torn)
        /\ \A i \in 1..Len(file') : file'[i] = file[i]
    <2>1. Len(file) - 1 \in 0..Len(file)
      BY <1>0, <1>2
    <2>2. CASE file[Len(file)] = Audit!Torn
      <3>1. file' = Audit!Prefix(file, Len(file) - 1)
        BY <1>1, <2>2
      <3>2. /\ Audit!Prefix(file, Len(file) - 1) \in Seq(Lines)
            /\ Len(Audit!Prefix(file, Len(file) - 1)) = Len(file) - 1
            /\ \A i \in 1..(Len(file) - 1) : Audit!Prefix(file, Len(file) - 1)[i] = file[i]
        BY <1>2, <2>1, PrefixShows
      <3> QED BY <1>0, <1>2, <2>2, <3>1, <3>2
    <2>3. CASE file[Len(file)] # Audit!Torn
      BY <1>1, <1>2, <2>3
    <2> QED BY <2>2, <2>3
  <1>4. AuditShapes'
    <2>1. synced' \in 0..Len(file')
      BY <1>1, <1>3
    <2> QED BY <1>1, <1>3, <2>1 DEF AuditShapes
  <1>5. LinesKept
    BY <1>1, <1>2, <1>3 DEF LinesKept
  <1>6. Traces'
    BY <1>1, <1>5, TracesKept
  <1>7. writer = Audit!Idle
    BY <1>1 DEF Writing
  <1>8. Audit!TornIsLast'
    BY <1>2, <1>3 DEF Audit!TornIsLast
  <1>9. Writing' /\ Untorn' /\ View' /\ Glue'
    BY <1>1, <1>7 DEF Writing, Untorn, View, Glue, Audit!GluedOnce
  <1> QED BY <1>4, <1>6, <1>8, <1>9 DEF Sensible

\* Every step keeps the invariant.
LEMMA AuditNext == ASSUME AuditInv, [Audit!Next]_(Audit!vars) PROVE AuditInv'
  <1>1. CASE UNCHANGED Audit!vars
    BY <1>1 DEF Audit!vars, AuditInv, Sensible, AuditShapes, Traces, Audited, Writing, Untorn, Audit!TornIsLast, View,
                Glue, Audit!GluedOnce, Audit!Appending
  <1> QED BY <1>1, StillSteps, AuditStill, AuditWrite, AuditSync, AuditCrash, AuditOpen,
             AuditRepair DEF Audit!Next

\* What the invariant says of the properties.
LEMMA AuditSafe ==
  ASSUME AuditInv
  PROVE  Audit!PerformedIsAudited /\ Audit!TornIsLast /\ Audit!GluedOnce /\ Audit!ViewIsNewest
  <1> USE DEF AuditInv
  <1>1. Audit!PerformedIsAudited
    BY DEF Audit!PerformedIsAudited, Traces, Audited, Intent, AuditShapes
  <1>2. Audit!ViewIsNewest
    <2> SUFFICES ASSUME up
                 PROVE  \E n \in {Len(file), Len(file) - 1} :
                          /\ 0 <= n /\ (n < Len(file) => healthErr \/ writer # Audit!Idle)
                          /\ events = Audit!Newest(Audit!Prefix(file, n))
      BY DEF Audit!ViewIsNewest
    <2>1. file \in Seq(Lines) /\ Len(file) \in Nat
      BY DEF AuditShapes
    <2>2. Audit!Prefix(file, Len(file)) = file
      BY <2>1, SubSeqFull DEF Audit!Prefix
    <2>3. CASE writer = Audit!Idle /\ events = Audit!Newest(file)
      BY <2>1, <2>2, <2>3
    <2>4. CASE writer # Audit!Idle \/ events # Audit!Newest(file)
      <3>1. /\ Len(file) > 0 /\ events = Audit!Newest(Audit!Prefix(file, Len(file) - 1))
            /\ healthErr \/ writer # Audit!Idle
        BY <2>4 DEF Writing, View
      <3> QED BY <2>1, <3>1
    <2> QED BY <2>3, <2>4
  <1> QED BY <1>1, <1>2 DEF Glue

-----------------------------------------------------------------------------
(* The backups of a cluster. *)

\* The hypothesis: backups are numbered, and the schedule and the faults are counted.
Dated == Backups \subseteq Nat /\ MaxDue \in Nat /\ BackupFaults \in Nat

\* The places of a job, and the kinds of job that can be there.
BackupPlaces == {"snapshot", "upload", "record", "ending", "pruneRemote", "pruneLocal"}
DeletePlaces == {"deleteLocal"}
RestorePlaces == {"check", "reset", "wait", "recover", "workers", "health"}
Places == BackupPlaces \cup DeletePlaces \cup RestorePlaces \cup {"forget"}
BackupJobs == [pc : Places, kind : {"backup", "delete", "restore"}, id : Backups \cup {0},
               target : {"local", "s3"}]

\* The shapes of the state.
BackupShapes ==
    /\ Backup!TypeOK
    /\ started \in [1..MaxDue -> Nat] /\ resets \in Nat /\ changed \in BOOLEAN
    /\ location \in Locations \cup {"none"} /\ planned \in Backups \cup {0}
    /\ job \in BackupJobs \cup {Backup!Idle}

\* A job is where its kind takes it, and works on an archive that was made or is to be removed.
Working ==
    /\ job.pc \in BackupPlaces => job.kind = "backup"
    /\ job.pc \in DeletePlaces => job.kind = "delete"
    /\ job.pc = "forget" => job.kind \in {"backup", "delete"}
    /\ job.pc \in {"upload", "record", "ending", "forget", "deleteLocal"} => job.id \in Backups
    /\ job.pc = "record" => objects[job.id] = location /\ location # "none"

\* The journal knows the due times it started.
DueKnown == \A d \in 1..MaxDue : started[d] = IF d \in keys THEN 1 ELSE 0

\* How far an approved restore got: before it starts nothing is wiped, the nodes are wiped by the
\* execution that marked the plan, and that one by one; a job that still runs has no result; and
\* the nodes that the wait found preparing were wiped, all of them when it is over.
RestoreProgress ==
    /\ plan # "started" => resets = 0 /\ \A n \in Nodes : etcd[n] = "old"
    /\ plan \in {"planned", "expired"} => planned \in Backups
    /\ job.pc = "check" => plan # "started"
    /\ job.pc \in {"reset", "wait", "recover", "workers", "health"} => plan = "started"
    /\ job.pc \in {"check", "reset", "wait", "recover", "workers", "health"}
       => result = "none" /\ job.kind = "restore"
    /\ job.pc = "reset" => /\ \A n \in Nodes : etcd[n] # "restored"
                           /\ resets = 0 => \A n \in Nodes : etcd[n] = "old"
                           /\ resets # 0 => \E n \in Nodes : etcd[n] # "old"
    /\ polled # {} => job.pc \in {"wait", "recover", "workers", "health"}
    /\ \A n \in polled : etcd[n] \notin {"old", "resetting"}
    /\ job.pc = "recover" => polled = Nodes
    /\ Backup!ResetOnce

\* The inductive invariant, without and with what a restore says at its end.
BackupCore == Dated /\ BackupShapes /\ Working /\ DueKnown /\ RestoreProgress /\ Backup!RecordedIsThere
BackupInv == BackupCore /\ Backup!RestoreEndsHonestly

\* The smallest backup of a set is in it.
LEMMA Earliest ==
  ASSUME NEW S, S \subseteq Nat, S # {}
  PROVE  Backup!Min(S) \in S
<1> DEFINE less == {ss \in Nat \X Nat : ss[1] < ss[2]}
<1>1. IsWellFoundedOn(less, Nat) BY NatLessThanWellFounded DEF OpToRel
<1>2. \E x \in S : \A y \in S : <<y, x>> \notin less
  <2> HIDE DEF less
  <2> QED BY <1>1, WFMin
<1>3. \E x \in S : \A y \in S : x <= y
  <2>1. PICK x \in S : \A y \in S : <<y, x>> \notin less BY <1>2
  <2>2. ASSUME NEW y \in S PROVE x <= y
    <3>1. x \in Nat /\ y \in Nat BY <2>1
    <3>2. <<y, x>> \in Nat \X Nat BY <3>1
    <3>3. ~(y < x) BY <2>1, <3>2
    <3> QED BY <3>1, <3>3
  <2> QED BY <2>2
<1> QED BY <1>3 DEF Backup!Min

\* Faults stay within their budget.
LEMMA BackupBudget ==
  ASSUME BackupCore, Backup!Fault \/ Backup!NoFault
  PROVE  faults' \in 0..BackupFaults
<1>1. faults \in 0..BackupFaults /\ BackupFaults \in Nat BY DEF BackupCore, BackupShapes, Backup!TypeOK,
                                                               Dated
<1> QED BY <1>1 DEF Backup!Fault, Backup!NoFault

\* A job in one of its places is a job, and what moving it leaves alone.
LEMMA Working1 ==
  ASSUME BackupShapes, NEW x \in Places, Backup!At(x)
  PROVE  job \in BackupJobs /\ job.pc = x /\ x # "idle"
  BY DEF BackupShapes, Backup!At, Backup!Idle, Places, BackupPlaces, DeletePlaces, RestorePlaces

\* Moving a job keeps its kind.
LEMMA Moved ==
  ASSUME job \in BackupJobs, NEW x \in Places, NEW b \in Backups \cup {0},
         job' = [job EXCEPT !.pc = x, !.id = b] \/ (Backup!Goto(x) /\ b = job.id)
  PROVE  job' \in BackupJobs /\ job'.pc = x /\ job'.kind = job.kind /\ job'.id = b
  BY DEF BackupJobs, Backup!Goto

\* Other jobs and changes leave the restore where it is.
LEMMA ProgressStays ==
  ASSUME BackupCore, UNCHANGED <<plan, planned, etcd, resets, polled, result>>,
         job' = job \/ (job.pc \notin RestorePlaces /\ job'.pc \notin RestorePlaces)
  PROVE  RestoreProgress'
  BY DEF BackupCore, RestoreProgress, RestorePlaces, Backup!ResetOnce

\* A new location of the target changes no job and no copy (SaveTarget).
LEMMA SaveTargetKeeps ==
  ASSUME BackupCore, NEW l \in Locations, Backup!SaveTarget(l)
  PROVE  BackupCore'
<1>1. Dated' BY DEF BackupCore, Dated
<1>2. BackupShapes'
  BY DEF BackupCore, Dated, BackupShapes, BackupJobs, Backup!SaveTarget, Backup!TypeOK, Backup!catalog,
        Backup!restore, Backup!outcome
<1>3. Working'
  BY DEF BackupCore, Dated, Working, BackupShapes, Backup!SaveTarget, Backup!Busy, Backup!Idle
<1>4. DueKnown'
  BY DEF BackupCore, DueKnown, Backup!SaveTarget
<1>5. RestoreProgress'
  BY DEF BackupCore, Dated, RestoreProgress, BackupShapes, BackupJobs, Backup!ResetOnce,
        Backup!SaveTarget, Backup!restore, Backup!outcome
<1>6. Backup!RecordedIsThere'
  BY DEF BackupCore, Backup!RecordedIsThere, Backup!SaveTarget, Backup!catalog
<1> QED BY <1>1, <1>2, <1>3, <1>4, <1>5, <1>6 DEF BackupCore

\* The journal starts a job of a due time at most once (the idempotency key of the schedule).
LEMMA ScheduleDueKeeps ==
  ASSUME BackupCore, NEW t \in {"local", "s3"}, Backup!ScheduleDue(t)
  PROVE  BackupCore'
<1>1. Dated' BY DEF BackupCore, Dated
<1>2. BackupShapes'
  <2>1. keys' \subseteq 1..MaxDue /\ due' \in 1..(MaxDue + 1)
    <3>1. due \in 1..MaxDue /\ due + 1 \in 1..(MaxDue + 1) /\ due \in 1..(MaxDue + 1) /\ keys \subseteq 1..MaxDue
      BY DEF BackupCore, Dated, BackupShapes, Backup!TypeOK, Backup!ScheduleDue
    <3>2. due' \in {due, due + 1} /\ keys' \subseteq keys \cup {due} BY DEF Backup!ScheduleDue
    <3> QED BY <3>1, <3>2
  <2>2. started' \in [1..MaxDue -> Nat]
    BY DEF BackupCore, BackupShapes, Backup!ScheduleDue
  <2>3. job' \in BackupJobs \cup {Backup!Idle}
    BY DEF BackupCore, BackupShapes, BackupJobs, Places, BackupPlaces, Backup!ScheduleDue
  <2>4. faults' \in 0..BackupFaults
    <3>1. Backup!Fault \/ Backup!NoFault BY DEF Backup!ScheduleDue
    <3> QED BY <3>1, BackupBudget
  <2>5. UNCHANGED <<local, partial, inventory, remote, objects, removing, location, plan, planned, changed, etcd, resets, stop, polled, result>>
    BY DEF Backup!ScheduleDue, Backup!catalog, Backup!restore, Backup!outcome
  <2> QED BY <2>1, <2>2, <2>3, <2>4, <2>5 DEF BackupCore, BackupShapes, Backup!TypeOK
<1>3. Working'
  BY DEF BackupCore, Dated, Working, BackupShapes, DeletePlaces, Backup!ScheduleDue, Backup!catalog
<1>4. DueKnown'
  BY DEF BackupCore, Dated, DueKnown, BackupShapes, Backup!ScheduleDue
<1>5. RestoreProgress'
  BY ProgressStays DEF Backup!ScheduleDue, Backup!restore, Backup!outcome, Backup!Busy, Backup!Idle, Backup!At, Backup!End, RestorePlaces
<1>6. Backup!RecordedIsThere'
  BY DEF BackupCore, Backup!RecordedIsThere, Backup!ScheduleDue, Backup!catalog
<1> QED BY <1>1, <1>2, <1>3, <1>4, <1>5, <1>6 DEF BackupCore

\* A job is queued by a request.
LEMMA CreateBackupKeeps ==
  ASSUME BackupCore, NEW t \in {"local", "s3"}, Backup!CreateBackup(t)
  PROVE  BackupCore'
<1>1. Dated' BY DEF BackupCore, Dated
<1>2. BackupShapes'
  BY DEF BackupCore, Dated, BackupShapes, BackupJobs, Places, BackupPlaces, Backup!CreateBackup,
        Backup!TypeOK, Backup!catalog, Backup!settings, Backup!restore, Backup!outcome
<1>3. Working'
  BY DEF BackupCore, Dated, Working, BackupShapes, DeletePlaces, Backup!CreateBackup
<1>4. DueKnown'
  BY DEF BackupCore, DueKnown, Backup!CreateBackup, Backup!settings
<1>5. RestoreProgress'
  BY ProgressStays DEF Backup!CreateBackup, Backup!restore, Backup!outcome, Backup!Busy, Backup!Idle, Backup!At, Backup!End, RestorePlaces
<1>6. Backup!RecordedIsThere'
  BY DEF BackupCore, Backup!RecordedIsThere, Backup!CreateBackup, Backup!catalog, Backup!settings
<1> QED BY <1>1, <1>2, <1>3, <1>4, <1>5, <1>6 DEF BackupCore

\* The archive of a new number is written (CreateFullClusterBackup).
LEMMA SnapshotKeeps ==
  ASSUME BackupCore, Backup!Snapshot
  PROVE  BackupCore'
<1>1. job \in BackupJobs /\ job.pc = "snapshot"
  BY Working1 DEF BackupCore, Backup!Snapshot, Places, BackupPlaces
<1>2. PICK b \in Backups : /\ b = Backup!Min(Backup!Unused) /\ b \in Backup!Unused
  BY Earliest DEF BackupCore, Dated, Backup!Snapshot, Backup!Unused
<1>3. job' = Backup!Idle \/ \E x \in {"upload", "ending"} : job' = [job EXCEPT !.pc = x, !.id = b]
  BY <1>2 DEF Backup!Snapshot, Backup!End
<1>4. \/ job' = Backup!Idle
      \/ /\ job' \in BackupJobs /\ job'.kind = job.kind /\ job'.id = b
         /\ job'.pc \in {"upload", "ending"}
  BY <1>1, <1>3, Moved DEF Places, BackupPlaces, DeletePlaces, RestorePlaces
<1>5. /\ local' \in {local, [local EXCEPT ![b] = "good"]} /\ partial' \in {partial, partial \cup {b}}
      /\ inventory' \in {inventory, inventory \cup {b}}
  BY <1>2 DEF Backup!Snapshot, Backup!Archived, Backup!Gathered
<1>6. UNCHANGED <<remote, objects, removing, location, due, keys, started, plan, planned, changed, etcd, resets, stop, polled, result>>
  BY DEF Backup!Snapshot, Backup!settings, Backup!restore, Backup!outcome
<1>7. faults' \in 0..BackupFaults
  <2>1. Backup!Fault \/ Backup!NoFault BY DEF Backup!Snapshot
  <2> QED BY <2>1, BackupBudget
<1> QED
  <2>1. BackupShapes' BY <1>4, <1>5, <1>6, <1>7 DEF BackupCore, BackupShapes, Backup!TypeOK
  <2>2. Working' BY <1>1, <1>4, <1>6 DEF BackupCore, Working, BackupPlaces, DeletePlaces, Backup!Idle
  <2>3. DueKnown' BY <1>6 DEF BackupCore, DueKnown
  <2>4. RestoreProgress' BY <1>1, <1>4, <1>6, ProgressStays DEF Backup!Idle, RestorePlaces
  <2>5. Backup!RecordedIsThere' BY <1>6 DEF BackupCore, Backup!RecordedIsThere
  <2> QED BY <1>6, <2>1, <2>2, <2>3, <2>4, <2>5 DEF BackupCore, Dated

\* The upload puts the archive where the target is (Run).
LEMMA UploadKeeps ==
  ASSUME BackupCore, Backup!Upload
  PROVE  BackupCore'
<1>1. job \in BackupJobs /\ job.pc = "upload"
  BY Working1 DEF BackupCore, Backup!Upload, Places, BackupPlaces
<1>2. job.id \in Backups \cup {0} BY <1>1 DEF BackupJobs
<1>3. job' = Backup!Idle \/ \E x \in {"record"} : Backup!Goto(x)
  BY <1>1 DEF Backup!Upload, Backup!Goto, Backup!End
<1>4. \/ job' = Backup!Idle
      \/ /\ job' \in BackupJobs /\ job'.kind = job.kind /\ job'.id = job.id
         /\ job'.pc \in {"record"}
  BY <1>1, <1>2, <1>3, Moved DEF Places, BackupPlaces, DeletePlaces, RestorePlaces
<1> QED
  <2>1. BackupShapes'
    BY <1>1, <1>2, <1>4 DEF BackupCore, Dated, BackupShapes, Backup!TypeOK, Backup!Upload,
          Backup!settings, Backup!restore, Backup!outcome, Backup!Fault, Backup!NoFault, Backup!At, Backup!Goto, Backup!Idle
  <2>2. Working'
    BY <1>1, <1>2, <1>4 DEF BackupCore, Dated, Working, Backup!TypeOK, BackupShapes, BackupPlaces,
          DeletePlaces, Backup!Upload, Backup!settings, Backup!End, Backup!Idle
  <2>3. DueKnown'
    BY <1>1, <1>2, <1>4 DEF BackupCore, DueKnown, Backup!Upload, Backup!settings
  <2>4. RestoreProgress'
    BY <1>1, <1>2, <1>4 DEF BackupCore, Dated, RestoreProgress, Backup!TypeOK, Backup!ResetOnce,
          Backup!Upload, Backup!restore, Backup!outcome, Backup!Idle
  <2>5. Backup!RecordedIsThere'
    BY <1>1, <1>2, <1>4 DEF BackupCore, Backup!RecordedIsThere, Backup!TypeOK, BackupShapes,
          Backup!Upload, Backup!settings
  <2>6. Dated' BY DEF BackupCore, Dated
  <2> QED BY <2>1, <2>2, <2>3, <2>4, <2>5, <2>6 DEF BackupCore

\* The catalogue lists a copy that the upload has put there.
LEMMA RecordRemoteKeeps ==
  ASSUME BackupCore, Backup!RecordRemote
  PROVE  BackupCore'
<1>1. job \in BackupJobs /\ job.pc = "record"
  BY Working1 DEF BackupCore, Backup!RecordRemote, Places, BackupPlaces
<1>2. job.id \in Backups \cup {0} BY <1>1 DEF BackupJobs
<1>3. job' = Backup!Idle \/ \E x \in {"ending"} : Backup!Goto(x)
  BY <1>1 DEF Backup!RecordRemote, Backup!Goto, Backup!End
<1>4. \/ job' = Backup!Idle
      \/ /\ job' \in BackupJobs /\ job'.kind = job.kind /\ job'.id = job.id
         /\ job'.pc \in {"ending"}
  BY <1>1, <1>2, <1>3, Moved DEF Places, BackupPlaces, DeletePlaces, RestorePlaces
<1>5. job.id \in Backups BY <1>1 DEF BackupCore, Working
<1> QED
  <2>1. BackupShapes'
    BY <1>1, <1>2, <1>4, <1>5 DEF BackupCore, Dated, BackupShapes, Backup!TypeOK, Backup!RecordRemote,
          Backup!settings, Backup!restore, Backup!outcome, Backup!Fault, Backup!NoFault
  <2>2. Working'
    BY <1>1, <1>2, <1>4, <1>5 DEF BackupCore, Dated, Working, BackupPlaces, DeletePlaces, Backup!Idle
  <2>3. DueKnown'
    BY <1>1, <1>2, <1>4, <1>5 DEF BackupCore, DueKnown, Backup!RecordRemote, Backup!settings
  <2>4. RestoreProgress'
    BY <1>1, <1>2, <1>4, <1>5 DEF BackupCore, Dated, RestoreProgress, Backup!TypeOK, Backup!ResetOnce,
          Backup!RecordRemote, Backup!restore, Backup!outcome, Backup!Idle
  <2>5. Backup!RecordedIsThere'
    BY <1>1, <1>2, <1>4, <1>5 DEF BackupCore, Backup!RecordedIsThere, Working, Backup!RecordRemote,
          Backup!settings
  <2>6. Dated' BY DEF BackupCore, Dated
  <2> QED BY <2>1, <2>2, <2>3, <2>4, <2>5, <2>6 DEF BackupCore

\* A backup goes on to the retention or ends.
LEMMA EndingKeeps ==
  ASSUME BackupCore, Backup!Ending
  PROVE  BackupCore'
<1>1. job \in BackupJobs /\ job.pc = "ending"
  BY Working1 DEF BackupCore, Backup!Ending, Places, BackupPlaces
<1>2. job.id \in Backups \cup {0} BY <1>1 DEF BackupJobs
<1>3. job' = Backup!Idle \/ \E x \in {"pruneRemote"} : Backup!Goto(x)
  BY <1>1 DEF Backup!Ending, Backup!Goto, Backup!End
<1>4. \/ job' = Backup!Idle
      \/ /\ job' \in BackupJobs /\ job'.kind = job.kind /\ job'.id = job.id
         /\ job'.pc \in {"pruneRemote"}
  BY <1>1, <1>2, <1>3, Moved DEF Places, BackupPlaces, DeletePlaces, RestorePlaces
<1> QED
  <2>1. BackupShapes'
    BY <1>1, <1>2, <1>4 DEF BackupCore, BackupShapes, Backup!TypeOK, Backup!Ending, Backup!catalog,
          Backup!settings, Backup!restore, Backup!outcome
  <2>2. Working'
    BY <1>1, <1>2, <1>4 DEF BackupCore, Dated, Working, BackupPlaces, DeletePlaces, Backup!Idle
  <2>3. DueKnown'
    BY <1>1, <1>2, <1>4 DEF BackupCore, DueKnown, Backup!Ending, Backup!settings
  <2>4. RestoreProgress'
    BY <1>1, <1>2, <1>4 DEF BackupCore, Dated, RestoreProgress, Backup!TypeOK, Backup!ResetOnce,
          Backup!Ending, Backup!restore, Backup!outcome, Backup!Idle
  <2>5. Backup!RecordedIsThere'
    BY <1>1, <1>2, <1>4 DEF BackupCore, Backup!RecordedIsThere, Backup!Ending, Backup!catalog,
          Backup!settings
  <2>6. Dated' BY DEF BackupCore, Dated
  <2> QED BY <2>1, <2>2, <2>3, <2>4, <2>5, <2>6 DEF BackupCore

\* Retention removes remote copies and may leave them listed (prune).
LEMMA PruneRemoteKeeps ==
  ASSUME BackupCore, Backup!PruneRemote
  PROVE  BackupCore'
<1>1. job \in BackupJobs /\ job.pc = "pruneRemote"
  BY Working1 DEF BackupCore, Backup!PruneRemote, Places, BackupPlaces
<1>2. job.id \in Backups \cup {0} BY <1>1 DEF BackupJobs
<1>3. UNCHANGED <<local, partial, inventory, remote, location, due, keys, started, plan, planned, changed, etcd, resets, stop, polled, result>>
  BY DEF Backup!PruneRemote, Backup!settings, Backup!restore, Backup!outcome
<1>4. faults' \in 0..BackupFaults
  <2>1. Backup!Fault \/ Backup!NoFault BY DEF Backup!PruneRemote
  <2> QED BY <2>1, BackupBudget
<1>5. CASE Backup!Goto("pruneLocal") /\ UNCHANGED <<objects, removing>>
  <2>1. job' \in BackupJobs /\ job'.pc = "pruneLocal" /\ job'.kind = job.kind
    BY <1>1, <1>2, <1>5, Moved DEF Places, BackupPlaces, DeletePlaces, RestorePlaces
  <2>2. BackupShapes' BY <1>3, <1>4, <1>5, <2>1 DEF BackupCore, BackupShapes, Backup!TypeOK
  <2>3. Working' BY <1>1, <2>1 DEF BackupCore, Working, BackupPlaces, DeletePlaces
  <2>4. DueKnown' BY <1>3 DEF BackupCore, DueKnown
  <2>5. RestoreProgress' BY <1>1, <1>3, <2>1, ProgressStays DEF RestorePlaces
  <2>6. Backup!RecordedIsThere' BY <1>3, <1>5 DEF BackupCore, Backup!RecordedIsThere
  <2> QED BY <2>2, <2>3, <2>4, <2>5, <2>6 DEF BackupCore, Dated
<1>6. ASSUME NEW b \in Backups, removing' = removing \cup {b},
             objects' \in {objects, [objects EXCEPT ![b] = "none"]},
             job' = [job EXCEPT !.pc = "forget", !.id = b] \/ job' = Backup!Idle
      PROVE  BackupCore'
  <2>1. \/ job' = Backup!Idle
        \/ job' \in BackupJobs /\ job'.kind = job.kind /\ job'.id = b /\ job'.pc = "forget"
    BY <1>1, <1>6, Moved DEF Places, BackupPlaces, DeletePlaces, RestorePlaces
  <2>2. BackupShapes' BY <1>3, <1>4, <1>6, <2>1 DEF BackupCore, BackupShapes, Backup!TypeOK
  <2>3. Working' BY <1>1, <2>1 DEF BackupCore, Working, BackupPlaces, DeletePlaces, Backup!Idle
  <2>4. DueKnown' BY <1>3 DEF BackupCore, DueKnown
  <2>5. RestoreProgress' BY <1>1, <1>3, <2>1, ProgressStays DEF RestorePlaces, Backup!Idle
  <2>6. Backup!RecordedIsThere'
    BY <1>3, <1>6 DEF BackupCore, BackupShapes, Backup!TypeOK, Backup!RecordedIsThere
  <2> QED BY <2>2, <2>3, <2>4, <2>5, <2>6 DEF BackupCore, Dated
<1>7. \A b \in Backup!Excess(Backup!RemoteCopies) : b \in Backups
  BY DEF BackupCore, BackupShapes, Backup!TypeOK, Backup!Excess, Backup!RemoteCopies
<1> QED BY <1>5, <1>6, <1>7 DEF Backup!PruneRemote, Backup!End

\* The catalogue forgets what was asked to be removed.
LEMMA ForgetKeeps ==
  ASSUME BackupCore, Backup!Forget
  PROVE  BackupCore'
<1>1. job \in BackupJobs /\ job.pc = "forget"
  BY Working1 DEF BackupCore, Backup!Forget, Places
<1>2. job.id \in Backups \cup {0} BY <1>1 DEF BackupJobs
<1>3. job' = Backup!Idle \/ \E x \in {"pruneRemote", "deleteLocal"} : Backup!Goto(x)
  BY <1>1 DEF Backup!Forget, Backup!Goto, Backup!End
<1>4. \/ job' = Backup!Idle
      \/ /\ job' \in BackupJobs /\ job'.kind = job.kind /\ job'.id = job.id
         /\ job'.pc \in {"pruneRemote", "deleteLocal"}
  BY <1>1, <1>2, <1>3, Moved DEF Places, BackupPlaces, DeletePlaces, RestorePlaces
<1> QED
  <2>1. BackupShapes'
    BY <1>1, <1>2, <1>4 DEF BackupCore, Dated, BackupShapes, Backup!TypeOK, Backup!Forget,
          Backup!settings, Backup!restore, Backup!outcome, Backup!Fault, Backup!NoFault
  <2>2. Working'
    BY <1>1, <1>2, <1>4 DEF BackupCore, Dated, Working, BackupJobs, BackupPlaces, DeletePlaces,
          Backup!Forget, Backup!Goto, Backup!End, Backup!Idle
  <2>3. DueKnown'
    BY <1>1, <1>2, <1>4 DEF BackupCore, DueKnown, Backup!Forget, Backup!settings
  <2>4. RestoreProgress'
    BY <1>1, <1>2, <1>4 DEF BackupCore, Dated, RestoreProgress, Backup!TypeOK, Backup!ResetOnce,
          Backup!Forget, Backup!restore, Backup!outcome, Backup!Idle
  <2>5. Backup!RecordedIsThere'
    BY <1>1, <1>2, <1>4 DEF BackupCore, Backup!RecordedIsThere, Backup!Forget, Backup!settings
  <2>6. Dated' BY DEF BackupCore, Dated
  <2> QED BY <2>1, <2>2, <2>3, <2>4, <2>5, <2>6 DEF BackupCore

\* Retention removes local copies.
LEMMA PruneLocalKeeps ==
  ASSUME BackupCore, Backup!PruneLocal
  PROVE  BackupCore'
<1>1. Dated' BY DEF BackupCore, Dated
<1>2. BackupShapes'
  BY DEF BackupCore, Dated, BackupShapes, BackupJobs, DeletePlaces, RestorePlaces, Backup!PruneLocal,
        Backup!TypeOK, Backup!settings, Backup!restore, Backup!outcome, Backup!Fault, Backup!NoFault, Backup!At, Backup!End,
        Backup!Idle
<1>3. Working'
  BY DEF BackupCore, Dated, Working, BackupShapes, BackupPlaces, DeletePlaces, Backup!PruneLocal,
        Backup!settings, Backup!End, Backup!Idle
<1>4. DueKnown'
  BY DEF BackupCore, DueKnown, Backup!PruneLocal, Backup!settings
<1>5. RestoreProgress'
  BY ProgressStays DEF Backup!PruneLocal, Backup!restore, Backup!outcome, Backup!Busy, Backup!Idle, Backup!At, Backup!End, RestorePlaces
<1>6. Backup!RecordedIsThere'
  BY DEF BackupCore, Backup!RecordedIsThere, Backup!PruneLocal, Backup!settings
<1> QED BY <1>1, <1>2, <1>3, <1>4, <1>5, <1>6 DEF BackupCore

\* A removal is requested before anything is removed (Delete).
LEMMA DeleteKeeps ==
  ASSUME BackupCore, NEW b \in Backups, Backup!Delete(b)
  PROVE  BackupCore'
<1>1. Dated' BY DEF BackupCore, Dated
<1>2. BackupShapes'
  BY DEF BackupCore, Dated, BackupShapes, BackupJobs, Places, DeletePlaces, Backup!Delete, Backup!TypeOK,
        Backup!settings, Backup!restore, Backup!outcome, Backup!Fault, Backup!NoFault
<1>3. Working'
  BY DEF BackupCore, Dated, Working, BackupShapes, BackupPlaces, Backup!Delete, Backup!Busy, Backup!Idle
<1>4. DueKnown'
  BY DEF BackupCore, DueKnown, Backup!Delete, Backup!settings
<1>5. RestoreProgress'
  BY ProgressStays DEF Backup!Delete, Backup!restore, Backup!outcome, Backup!Busy, Backup!Idle, Backup!At, Backup!End, RestorePlaces
<1>6. Backup!RecordedIsThere'
  BY DEF BackupCore, Backup!RecordedIsThere, BackupShapes, Backup!Delete, Backup!TypeOK, Backup!settings
<1> QED BY <1>1, <1>2, <1>3, <1>4, <1>5, <1>6 DEF BackupCore

\* A restore is planned from a backup.
LEMMA PlanRestoreKeeps ==
  ASSUME BackupCore, NEW b \in Backups, Backup!PlanRestore(b)
  PROVE  BackupCore'
<1>1. Dated' BY DEF BackupCore, Dated
<1>2. BackupShapes'
  BY DEF BackupCore, Dated, BackupShapes, BackupJobs, Backup!PlanRestore, Backup!TypeOK, Backup!catalog,
        Backup!settings, Backup!outcome
<1>3. Working'
  BY DEF BackupCore, Dated, Working, BackupShapes, Backup!PlanRestore, Backup!catalog, Backup!settings
<1>4. DueKnown'
  BY DEF BackupCore, DueKnown, Backup!PlanRestore, Backup!settings
<1>5. RestoreProgress'
  BY DEF BackupCore, Dated, RestoreProgress, BackupShapes, BackupJobs, Backup!ResetOnce,
        Backup!PlanRestore, Backup!outcome
<1>6. Backup!RecordedIsThere'
  BY DEF BackupCore, Backup!RecordedIsThere, Backup!PlanRestore, Backup!catalog, Backup!settings
<1> QED BY <1>1, <1>2, <1>3, <1>4, <1>5, <1>6 DEF BackupCore

\* A copy can be damaged at any time.
LEMMA RotKeeps ==
  ASSUME BackupCore, NEW b \in Backups, Backup!Rot(b)
  PROVE  BackupCore'
<1>1. Dated' BY DEF BackupCore, Dated
<1>2. BackupShapes'
  BY DEF BackupCore, Dated, BackupShapes, BackupJobs, Backup!Rot, Backup!TypeOK, Backup!settings,
        Backup!restore, Backup!outcome, Backup!Fault
<1>3. Working'
  BY DEF BackupCore, Dated, Working, BackupShapes, Backup!Rot, Backup!settings
<1>4. DueKnown'
  BY DEF BackupCore, DueKnown, Backup!Rot, Backup!settings
<1>5. RestoreProgress'
  BY DEF BackupCore, Dated, RestoreProgress, BackupShapes, BackupJobs, Backup!ResetOnce, Backup!Rot,
        Backup!restore, Backup!outcome
<1>6. Backup!RecordedIsThere'
  BY DEF BackupCore, Backup!RecordedIsThere, Backup!Rot, Backup!settings
<1> QED BY <1>1, <1>2, <1>3, <1>4, <1>5, <1>6 DEF BackupCore

\* The local copy goes first.
LEMMA DeleteLocalKeeps ==
  ASSUME BackupCore, Backup!DeleteLocal
  PROVE  BackupCore'
<1>1. Dated' BY DEF BackupCore, Dated
<1>2. BackupShapes'
  BY DEF BackupCore, Dated, BackupShapes, BackupJobs, BackupPlaces, Backup!DeleteLocal, Backup!TypeOK,
        Backup!settings, Backup!restore, Backup!outcome, Backup!Fault, Backup!NoFault, Backup!End, Backup!Idle
<1>3. Working'
  BY DEF BackupCore, Dated, Working, BackupShapes, BackupPlaces, DeletePlaces, Backup!DeleteLocal,
        Backup!End, Backup!Idle
<1>4. DueKnown'
  BY DEF BackupCore, DueKnown, Backup!DeleteLocal, Backup!settings
<1>5. RestoreProgress'
  BY ProgressStays DEF Backup!DeleteLocal, Backup!restore, Backup!outcome, Backup!Busy, Backup!Idle, Backup!At, Backup!End, RestorePlaces
<1>6. Backup!RecordedIsThere'
  BY DEF BackupCore, Backup!RecordedIsThere, Backup!DeleteLocal, Backup!settings
<1> QED BY <1>1, <1>2, <1>3, <1>4, <1>5, <1>6 DEF BackupCore

\* A plan that is not started expires.
LEMMA ExpireRestoreKeeps ==
  ASSUME BackupCore, Backup!ExpireRestore
  PROVE  BackupCore'
<1>1. Dated' BY DEF BackupCore, Dated
<1>2. BackupShapes'
  BY DEF BackupCore, Dated, BackupShapes, BackupJobs, Backup!ExpireRestore, Backup!TypeOK,
        Backup!catalog, Backup!settings, Backup!outcome, Backup!Fault
<1>3. Working'
  BY DEF BackupCore, Dated, Working, BackupShapes, Backup!ExpireRestore, Backup!catalog, Backup!settings
<1>4. DueKnown'
  BY DEF BackupCore, DueKnown, Backup!ExpireRestore, Backup!settings
<1>5. RestoreProgress'
  BY DEF BackupCore, Dated, RestoreProgress, BackupShapes, BackupJobs, Backup!ResetOnce,
        Backup!ExpireRestore, Backup!outcome
<1>6. Backup!RecordedIsThere'
  BY DEF BackupCore, Backup!RecordedIsThere, Backup!ExpireRestore, Backup!catalog, Backup!settings
<1> QED BY <1>1, <1>2, <1>3, <1>4, <1>5, <1>6 DEF BackupCore

\* The approved plan is submitted as a job.
LEMMA SubmitRestoreKeeps ==
  ASSUME BackupCore, Backup!SubmitRestore
  PROVE  BackupCore'
<1>1. Dated' BY DEF BackupCore, Dated
<1>2. BackupShapes'
  BY DEF BackupCore, Dated, BackupShapes, BackupJobs, Places, RestorePlaces, Backup!SubmitRestore,
        Backup!TypeOK, Backup!catalog, Backup!settings, Backup!restore, Backup!outcome
<1>3. Working'
  BY DEF BackupCore, Dated, Working, BackupShapes, BackupPlaces, DeletePlaces, Backup!SubmitRestore
<1>4. DueKnown'
  BY DEF BackupCore, DueKnown, Backup!SubmitRestore, Backup!settings
<1>5. RestoreProgress'
  BY DEF BackupCore, Dated, RestoreProgress, BackupShapes, BackupJobs, Backup!ResetOnce,
        Backup!SubmitRestore, Backup!restore, Backup!outcome
<1>6. Backup!RecordedIsThere'
  BY DEF BackupCore, Backup!RecordedIsThere, Backup!SubmitRestore, Backup!catalog, Backup!settings
<1> QED BY <1>1, <1>2, <1>3, <1>4, <1>5, <1>6 DEF BackupCore

\* A stop is only noted.
LEMMA RequestStopKeeps ==
  ASSUME BackupCore, Backup!RequestStop
  PROVE  BackupCore'
<1>1. UNCHANGED <<local, partial, inventory, remote, objects, removing, location, due, keys, started,
                  plan, planned, changed, etcd, resets, polled, result, job, faults>> /\ stop' = TRUE
  BY DEF Backup!RequestStop, Backup!catalog, Backup!settings
<1> QED
  BY <1>1 DEF BackupCore, Dated, BackupShapes, Backup!TypeOK, Working, DueKnown, RestoreProgress,
        Backup!ResetOnce, Backup!RecordedIsThere

\* What the steps of a restore have in common: they leave the catalogue and the schedule alone, and
\* move the job to a later place of the restore or end it.
Recovering(to) ==
    /\ UNCHANGED <<local, partial, inventory, remote, objects, removing, location, due, keys, started,
                   planned, changed>>
    /\ faults' \in 0..BackupFaults
    /\ \/ job' = Backup!Idle /\ polled' = {} /\ stop' = FALSE
          /\ result' \in {"stopped", "failed", "interrupted", "succeeded"}
       \/ /\ job' \in BackupJobs /\ job'.kind = job.kind /\ job'.id = job.id /\ job'.pc \in to
          /\ UNCHANGED <<stop, result>> /\ polled' \subseteq Nodes

\* Such a step keeps the parts of the invariant that the restore does not touch.
LEMMA RecoveringKeeps ==
  ASSUME BackupCore, job \in BackupJobs, NEW to \in SUBSET RestorePlaces, Recovering(to),
         plan' \in {plan, "started"}, resets' \in Nat,
         etcd' \in [Nodes -> {"old", "resetting", "preparing", "booting", "restored"}]
  PROVE  Dated' /\ BackupShapes' /\ Working' /\ DueKnown' /\ Backup!RecordedIsThere'
<1>1. Dated' BY DEF BackupCore, Dated
<1>2. BackupShapes' BY DEF BackupCore, BackupShapes, Backup!TypeOK, Recovering
<1>3. Working'
  BY DEF BackupCore, Working, Recovering, BackupPlaces, DeletePlaces, RestorePlaces, Backup!Idle
<1>4. DueKnown' BY DEF BackupCore, DueKnown, Recovering
<1>5. Backup!RecordedIsThere' BY DEF BackupCore, Backup!RecordedIsThere, Recovering
<1> QED BY <1>1, <1>2, <1>3, <1>4, <1>5

\* A job that goes on is one of the restore's, and one that ends has its result.
LEMMA GoesOn ==
  ASSUME job \in BackupJobs, NEW x \in RestorePlaces, Backup!Going(x)
  PROVE  /\ job' \in BackupJobs /\ job'.kind = job.kind /\ job'.id = job.id /\ job'.pc = x
         /\ UNCHANGED <<stop, polled, result>>
  BY DEF BackupJobs, Places, RestorePlaces, Backup!Going, Backup!Goto, Backup!outcome

LEMMA Ends ==
  ASSUME NEW r, Backup!Finish(r)
  PROVE  job' = Backup!Idle /\ polled' = {} /\ stop' = FALSE /\ result' = r
  BY DEF Backup!Finish, Backup!End

\* The checks before the first node is wiped.
LEMMA RestoreCheckKeeps ==
  ASSUME BackupCore, Backup!RestoreCheck
  PROVE  BackupCore'
<1>1. job \in BackupJobs /\ job.pc = "check"
  BY Working1 DEF BackupCore, Backup!RestoreCheck, Places, RestorePlaces
<1>2. /\ UNCHANGED <<local, partial, inventory, remote, objects, removing, location, due, keys, started,
                     planned, changed, etcd, resets>>
      /\ Backup!Fault \/ Backup!NoFault
  BY DEF Backup!RestoreCheck, Backup!catalog, Backup!settings
<1>3. \/ Backup!Going("reset") /\ plan = "planned" /\ plan' = "started"
      \/ \E r \in {"stopped", "failed", "interrupted"} : Backup!Finish(r) /\ plan' \in {plan, "started"}
  BY DEF Backup!RestoreCheck
<1>4. faults' \in 0..BackupFaults BY <1>2, BackupBudget
<1>5. polled \subseteq Nodes /\ "reset" \in RestorePlaces /\ {"reset"} \subseteq RestorePlaces
      /\ resets \in Nat /\ etcd \in [Nodes -> {"old", "resetting", "preparing", "booting", "restored"}]
  BY DEF BackupCore, BackupShapes, Backup!TypeOK, RestorePlaces
<1>6. Recovering({"reset"}) /\ plan' \in {plan, "started"}
  BY <1>1, <1>2, <1>3, <1>4, <1>5, GoesOn, Ends DEF Recovering
<1>7. RestoreProgress'
  <2>1. plan # "started" /\ resets = 0 /\ (\A n \in Nodes : etcd[n] = "old") /\ result = "none" /\ polled = {}
         /\ job.kind = "restore"
    BY <1>1 DEF BackupCore, RestoreProgress
  <2>2. CASE Backup!Going("reset") /\ plan' = "started"
    <3>1. job'.pc = "reset" /\ job'.kind = "restore" /\ polled' = polled /\ result' = result
      BY <1>1, <1>5, <2>1, <2>2, GoesOn
    <3> QED BY <1>2, <2>1, <2>2, <3>1 DEF RestoreProgress, Backup!ResetOnce
  <2>3. ASSUME NEW r \in {"stopped", "failed", "interrupted"}, Backup!Finish(r), plan' \in {plan, "started"}
        PROVE  RestoreProgress'
    <3>1. job' = Backup!Idle /\ polled' = {} BY <2>3, Ends
    <3> QED BY <1>2, <2>1, <2>3, <3>1 DEF BackupCore, RestoreProgress, Backup!ResetOnce, Backup!Idle
  <2> QED BY <1>3, <2>2, <2>3
<1>8. resets' = resets /\ etcd' = etcd BY <1>2
<1> QED BY <1>1, <1>5, <1>6, <1>7, <1>8, RecoveringKeeps DEF BackupCore

\* The control planes are wiped one by one.
LEMMA ResetNodeKeeps ==
  ASSUME BackupCore, Backup!ResetNode
  PROVE  BackupCore'
<1>1. job \in BackupJobs /\ job.pc = "reset"
  BY Working1 DEF BackupCore, Backup!ResetNode, Places, RestorePlaces
<1>2. /\ UNCHANGED <<local, partial, inventory, remote, objects, removing, location, due, keys, started,
                     plan, planned, changed>>
      /\ Backup!Fault \/ Backup!NoFault
  BY DEF Backup!ResetNode, Backup!Refused, Backup!Fails, Backup!catalog, Backup!settings
<1>3. faults' \in 0..BackupFaults BY <1>2, BackupBudget
<1>4. polled = {} /\ result = "none" /\ job.kind = "restore" /\ plan = "started" /\ resets \in Nat /\ resets <= 1
      /\ (\A n \in Nodes : etcd[n] # "restored")
      /\ (resets = 0 => \A n \in Nodes : etcd[n] = "old")
      /\ (resets # 0 => \E n \in Nodes : etcd[n] # "old")
      /\ etcd \in [Nodes -> {"old", "resetting", "preparing", "booting", "restored"}]
  BY <1>1 DEF BackupCore, BackupShapes, Backup!TypeOK, RestoreProgress, Backup!ResetOnce
<1>5. \/ Backup!Finish("interrupted") /\ UNCHANGED <<etcd, resets>>
      \/ \E n \in Nodes :
            /\ etcd[n] \in {"old", "restored"}
            /\ resets' = IF {m \in Nodes : etcd[m] \in {"old", "restored"}} = Nodes THEN resets + 1 ELSE resets
            /\ Backup!Going("wait") \/ Backup!Going("reset") \/ Backup!Finish("interrupted")
            /\ etcd' = [etcd EXCEPT ![n] = "resetting"] \/ (etcd' = etcd /\ Backup!Finish("interrupted"))
  BY DEF Backup!ResetNode, Backup!Refused, Backup!Fails
<1>6. {"reset", "wait"} \subseteq RestorePlaces /\ "reset" \in RestorePlaces /\ "wait" \in RestorePlaces
  BY DEF RestorePlaces
<1>7. Recovering({"reset", "wait"})
  BY <1>1, <1>2, <1>3, <1>4, <1>5, <1>6, GoesOn, Ends DEF Recovering
<1>8. resets' \in Nat /\ resets' <= 1
      /\ etcd' \in [Nodes -> {"old", "resetting", "preparing", "booting", "restored"}]
  <2>1. CASE UNCHANGED <<etcd, resets>> BY <1>4, <2>1
  <2>2. ASSUME NEW n \in Nodes, etcd[n] \in {"old", "restored"},
               resets' = IF {m \in Nodes : etcd[m] \in {"old", "restored"}} = Nodes THEN resets + 1 ELSE resets,
               etcd' \in {etcd, [etcd EXCEPT ![n] = "resetting"]}
        PROVE  resets' \in Nat /\ resets' <= 1
               /\ etcd' \in [Nodes -> {"old", "resetting", "preparing", "booting", "restored"}]
    <3>1. etcd' \in [Nodes -> {"old", "resetting", "preparing", "booting", "restored"}] BY <1>4, <2>2
    <3>2. CASE resets = 0 BY <2>2, <3>1, <3>2
    <3>3. CASE resets # 0
      <4>1. PICK m \in Nodes : etcd[m] # "old" BY <1>4, <3>3
      <4>2. m \notin {k \in Nodes : etcd[k] \in {"old", "restored"}} BY <1>4, <4>1
      <4> QED BY <1>4, <2>2, <3>1, <4>1, <4>2
    <3> QED BY <3>2, <3>3
  <2> QED BY <1>5, <2>1, <2>2
<1>9. RestoreProgress'
  <2>1. CASE job' = Backup!Idle /\ polled' = {}
    BY <1>2, <1>4, <1>8, <2>1 DEF BackupCore, RestoreProgress, Backup!ResetOnce, Backup!Idle
  <2>2. ASSUME NEW n \in Nodes, NEW x \in {"wait", "reset"}, Backup!Going(x), etcd[n] \in {"old", "restored"},
               resets' = IF {m \in Nodes : etcd[m] \in {"old", "restored"}} = Nodes THEN resets + 1 ELSE resets,
               etcd' = [etcd EXCEPT ![n] = "resetting"]
        PROVE  RestoreProgress'
    <3>1. job'.pc = x /\ job'.kind = "restore" /\ polled' = {} /\ result' = "none" BY <1>1, <1>4, <1>6, <2>2, GoesOn
    <3>2. resets' # 0
      <4>1. CASE resets = 0
        <5>1. {m \in Nodes : etcd[m] \in {"old", "restored"}} = Nodes BY <1>4, <4>1
        <5> QED BY <2>2, <4>1, <5>1
      <4>2. CASE resets # 0 BY <1>4, <1>8, <2>2, <4>2
      <4> QED BY <4>1, <4>2
    <3>3. etcd'[n] = "resetting" /\ \A m \in Nodes : etcd'[m] # "restored" BY <1>4, <2>2
    <3>4. plan' = "started" /\ planned' = planned BY <1>2, <1>4
    <3> QED BY <1>8, <2>2, <3>1, <3>2, <3>3, <3>4 DEF RestoreProgress, Backup!ResetOnce
  <2>3. CASE Backup!Finish("interrupted") BY <2>1, <2>3, Ends
  <2> QED BY <1>5, <2>2, <2>3
<1> QED BY <1>1, <1>2, <1>6, <1>7, <1>8, <1>9, RecoveringKeeps DEF BackupCore

\* The wait goes from node to node, and is over when a pass found all of them preparing.
LEMMA PollNodeKeeps ==
  ASSUME BackupCore, NEW n \in Nodes, Backup!PollNode(n)
  PROVE  BackupCore'
<1>1. job \in BackupJobs /\ job.pc = "wait"
  BY Working1 DEF BackupCore, Backup!PollNode, Places, RestorePlaces
<1>2. /\ UNCHANGED <<local, partial, inventory, remote, objects, removing, location, due, keys, started,
                     plan, planned, changed, etcd, resets, stop, result, faults>>
      /\ polled' = IF etcd[n] = "preparing" THEN polled \cup {n} ELSE {}
      /\ IF polled' = Nodes THEN Backup!Goto("recover") ELSE job' = job
  BY DEF Backup!PollNode, Backup!catalog, Backup!settings
<1>3. /\ faults' \in 0..BackupFaults /\ resets \in Nat /\ polled' \subseteq Nodes
      /\ etcd \in [Nodes -> {"old", "resetting", "preparing", "booting", "restored"}]
      /\ {"wait", "recover"} \subseteq RestorePlaces /\ "recover" \in Places
  BY <1>2 DEF BackupCore, BackupShapes, Backup!TypeOK, RestorePlaces, Places
<1>4. job.id \in Backups \cup {0} BY <1>1 DEF BackupJobs
<1>5. /\ job' \in BackupJobs /\ job'.kind = job.kind /\ job'.id = job.id
      /\ job'.pc = IF polled' = Nodes THEN "recover" ELSE "wait"
  BY <1>1, <1>2, <1>3, <1>4, Moved
<1>6. Recovering({"wait", "recover"}) BY <1>2, <1>3, <1>5 DEF Recovering
<1>7. RestoreProgress'
  BY <1>1, <1>2, <1>3, <1>5 DEF BackupCore, RestoreProgress, Backup!ResetOnce
<1>8. resets' = resets /\ etcd' = etcd /\ plan' = plan BY <1>2
<1> QED BY <1>1, <1>3, <1>6, <1>7, <1>8, RecoveringKeeps DEF BackupCore

\* etcd is recovered on a node that still prepares.
LEMMA RecoverKeeps ==
  ASSUME BackupCore, Backup!Recover
  PROVE  BackupCore'
<1>1. job \in BackupJobs /\ job.pc = "recover"
  BY Working1 DEF BackupCore, Backup!Recover, Places, RestorePlaces
<1>2. /\ UNCHANGED <<local, partial, inventory, remote, objects, removing, location, due, keys, started,
                     plan, planned, changed, resets>>
      /\ Backup!Fault \/ Backup!NoFault
      /\ Backup!Going("workers") \/ Backup!Finish("interrupted")
      /\ etcd' = etcd \/ \E n \in Nodes : etcd' = [etcd EXCEPT ![n] = "restored"]
  BY DEF Backup!Recover, Backup!Refused, Backup!Fails, Backup!catalog, Backup!settings
<1>3. faults' \in 0..BackupFaults BY <1>2, BackupBudget
<1>4. /\ resets \in Nat /\ resets <= 1 /\ plan = "started" /\ result = "none" /\ job.kind = "restore"
      /\ polled = Nodes
      /\ etcd \in [Nodes -> {"old", "resetting", "preparing", "booting", "restored"}]
      /\ \A n \in Nodes : etcd[n] \notin {"old", "resetting"}
      /\ {"workers"} \subseteq RestorePlaces /\ "workers" \in RestorePlaces
  BY <1>1 DEF BackupCore, BackupShapes, Backup!TypeOK, RestoreProgress, Backup!ResetOnce, RestorePlaces
<1>5. Recovering({"workers"}) BY <1>1, <1>2, <1>3, <1>4, GoesOn, Ends DEF Recovering
<1>6. /\ etcd' \in [Nodes -> {"old", "resetting", "preparing", "booting", "restored"}]
      /\ \A n \in Nodes : etcd'[n] \notin {"old", "resetting"}
  BY <1>2, <1>4
<1>7. RestoreProgress'
  <2>1. CASE Backup!Going("workers")
    <3>1. job'.pc = "workers" /\ job'.kind = "restore" /\ polled' = polled /\ result' = result BY <1>1, <1>4, <2>1, GoesOn
    <3> QED BY <1>2, <1>4, <1>6, <3>1 DEF RestoreProgress, Backup!ResetOnce
  <2>2. CASE Backup!Finish("interrupted")
    <3>1. job' = Backup!Idle /\ polled' = {} BY <2>2, Ends
    <3> QED BY <1>2, <1>4, <3>1 DEF RestoreProgress, Backup!ResetOnce, Backup!Idle
  <2> QED BY <1>2, <2>1, <2>2
<1>8. resets' = resets /\ plan' = plan BY <1>2
<1> QED BY <1>1, <1>4, <1>5, <1>6, <1>7, <1>8, RecoveringKeeps DEF BackupCore

\* The kubelets are restarted, the restored cluster is watched, and one of the waits may end.
LEMMA WatchKeeps ==
  ASSUME BackupCore, Backup!RestartKubelets \/ Backup!RestoreHealthy \/ Backup!RestoreTimesOut
  PROVE  BackupCore'
<1>1. job \in BackupJobs /\ job.pc \in {"wait", "workers", "health"}
  BY Working1 DEF BackupCore, Backup!RestartKubelets, Backup!RestoreHealthy, Backup!RestoreTimesOut, Places,
        RestorePlaces
<1>2. /\ UNCHANGED <<local, partial, inventory, remote, objects, removing, location, due, keys, started,
                     plan, planned, changed, etcd, resets>>
      /\ Backup!Fault \/ Backup!NoFault
      /\ \/ Backup!Going("health") /\ job.pc = "workers"
         \/ \E r \in {"interrupted", "succeeded"} : Backup!Finish(r)
  BY DEF Backup!RestartKubelets, Backup!RestoreHealthy, Backup!RestoreTimesOut, Backup!Refused, Backup!Fails,
        Backup!catalog, Backup!settings, Backup!At
<1>3. faults' \in 0..BackupFaults BY <1>2, BackupBudget
<1>4. /\ resets \in Nat /\ polled \subseteq Nodes
      /\ etcd \in [Nodes -> {"old", "resetting", "preparing", "booting", "restored"}]
      /\ {"health"} \subseteq RestorePlaces /\ "health" \in RestorePlaces
  BY DEF BackupCore, BackupShapes, Backup!TypeOK, RestorePlaces
<1>5. Recovering({"health"}) BY <1>1, <1>2, <1>3, <1>4, GoesOn, Ends DEF Recovering
<1>6. RestoreProgress'
  <2>1. CASE Backup!Going("health") /\ job.pc = "workers"
    <3>1. job'.pc = "health" /\ job'.kind = job.kind /\ polled' = polled /\ result' = result BY <1>1, <1>4, <2>1, GoesOn
    <3> QED BY <1>2, <2>1, <3>1 DEF BackupCore, RestoreProgress, Backup!ResetOnce
  <2>2. ASSUME NEW r, Backup!Finish(r) PROVE RestoreProgress'
    <3>1. job' = Backup!Idle /\ polled' = {} BY <2>2, Ends
    <3> QED BY <1>1, <1>2, <3>1 DEF BackupCore, RestoreProgress, Backup!ResetOnce, Backup!Idle
  <2> QED BY <1>2, <2>1, <2>2
<1>7. resets' = resets /\ etcd' = etcd /\ plan' = plan BY <1>2
<1> QED BY <1>1, <1>4, <1>5, <1>6, <1>7, RecoveringKeeps DEF BackupCore

\* A wiped control plane prepares, restarts or joins.
LEMMA EtcdMovesKeeps ==
  ASSUME BackupCore, NEW n \in Nodes, NEW from, NEW to \in {"preparing", "booting", "restored"},
         Backup!EtcdMoves(n, from, to), Backup!Fault \/ Backup!NoFault,
         {"old", "restored"} \cap from = {}, to = "restored" => \E m \in Nodes : etcd[m] = "restored"
  PROVE  BackupCore'
<1>1. /\ UNCHANGED <<local, partial, inventory, remote, objects, removing, location, due, keys, started,
                     plan, planned, changed, resets, stop, polled, result, job>>
      /\ etcd[n] \in from /\ etcd' = [etcd EXCEPT ![n] = to]
  BY DEF Backup!EtcdMoves, Backup!catalog, Backup!settings, Backup!outcome
<1>2. faults' \in 0..BackupFaults BY BackupBudget
<1>3. etcd \in [Nodes -> {"old", "resetting", "preparing", "booting", "restored"}] /\ polled \subseteq Nodes
  BY DEF BackupCore, BackupShapes, Backup!TypeOK
<1>4. /\ etcd' \in [Nodes -> {"old", "resetting", "preparing", "booting", "restored"}] /\ etcd[n] # "old"
      /\ etcd'[n] = to /\ \A m \in Nodes : m # n => etcd'[m] = etcd[m]
  BY <1>1, <1>3
<1>5. Dated' BY DEF BackupCore, Dated
<1>6. BackupShapes' BY <1>1, <1>2, <1>4 DEF BackupCore, BackupShapes, Backup!TypeOK
<1>7. Working' BY <1>1 DEF BackupCore, Working
<1>8. DueKnown' BY <1>1 DEF BackupCore, DueKnown
<1>9. RestoreProgress' BY <1>1, <1>3, <1>4 DEF BackupCore, RestoreProgress, Backup!ResetOnce
<1>10. Backup!RecordedIsThere' BY <1>1 DEF BackupCore, Backup!RecordedIsThere
<1> QED BY <1>5, <1>6, <1>7, <1>8, <1>9, <1>10 DEF BackupCore

LEMMA NodeMovesKeeps ==
  ASSUME BackupCore, NEW n \in Nodes,
         Backup!NodePrepares(n) \/ Backup!NodeRestarts(n) \/ Backup!NodeJoins(n)
  PROVE  BackupCore'
<1>1. CASE Backup!NodePrepares(n) BY <1>1, EtcdMovesKeeps DEF Backup!NodePrepares
<1>2. CASE Backup!NodeRestarts(n) BY <1>2, EtcdMovesKeeps DEF Backup!NodeRestarts
<1>3. CASE Backup!NodeJoins(n) BY <1>3, EtcdMovesKeeps DEF Backup!NodeJoins
<1> QED BY <1>1, <1>2, <1>3

\* The machines of the cluster change.
LEMMA InventoryChangesKeeps ==
  ASSUME BackupCore, Backup!InventoryChanges
  PROVE  BackupCore'
<1>1. Dated' BY DEF BackupCore, Dated
<1>2. BackupShapes'
  BY DEF BackupCore, Dated, BackupShapes, BackupJobs, Backup!InventoryChanges, Backup!TypeOK,
        Backup!catalog, Backup!settings, Backup!outcome, Backup!Fault
<1>3. Working'
  BY DEF BackupCore, Dated, Working, BackupShapes, Backup!InventoryChanges, Backup!catalog,
        Backup!settings
<1>4. DueKnown'
  BY DEF BackupCore, DueKnown, Backup!InventoryChanges, Backup!settings
<1>5. RestoreProgress'
  BY DEF BackupCore, Dated, RestoreProgress, BackupShapes, BackupJobs, Backup!ResetOnce,
        Backup!InventoryChanges, Backup!outcome
<1>6. Backup!RecordedIsThere'
  BY DEF BackupCore, Backup!RecordedIsThere, Backup!InventoryChanges, Backup!catalog, Backup!settings
<1> QED BY <1>1, <1>2, <1>3, <1>4, <1>5, <1>6 DEF BackupCore

\* A crash ends the job and keeps what is on disk.
LEMMA CrashKeeps ==
  ASSUME BackupCore, Backup!Crash
  PROVE  BackupCore'
<1>1. /\ UNCHANGED <<local, partial, inventory, remote, objects, removing, location, due, keys, started,
                     plan, planned, changed, etcd, resets>>
      /\ job' = Backup!Idle
      /\ \/ polled' = {} /\ stop' = FALSE /\ result' = "interrupted"
         \/ UNCHANGED <<stop, polled, result>> /\ job.kind # "restore" /\ job # Backup!Idle
  BY DEF Backup!Crash, Backup!Finish, Backup!End, Backup!Busy, Backup!catalog, Backup!settings, Backup!outcome
<1>2. faults' \in 0..BackupFaults BY BackupBudget DEF Backup!Crash
<1>3. polled' = {}
  <2>1. CASE job.kind # "restore" /\ polled' = polled
    <3>1. polled # {} => job.kind = "restore" BY DEF BackupCore, RestoreProgress
    <3> QED BY <2>1, <3>1
  <2> QED BY <1>1, <2>1
<1>4. Dated' BY DEF BackupCore, Dated
<1>5. BackupShapes' BY <1>1, <1>2, <1>3 DEF BackupCore, BackupShapes, Backup!TypeOK
<1>6. Working' BY <1>1 DEF Working, BackupPlaces, DeletePlaces, Backup!Idle
<1>7. DueKnown' BY <1>1 DEF BackupCore, DueKnown
<1>8. RestoreProgress' BY <1>1, <1>3 DEF BackupCore, RestoreProgress, Backup!ResetOnce, Backup!Idle
<1>9. Backup!RecordedIsThere' BY <1>1 DEF BackupCore, Backup!RecordedIsThere
<1> QED BY <1>4, <1>5, <1>6, <1>7, <1>8, <1>9 DEF BackupCore

\* The invariant holds at the start.
LEMMA BackupInit == ASSUME Dated, Backup!Init PROVE BackupInv
<1>1. BackupShapes
  <2>1. 0 \in 0..BackupFaults /\ 1 \in 1..(MaxDue + 1) BY DEF Dated
  <2> QED BY <2>1 DEF Backup!Init, BackupShapes, Backup!TypeOK
<1>2. Working BY DEF Backup!Init, Backup!Idle, Working, BackupPlaces, DeletePlaces
<1>3. DueKnown BY DEF Backup!Init, DueKnown
<1>4. RestoreProgress BY DEF Backup!Init, Backup!Idle, RestoreProgress, Backup!ResetOnce
<1>5. Backup!RecordedIsThere BY DEF Backup!Init, Backup!RecordedIsThere
<1>6. Backup!RestoreEndsHonestly BY DEF Backup!Init, Backup!RestoreEndsHonestly
<1> QED BY <1>1, <1>2, <1>3, <1>4, <1>5, <1>6 DEF BackupInv, BackupCore

\* What a restore says at its end: only a step of the restore touches the control planes or its
\* result, and until it is over it says nothing.
LEMMA HonestKeeps ==
  ASSUME BackupInv, Backup!Next
  PROVE  Backup!RestoreEndsHonestly'
<1> DEFINE wiped == \A n \in Nodes : etcd[n] \notin {"old", "resetting"}
<1>1. etcd \in [Nodes -> {"old", "resetting", "preparing", "booting", "restored"}]
  BY DEF BackupInv, BackupCore, BackupShapes, Backup!TypeOK
<1>2. Backup!RestoreEndsHonestly /\ RestoreProgress BY DEF BackupInv, BackupCore
<1>3. CASE UNCHANGED <<etcd, result>> BY <1>2, <1>3 DEF Backup!RestoreEndsHonestly
<1>4. ASSUME etcd' = etcd, result' \in {"none", "interrupted"} PROVE Backup!RestoreEndsHonestly'
  BY <1>2, <1>4 DEF Backup!RestoreEndsHonestly
<1>5. CASE Backup!SubmitRestore BY <1>4, <1>5 DEF Backup!SubmitRestore
<1>6. CASE Backup!RestoreCheck
  <2>1. job.pc = "check" /\ etcd' = etcd BY <1>6 DEF Backup!RestoreCheck, Backup!At
  <2>2. \A n \in Nodes : etcd[n] = "old" BY <1>2, <2>1 DEF RestoreProgress
  <2>3. \/ result' = result
        \/ result' \in {"stopped", "failed", "interrupted"}
    BY <1>6 DEF Backup!RestoreCheck, Backup!Going, Backup!Finish, Backup!outcome
  <2> QED BY <1>2, <2>1, <2>2, <2>3 DEF Backup!RestoreEndsHonestly
<1>7. CASE Backup!ResetNode
  <2>1. job.pc = "reset" BY <1>7 DEF Backup!ResetNode, Backup!At
  <2>2. result = "none" /\ \A n \in Nodes : etcd[n] # "restored" BY <1>2, <2>1 DEF RestoreProgress
  <2>3. result' \in {result, "interrupted"}
    BY <1>7 DEF Backup!ResetNode, Backup!Refused, Backup!Fails, Backup!Going, Backup!Finish, Backup!outcome
  <2>4. etcd' = etcd \/ \E n \in Nodes : etcd' = [etcd EXCEPT ![n] = "resetting"]
    BY <1>7 DEF Backup!ResetNode
  <2>5. \A n \in Nodes : etcd'[n] # "restored" BY <1>1, <2>2, <2>4
  <2> QED BY <2>2, <2>3, <2>5 DEF Backup!RestoreEndsHonestly
<1>8. CASE Backup!Recover
  <2>1. job.pc = "recover" BY <1>8 DEF Backup!Recover, Backup!At
  <2>2. result = "none" /\ wiped BY <1>2, <2>1 DEF RestoreProgress
  <2>3. result' \in {result, "interrupted"}
    BY <1>8 DEF Backup!Recover, Backup!Refused, Backup!Fails, Backup!Going, Backup!Finish, Backup!outcome
  <2>4. etcd' = etcd \/ \E n \in Nodes : etcd' = [etcd EXCEPT ![n] = "restored"]
    BY <1>8 DEF Backup!Recover, Backup!Refused
  <2>5. \A n \in Nodes : etcd'[n] \notin {"old", "resetting"} BY <1>1, <2>2, <2>4
  <2> QED BY <2>2, <2>3, <2>5 DEF Backup!RestoreEndsHonestly
<1>9. CASE Backup!RestartKubelets
  BY <1>3, <1>4, <1>9 DEF Backup!RestartKubelets, Backup!Refused, Backup!Fails, Backup!Going, Backup!Finish,
        Backup!outcome
<1>10. CASE Backup!RestoreHealthy
  BY <1>2, <1>10 DEF Backup!RestoreHealthy, Backup!Finish, Backup!RestoreEndsHonestly
<1>11. CASE Backup!RestoreTimesOut
  BY <1>4, <1>11 DEF Backup!RestoreTimesOut, Backup!Fails, Backup!Finish
<1>12. ASSUME NEW n \in Nodes, NEW from, NEW to \in {"preparing", "booting", "restored"},
              Backup!EtcdMoves(n, from, to), {"old", "restored"} \cap from = {},
              to = "restored" => \E m \in Nodes : etcd[m] = "restored"
       PROVE  Backup!RestoreEndsHonestly'
  <2>1. etcd[n] \notin {"old", "restored"} /\ etcd' = [etcd EXCEPT ![n] = to] /\ result' = result
    BY <1>12 DEF Backup!EtcdMoves, Backup!outcome
  <2>2. etcd'[n] = to /\ \A m \in Nodes : m # n => etcd'[m] = etcd[m] BY <1>1, <2>1
  <2> QED BY <1>2, <1>12, <2>1, <2>2 DEF Backup!RestoreEndsHonestly
<1>13. ASSUME NEW n \in Nodes, Backup!NodePrepares(n) \/ Backup!NodeRestarts(n) \/ Backup!NodeJoins(n)
       PROVE  Backup!RestoreEndsHonestly'
  <2>1. CASE Backup!NodePrepares(n) BY <1>12, <2>1 DEF Backup!NodePrepares
  <2>2. CASE Backup!NodeRestarts(n) BY <1>12, <2>2 DEF Backup!NodeRestarts
  <2>3. CASE Backup!NodeJoins(n) BY <1>12, <2>3 DEF Backup!NodeJoins
  <2> QED BY <1>13, <2>1, <2>2, <2>3
<1>14. CASE Backup!Crash
  BY <1>3, <1>4, <1>14 DEF Backup!Crash, Backup!Finish, Backup!outcome
<1>15. \/ UNCHANGED <<etcd, result>>
       \/ Backup!SubmitRestore \/ Backup!RestoreCheck \/ Backup!ResetNode \/ Backup!Recover
       \/ Backup!RestartKubelets \/ Backup!RestoreHealthy \/ Backup!RestoreTimesOut \/ Backup!Crash
       \/ \E n \in Nodes : Backup!NodePrepares(n) \/ Backup!NodeRestarts(n) \/ Backup!NodeJoins(n)
  BY DEF Backup!Next, Backup!restore, Backup!outcome, Backup!SaveTarget,
        Backup!ScheduleDue, Backup!CreateBackup, Backup!Snapshot, Backup!Upload, Backup!RecordRemote,
        Backup!Ending, Backup!PruneRemote, Backup!Forget, Backup!PruneLocal, Backup!Delete,
        Backup!PlanRestore, Backup!Rot, Backup!DeleteLocal, Backup!ExpireRestore,
        Backup!RequestStop, Backup!PollNode, Backup!InventoryChanges
<1> HIDE DEF wiped
<1> QED BY <1>3, <1>5, <1>6, <1>7, <1>8, <1>9, <1>10, <1>11, <1>13, <1>14, <1>15

\* Every step keeps the invariant.
LEMMA BackupNext == ASSUME BackupInv, [Backup!Next]_(Backup!vars) PROVE BackupInv'
<1>1. CASE Backup!Next
  <2>1. BackupCore BY DEF BackupInv
  <2>2. BackupCore'
    BY <1>1, <2>1, SaveTargetKeeps, ScheduleDueKeeps, CreateBackupKeeps, SnapshotKeeps, UploadKeeps,
          RecordRemoteKeeps, EndingKeeps, PruneRemoteKeeps, ForgetKeeps, PruneLocalKeeps, DeleteKeeps,
          PlanRestoreKeeps, RotKeeps, DeleteLocalKeeps, ExpireRestoreKeeps, SubmitRestoreKeeps,
          RequestStopKeeps, RestoreCheckKeeps, ResetNodeKeeps, PollNodeKeeps, NodeMovesKeeps, RecoverKeeps,
          WatchKeeps, InventoryChangesKeeps, CrashKeeps DEF Backup!Next
  <2> QED BY <1>1, <2>2, HonestKeeps DEF BackupInv
<1>2. CASE UNCHANGED Backup!vars
  BY <1>2 DEF Backup!vars, Backup!catalog, Backup!settings, Backup!restore, Backup!outcome, BackupInv,
        BackupCore, Dated, BackupShapes, Backup!TypeOK, Working, DueKnown, RestoreProgress, Backup!ResetOnce,
        Backup!RecordedIsThere, Backup!RestoreEndsHonestly
<1> QED BY <1>1, <1>2

\* What the invariant promises.
LEMMA BackupPromises ==
  ASSUME BackupInv
  PROVE  /\ Backup!TypeOK /\ Backup!DueStartsOnce /\ Backup!ResetOnce /\ Backup!RecordedIsThere
         /\ Backup!RestoreEndsHonestly
<1>1. Backup!DueStartsOnce BY DEF BackupInv, BackupCore, DueKnown, Backup!DueStartsOnce
<1> QED BY <1>1 DEF BackupInv, BackupCore, BackupShapes, RestoreProgress

\* Retention removes what is in excess; a listed copy is at the target's location, or its removal
\* was requested.
LEMMA NewestKept ==
  ASSUME BackupInv, [Backup!Next]_(Backup!vars)
  PROVE  Backup!RetentionKeepsNewest
<1> SUFFICES ASSUME job # Backup!Idle, job.kind = "backup"
             PROVE  /\ \A b \in Backups : objects[b] # "none" /\ objects'[b] = "none"
                         => /\ Backup!Complete(b)
                            /\ Backup!Cardinality({c \in Backup!RemoteCopies : c > b /\ (objects[c] = location \/ c \in removing)})
                               >= Retention
                    /\ \A b \in Backups : local[b] # "none" /\ local'[b] = "none"
                         => Backup!Complete(b) /\ Backup!Cardinality({c \in Backup!LocalCopies : c > b}) >= Retention
  BY DEF Backup!RetentionKeepsNewest
<1>1. CASE Backup!PruneRemote
  <2>1. UNCHANGED local BY <1>1 DEF Backup!PruneRemote
  <2>2. ASSUME NEW b \in Backups, objects[b] # "none", objects'[b] = "none"
        PROVE  b \in Backup!Excess(Backup!RemoteCopies)
    BY <1>1, <2>2 DEF Backup!PruneRemote, BackupInv, BackupCore, BackupShapes, Backup!TypeOK
  <2>3. ASSUME NEW b \in Backup!Excess(Backup!RemoteCopies)
        PROVE  /\ Backup!Complete(b)
               /\ Backup!Cardinality({c \in Backup!RemoteCopies : c > b /\ (objects[c] = location \/ c \in removing)}) >= Retention
    <3>1. \A c \in Backup!RemoteCopies : objects[c] = location \/ c \in removing
      BY DEF Backup!RemoteCopies, BackupInv, BackupCore, Backup!RecordedIsThere
    <3>2. {c \in Backup!RemoteCopies : c > b /\ (objects[c] = location \/ c \in removing)}
          = {c \in Backup!RemoteCopies : c > b}
      BY <3>1
    <3>3. b \in Backup!RemoteCopies /\ Backup!Cardinality({c \in Backup!RemoteCopies : c > b}) >= Retention
      BY DEF Backup!Excess
    <3> QED BY <3>2, <3>3 DEF Backup!RemoteCopies
  <2> QED BY <2>1, <2>2, <2>3
<1>2. CASE Backup!PruneLocal
  <2>1. UNCHANGED objects BY <1>2 DEF Backup!PruneLocal
  <2>2. ASSUME NEW b \in Backups, local[b] # "none", local'[b] = "none"
        PROVE  b \in Backup!Excess(Backup!LocalCopies)
    BY <1>2, <2>2 DEF Backup!PruneLocal, BackupInv, BackupCore, BackupShapes, Backup!TypeOK
  <2>3. ASSUME NEW b \in Backup!Excess(Backup!LocalCopies)
        PROVE  Backup!Complete(b) /\ Backup!Cardinality({c \in Backup!LocalCopies : c > b}) >= Retention
    BY DEF Backup!Excess, Backup!LocalCopies
  <2> QED BY <2>1, <2>2, <2>3
<1>3. CASE Backup!Upload
  BY <1>3 DEF Backup!Upload, BackupInv, BackupCore, BackupShapes, Backup!TypeOK
<1>4. CASE Backup!Snapshot
  <2>1. UNCHANGED objects BY <1>4 DEF Backup!Snapshot
  <2>2. local' = local \/ \E b : local' = [local EXCEPT ![b] = "good"]
    BY <1>4 DEF Backup!Snapshot, Backup!Archived
  <2> QED BY <2>1, <2>2 DEF BackupInv, BackupCore, BackupShapes, Backup!TypeOK
<1>5. CASE \E b \in Backups : Backup!Rot(b)
  BY <1>5 DEF Backup!Rot, BackupInv, BackupCore, BackupShapes, Backup!TypeOK
<1>6. ~Backup!DeleteLocal /\ \A b \in Backups : ~Backup!Delete(b)
  BY DEF Backup!DeleteLocal, Backup!Delete, Backup!At, Backup!Busy, BackupInv, BackupCore, Working, DeletePlaces
<1>7. CASE UNCHANGED <<local, objects>>
  BY <1>7
<1> QED
  BY <1>1, <1>2, <1>3, <1>4, <1>5, <1>6, <1>7 DEF Backup!Next, Backup!vars, Backup!catalog,
        Backup!SaveTarget, Backup!ScheduleDue, Backup!CreateBackup, Backup!RecordRemote, Backup!Ending,
        Backup!Forget, Backup!PlanRestore, Backup!ExpireRestore, Backup!SubmitRestore, Backup!RestoreCheck,
        Backup!RequestStop, Backup!ResetNode, Backup!PollNode, Backup!NodePrepares, Backup!NodeRestarts,
        Backup!NodeJoins, Backup!EtcdMoves, Backup!Recover, Backup!RestartKubelets, Backup!RestoreHealthy,
        Backup!RestoreTimesOut, Backup!InventoryChanges, Backup!Crash

-----------------------------------------------------------------------------
(* Theorems. *)

\* The inductive invariant holds in every state.
THEOREM AuditInvariant == ASSUME Sensible PROVE Audit!Spec => []AuditInv
  <1>1. Audit!Init => AuditInv
    BY AuditInit
  <1>2. AuditInv /\ [Audit!Next]_(Audit!vars) => AuditInv'
    BY AuditNext
  <1> QED BY <1>1, <1>2, PTL DEF Audit!Spec

\* No mutation was carried out whose intent the journal could lose (auditMutationGuard, Record).
THEOREM MutationsAreAudited == ASSUME Sensible PROVE Audit!Spec => []Audit!PerformedIsAudited
  <1>1. AuditInv => Audit!PerformedIsAudited
    BY AuditSafe
  <1> QED BY <1>1, AuditInvariant, PTL

\* No record follows a part of one, and at most one follows a record that lost its newline (the
\* sticky error, the refusal to start).
THEOREM TornIsNotHidden == ASSUME Sensible PROVE Audit!Spec => [](Audit!TornIsLast /\ Audit!GluedOnce)
  <1>1. AuditInv => Audit!TornIsLast /\ Audit!GluedOnce
    BY AuditSafe
  <1> QED BY <1>1, AuditInvariant, PTL

\* The view shows the newest records in order, after any number of failures and restarts.
THEOREM ViewShowsNewest == ASSUME Sensible PROVE Audit!Spec => []Audit!ViewIsNewest
  <1>1. AuditInv => Audit!ViewIsNewest
    BY AuditSafe
  <1> QED BY <1>1, AuditInvariant, PTL

\* The inductive invariant of the backups holds in every state.
THEOREM BackupInvariant == ASSUME Dated PROVE Backup!Spec => []BackupInv
<1>1. Backup!Init => BackupInv BY BackupInit
<1>2. BackupInv /\ [Backup!Next]_(Backup!vars) => BackupInv' BY BackupNext
<1> QED BY <1>1, <1>2, PTL DEF Backup!Spec

\* Every listed remote restore point is at the target's location, or its removal was requested
\* (Run, prune).
THEOREM RestorePointsAreThere == ASSUME Dated PROVE Backup!Spec => []Backup!RecordedIsThere
<1>1. BackupInv => Backup!RecordedIsThere BY BackupPromises
<1> QED BY <1>1, BackupInvariant, PTL

\* A due time starts one backup, and an approved restore wipes the nodes once (the journal's key,
\* the plan's started mark).
THEOREM BackupsAndRestoresOnce ==
  ASSUME Dated PROVE Backup!Spec => [](Backup!DueStartsOnce /\ Backup!ResetOnce)
<1>1. BackupInv => Backup!DueStartsOnce /\ Backup!ResetOnce BY BackupPromises
<1> QED BY <1>1, BackupInvariant, PTL

\* A restore that reads stopped or failed touched no control plane, one that reads succeeded
\* recovered them all, and none is recovered beside an old one (runRestore).
THEOREM RestoresAreHonest == ASSUME Dated PROVE Backup!Spec => []Backup!RestoreEndsHonestly
<1>1. BackupInv => Backup!RestoreEndsHonestly BY BackupPromises
<1> QED BY <1>1, BackupInvariant, PTL

\* Retention keeps the newest complete copies (prune).
THEOREM RetentionIsSafe == ASSUME Dated PROVE Backup!Spec => [][Backup!RetentionKeepsNewest]_(Backup!vars)
<1>1. BackupInv /\ [Backup!Next]_(Backup!vars) => [Backup!RetentionKeepsNewest]_(Backup!vars)
  BY NewestKept
<1> QED BY <1>1, BackupInvariant, PTL DEF Backup!Spec
-----------------------------------------------------------------------------
(* Sessions. *)


\* A state has its fields and a record for every user, at version 0 until the user exists.
IsState(s) == /\ s = [users |-> s.users, revoked |-> s.revoked, key |-> s.key]
              /\ s.users \in [Users -> UserRecord]
              /\ \A u \in Users : ~s.users[u].exists => s.users[u].version = 0

\* What a request between two of its steps names is there: a user, or a signed token.
Asks(r) == /\ r.op = "verified" => r.user \in Users /\ state.users[r.user].exists
           /\ r.op = "logout" => r.token \in Issued

\* States, tokens and requests are well formed, and only sessions that existed have ended.
Shapes ==
    /\ IsState(state) /\ IsState(disk)
    /\ tokens = [t \in Tokens |-> tokens[t]]
    /\ \A t \in Issued : /\ tokens[t] = [phase |-> tokens[t].phase, user |-> tokens[t].user, role |-> tokens[t].role,
                                         version |-> tokens[t].version, key |-> tokens[t].key]
                         /\ tokens[t].user \in Users /\ tokens[t].version \in Nat
    /\ client = [c \in Clients |-> client[c]]
    /\ \A c \in Clients : Asks(client[c])
    /\ ended \subseteq Issued

\* s knows the user at least as well as r: it exists there too, with a version not lower.
NotBehind(s, r) ==
    \A u \in Users : s.users[u].version >= r.users[u].version /\ (r.users[u].exists => s.users[u].exists)

\* No token is ahead of its user, who exists.
TokensOld == \A t \in Issued : LET u == state.users[tokens[t].user]
                               IN  u.exists /\ tokens[t].version <= u.version

\* The token is revoked in s, or its user has moved on.
Dead(s, t) == t \in s.revoked \/ tokens[t].version < s.users[tokens[t].user].version
EndedDead == \A t \in ended : tokens[t].phase = "live" => Dead(state, t) /\ Dead(disk, t)

SessionInv == Shapes /\ NotBehind(disk, state) /\ TokensOld /\ EndedDead /\ AdminRemains

\* The state a change writes: nothing gets lost in it, an administrator remains, and the
\* sessions that it ends are dead.
Follows(next, gone) ==
    /\ IsState(next) /\ NotBehind(next, state) /\ LocalAdmins(next) # {}
    /\ \A t \in state.revoked : tokens[t].phase = "live" => t \in next.revoked
    /\ \A t \in gone : t \in Issued /\ Dead(next, t)

-----------------------------------------------------------------------------
\* The first state.
LEMMA SessionInit == ASSUME Init PROVE SessionInv
<1> DEFINE us == [u \in Users |-> IF u = "admin" THEN Created("admin") ELSE NoUser]
<1>1. us \in [Users -> UserRecord] /\ \A u \in Users : ~us[u].exists => us[u].version = 0
  BY DEF Created, NoUser, UserRecord, Roles
<1>2. us["admin"].exists /\ us["admin"].role = "admin" /\ ~us["admin"].disabled BY DEF Created, Users
<1>3. state.users = us /\ disk = state BY DEF Init
<1>4. \E k : state = [users |-> us, revoked |-> {}, key |-> k] BY DEF Init
<1> HIDE DEF us
<1>5. IsState(state) /\ IsState(disk) BY <1>1, <1>3, <1>4 DEF IsState
<1>6. "admin" \in LocalAdmins(state) BY <1>2, <1>3 DEF LocalAdmins, Users, Provider
<1>7. AdminRemains BY <1>3, <1>6 DEF AdminRemains
<1>8. Issued = {} BY DEF Init, Issued
<1>9. \A u \in Users : state.users[u].version \in Nat BY <1>1, <1>3 DEF UserRecord
<1>10. NotBehind(disk, state) BY <1>3, <1>9 DEF NotBehind
<1>11. Shapes BY <1>5, <1>8 DEF Init, Shapes, Idle, Asks
<1>12. TokensOld /\ EndedDead BY <1>8 DEF Init, TokensOld, EndedDead
<1> QED BY <1>7, <1>10, <1>11, <1>12 DEF SessionInv

\* What a user record holds.
LEMMA UserFields ==
    ASSUME NEW s, IsState(s), NEW u \in Users
    PROVE  /\ s.users[u] \in UserRecord /\ s.users[u].version \in Nat
           /\ s.users[u].exists \in BOOLEAN /\ s.users[u].disabled \in BOOLEAN /\ s.users[u].role \in Roles
BY DEF IsState, UserRecord

\* The copy a change starts from.
LEMMA PrunedIs ==
    ASSUME Shapes
    PROVE  /\ Pruned = [users |-> state.users, revoked |-> Pruned.revoked, key |-> state.key]
           /\ IsState(Pruned) /\ Pruned.users = state.users
           /\ \A t \in state.revoked : tokens[t].phase = "live" => t \in Pruned.revoked
<1> DEFINE R == {t \in state.revoked : tokens[t].phase = "live"}
<1>1. Pruned = [state EXCEPT !.revoked = R] BY DEF Pruned
<1>2. \A t \in state.revoked : tokens[t].phase = "live" => t \in R OBVIOUS
<1> HIDE DEF R
<1>3. IsState(state) BY DEF Shapes
<1>4. Pruned = [users |-> state.users, revoked |-> R, key |-> state.key]
  BY <1>1, <1>3 DEF IsState
<1> QED BY <1>2, <1>3, <1>4 DEF IsState

\* A change of one user's record.
LEMMA WithIs ==
    ASSUME Shapes, NEW u \in Users, NEW rec \in UserRecord, rec.exists
    PROVE  /\ IsState(With(u, rec)) /\ With(u, rec).revoked = Pruned.revoked
           /\ With(u, rec).users[u] = rec
           /\ \A v \in Users : v # u => With(u, rec).users[v] = state.users[v]
<1> DEFINE us == [state.users EXCEPT ![u] = rec]
<1>1. us \in [Users -> UserRecord] /\ us[u] = rec /\ \A v \in Users : v # u => us[v] = state.users[v]
  BY DEF Shapes, IsState
<1>2. With(u, rec) = [users |-> us, revoked |-> Pruned.revoked, key |-> state.key]
  BY PrunedIs DEF With
<1>3. \A v \in Users : ~state.users[v].exists => state.users[v].version = 0 BY DEF Shapes, IsState
<1> HIDE DEF us
<1> QED BY <1>1, <1>2, <1>3 DEF IsState

\* A record that does not fall behind is followed, when it leaves an administrator; a version
\* that was raised ends the user's sessions.
LEMMA WithFollows ==
    ASSUME SessionInv, NEW u \in Users, NEW rec \in UserRecord, NEW gone,
           rec.version >= User(u).version, rec.exists,
           LocalAdmins(With(u, rec)) # {},
           gone \subseteq Of(u), gone # {} => rec.version > User(u).version
    PROVE  Follows(With(u, rec), gone)
<1>1. Shapes BY DEF SessionInv
<1> DEFINE next == With(u, rec)
<1>2. /\ IsState(next) /\ next.revoked = Pruned.revoked /\ next.users[u] = rec
      /\ \A v \in Users : v # u => next.users[v] = state.users[v]
  BY <1>1, WithIs
<1> HIDE DEF next
<1>3. NotBehind(next, state)
  <2>1. \A v \in Users : state.users[v].version \in Nat BY <1>1, UserFields DEF Shapes
  <2> QED BY <1>2, <2>1 DEF NotBehind, User
<1>4. \A t \in state.revoked : tokens[t].phase = "live" => t \in next.revoked BY <1>1, <1>2, PrunedIs
<1>5. ASSUME NEW t \in gone PROVE t \in Issued /\ Dead(next, t)
  <2>1. t \in Issued /\ tokens[t].user = u BY <1>5 DEF Of
  <2>2. tokens[t].version <= state.users[u].version /\ tokens[t].version \in Nat
    BY <2>1 DEF SessionInv, TokensOld, Shapes
  <2>3. state.users[u].version \in Nat /\ rec.version \in Nat BY <1>1, UserFields DEF Shapes, UserRecord
  <2>4. tokens[t].version < rec.version BY <1>5, <2>2, <2>3 DEF User
  <2> QED BY <1>2, <2>1, <2>4 DEF Dead
<1> QED BY <1>2, <1>3, <1>4, <1>5 DEF Follows, next

\* A change that follows keeps the invariant, whether it is confirmed, lost or written unnoticed.
LEMMA ChangeKeeps ==
    ASSUME SessionInv, NEW next, NEW gone, Follows(next, gone), changeState(next, gone),
           UNCHANGED tokens,
           \/ client' = client
           \/ \E c \in Clients : \E r : client' = [client EXCEPT ![c] = r] /\ r.op \notin {"verified", "logout"}
    PROVE  SessionInv'
<1>1. Issued' = Issued BY DEF Issued
<1>2. /\ disk' = disk \/ disk' = next
      /\ \/ state' = next /\ disk' = next /\ ended' = ended \cup gone
         \/ state' = state /\ ended' = ended
  BY DEF changeState
<1>3. \A u \in Users : state.users[u].version \in Nat /\ next.users[u].version \in Nat
  BY UserFields DEF SessionInv, Shapes, Follows
<1>4. Shapes'
  <2>1. IsState(state') /\ IsState(disk') BY <1>2 DEF SessionInv, Shapes, Follows
  <2>2. client' = [c \in Clients |-> client'[c]] BY DEF SessionInv, Shapes
  <2>3. ASSUME NEW c \in Clients PROVE Asks(client[c])'
    <3>1. client'[c] = client[c] \/ client'[c].op \notin {"verified", "logout"}
      BY DEF SessionInv, Shapes
    <3>2. \A u \in Users : state.users[u].exists => state'.users[u].exists BY <1>2 DEF Follows, NotBehind
    <3>3. Asks(client[c]) BY DEF SessionInv, Shapes
    <3> QED BY <1>1, <3>1, <3>2, <3>3 DEF Asks
  <2>4. ended' \subseteq Issued BY <1>2 DEF SessionInv, Shapes, Follows
  <2> QED BY <1>1, <2>1, <2>2, <2>3, <2>4 DEF SessionInv, Shapes, IsState
<1>9. NotBehind(disk, state)'
  <2>1. CASE state' = next /\ disk' = next BY <1>3, <2>1 DEF NotBehind
  <2>2. CASE state' = state BY <1>2, <2>2 DEF NotBehind, Follows, SessionInv
  <2> QED BY <1>2, <2>1, <2>2
<1>5. TokensOld'
  <2>1. ASSUME NEW t \in Issued
        PROVE  /\ state'.users[tokens[t].user].exists
               /\ tokens[t].version <= state'.users[tokens[t].user].version
    <3>1. /\ tokens[t].user \in Users /\ tokens[t].version \in Nat
          /\ state.users[tokens[t].user].exists
          /\ tokens[t].version <= state.users[tokens[t].user].version
      BY DEF SessionInv, Shapes, TokensOld
    <3> QED BY <1>2, <1>3, <3>1 DEF Follows, NotBehind
  <2> QED BY <1>1, <2>1 DEF TokensOld
<1>6. \A t \in ended : tokens[t].phase = "live" => Dead(next, t)
  <2>1. TAKE t \in ended
  <2>2. HAVE tokens[t].phase = "live"
  <2>3. Dead(state, t) /\ tokens[t].user \in Users /\ tokens[t].version \in Nat
    BY <2>2 DEF SessionInv, EndedDead, Shapes
  <2> QED BY <1>3, <2>2, <2>3 DEF Dead, Follows, NotBehind
<1>7. EndedDead'
  BY <1>2, <1>6 DEF EndedDead, SessionInv, Dead, Follows
<1>8. AdminRemains'
  BY <1>2 DEF AdminRemains, SessionInv, Follows, LocalAdmins
<1> QED BY <1>4, <1>5, <1>7, <1>8, <1>9 DEF SessionInv

\* An administrator remains when the changed user was none, or is what it was.
LEMMA AdminKept ==
    ASSUME SessionInv, NEW u \in Users, NEW rec \in UserRecord, rec.exists,
           \/ u \notin LocalAdmins(state)
           \/ rec.role = User(u).role /\ rec.disabled = User(u).disabled
    PROVE  LocalAdmins(With(u, rec)) # {}
<1>1. PICK a \in LocalAdmins(state) : TRUE BY DEF SessionInv, AdminRemains
<1>2. a \in Users BY DEF LocalAdmins
<1> DEFINE next == With(u, rec)
<1>3. next.users[u] = rec /\ \A v \in Users : v # u => next.users[v] = state.users[v]
  BY WithIs DEF SessionInv
<1> HIDE DEF next
<1>4. a \in LocalAdmins(next) BY <1>1, <1>2, <1>3 DEF LocalAdmins, User
<1> QED BY <1>4 DEF next

\* A raised version.
LEMMA RaisedIs ==
    ASSUME SessionInv, NEW u \in Users
    PROVE  /\ Raised(u) \in UserRecord /\ Raised(u).version = User(u).version + 1
           /\ Raised(u).exists = User(u).exists /\ Raised(u).role = User(u).role
           /\ Raised(u).disabled = User(u).disabled /\ User(u).version \in Nat
<1>1. User(u) \in UserRecord BY UserFields DEF SessionInv, Shapes, User
<1> QED BY <1>1 DEF Raised, UserRecord

\* A raised version, with nothing else changed, follows and ends the user's sessions.
LEMMA RaisedFollows ==
    ASSUME SessionInv, NEW u \in Users, User(u).exists
    PROVE  Follows(With(u, Raised(u)), Of(u))
<1> DEFINE rec == Raised(u)
<1>1. /\ rec \in UserRecord /\ rec.version = User(u).version + 1 /\ User(u).version \in Nat
      /\ rec.exists /\ rec.role = User(u).role /\ rec.disabled = User(u).disabled
  BY RaisedIs
<1> HIDE DEF rec
<1>2. LocalAdmins(With(u, rec)) # {} BY <1>1, AdminKept
<1>3. Follows(With(u, rec), Of(u)) BY <1>1, <1>2, WithFollows
<1> QED BY <1>3 DEF rec

-----------------------------------------------------------------------------
\* Changes of users.
LEMMA CreateUserKeeps == ASSUME SessionInv, NEW role \in Roles, CreateUser(role) PROVE SessionInv'
<1> DEFINE rec == Created(role)
<1>1. rec \in UserRecord /\ rec.exists /\ rec.version = 1 BY DEF Created, UserRecord
<1>2. "local" \in Users /\ User("local").version = 0 /\ "local" \notin LocalAdmins(state)
  BY DEF CreateUser, SessionInv, Shapes, IsState, User, Users, LocalAdmins
<1>3. changeState(With("local", rec), {}) /\ UNCHANGED <<tokens, client>> BY DEF CreateUser, sessionVars
<1> HIDE DEF rec
<1>4. LocalAdmins(With("local", rec)) # {} BY <1>1, <1>2, AdminKept
<1>5. Follows(With("local", rec), {}) BY <1>1, <1>2, <1>4, WithFollows
<1> QED BY <1>3, <1>5, ChangeKeeps

LEMMA UpdateUserKeeps ==
    ASSUME SessionInv, NEW u \in Users, NEW role \in Roles, NEW d \in BOOLEAN, UpdateUser(u, role, d)
    PROVE  SessionInv'
<1> DEFINE rec == [Raised(u) EXCEPT !.role = role, !.disabled = d]
<1>1. rec \in UserRecord /\ rec.version = User(u).version + 1 /\ rec.exists /\ User(u).version \in Nat
  BY RaisedIs DEF UserRecord, UpdateUser
<1>2. /\ LocalAdmins(With(u, rec)) # {} /\ changeState(With(u, rec), Of(u))
      /\ UNCHANGED <<tokens, client>>
  BY DEF UpdateUser, sessionVars
<1> HIDE DEF rec
<1>3. Follows(With(u, rec), Of(u)) BY <1>1, <1>2, WithFollows
<1> QED BY <1>2, <1>3, ChangeKeeps

LEMMA RevokeUserKeeps == ASSUME SessionInv, NEW u \in Users, RevokeUser(u) PROVE SessionInv'
<1>1. /\ User(u).exists /\ changeState(With(u, Raised(u)), Of(u)) /\ UNCHANGED <<tokens, client>>
  BY DEF RevokeUser, sessionVars
<1> QED BY <1>1, RaisedFollows, ChangeKeeps

LEMMA ChangePasswordKeeps == ASSUME SessionInv, NEW c \in Clients, ChangePassword(c) PROVE SessionInv'
<1> DEFINE u == client[c].user
<1>1. u \in Users /\ User(u).exists BY DEF ChangePassword, At, SessionInv, Shapes, Asks, User
<1>2. /\ changeState(With(u, Raised(u)), Of(u)) /\ UNCHANGED tokens
      /\ client' = [client EXCEPT ![c] = Idle]
  BY DEF ChangePassword, Goto
<1>3. Idle.op \notin {"verified", "logout"} BY DEF Idle
<1> HIDE DEF u
<1> QED BY <1>1, <1>2, <1>3, RaisedFollows, ChangeKeeps

LEMMA RevokeTokenKeeps == ASSUME SessionInv, NEW c \in Clients, RevokeToken(c) PROVE SessionInv'
<1> DEFINE t == client[c].token
           next == [Pruned EXCEPT !.revoked = @ \cup {t}]
<1>1. t \in Issued BY DEF RevokeToken, At, SessionInv, Shapes, Asks
<1>2. changeState(next, {t}) /\ UNCHANGED tokens /\ client' = [client EXCEPT ![c] = Idle]
  BY DEF RevokeToken, Goto
<1>3. Idle.op \notin {"verified", "logout"} BY DEF Idle
<1> HIDE DEF t
<1>4. next = [users |-> state.users, revoked |-> Pruned.revoked \cup {t}, key |-> state.key]
  BY PrunedIs DEF SessionInv
<1> HIDE DEF next
<1>5. IsState(next) BY <1>4 DEF IsState, SessionInv, Shapes
<1>6. LocalAdmins(next) # {} BY <1>4 DEF LocalAdmins, SessionInv, AdminRemains
<1>7. NotBehind(next, state)
  <2>1. \A u \in Users : state.users[u].version \in Nat BY UserFields DEF SessionInv, Shapes
  <2> QED BY <1>4, <2>1 DEF NotBehind
<1>8. \A x \in state.revoked : tokens[x].phase = "live" => x \in next.revoked BY <1>4, PrunedIs DEF SessionInv
<1>9. t \in Issued /\ Dead(next, t) BY <1>1, <1>4 DEF Dead
<1>10. Follows(next, {t}) BY <1>5, <1>6, <1>7, <1>8, <1>9 DEF Follows
<1> QED BY <1>2, <1>3, <1>10, ChangeKeeps

LEMMA OidcUserKeeps ==
    ASSUME SessionInv, NEW c \in Clients, NEW role \in Roles, oidcUser(c, role)
    PROVE  SessionInv'
<1>1. PICK r : /\ client' = [client EXCEPT ![c] = r] /\ r.op \notin {"verified", "logout"}
               /\ UNCHANGED tokens
  <2>1. client' = [client EXCEPT ![c] = IF faults' = faults THEN [op |-> "identified", role |-> role] ELSE Idle]
    BY DEF oidcUser, Goto
  <2>2. UNCHANGED tokens BY DEF oidcUser
  <2>3. CASE faults' = faults
    <3> DEFINE r == [op |-> "identified", role |-> role]
    <3>1. client' = [client EXCEPT ![c] = r] /\ r.op \notin {"verified", "logout"} BY <2>1, <2>3
    <3> HIDE DEF r
    <3> QED BY <2>2, <3>1
  <2>4. CASE faults' # faults
    <3>1. client' = [client EXCEPT ![c] = Idle] /\ Idle.op \notin {"verified", "logout"}
      BY <2>1, <2>4 DEF Idle
    <3> QED BY <2>2, <3>1
  <2> QED BY <2>3, <2>4
<1>2. "sso" \in Users /\ "sso" \notin LocalAdmins(state) BY DEF Users, LocalAdmins, Provider
<1>3. CASE ~User("sso").exists /\ changeState(With("sso", Created(role)), {})
  <2> DEFINE rec == Created(role)
  <2>1. rec \in UserRecord /\ rec.exists /\ rec.version = 1 BY DEF Created, UserRecord
  <2>2. User("sso").version = 0 BY <1>2, <1>3 DEF SessionInv, Shapes, IsState, User
  <2> HIDE DEF rec
  <2>3. LocalAdmins(With("sso", rec)) # {} BY <1>2, <2>1, AdminKept
  <2>4. Follows(With("sso", rec), {}) BY <1>2, <2>1, <2>2, <2>3, WithFollows
  <2> QED BY <1>1, <1>3, <2>4, ChangeKeeps DEF rec
<1>4. CASE changeState(Pruned, {})
  <2> DEFINE next == Pruned
  <2>1. /\ IsState(next) /\ next.users = state.users
        /\ \A t \in state.revoked : tokens[t].phase = "live" => t \in next.revoked
    BY PrunedIs DEF SessionInv
  <2> HIDE DEF next
  <2>2. LocalAdmins(next) # {} BY <2>1 DEF LocalAdmins, SessionInv, AdminRemains
  <2>3. \A u \in Users : state.users[u].version \in Nat BY UserFields DEF SessionInv, Shapes
  <2>4. NotBehind(next, state) BY <2>1, <2>3 DEF NotBehind
  <2>5. Follows(next, {}) BY <2>1, <2>2, <2>4 DEF Follows
  <2> QED BY <1>1, <1>4, <2>5, ChangeKeeps DEF next
<1>5. CASE User("sso").exists /\ changeState(With("sso", [Raised("sso") EXCEPT !.role = role]), Of("sso"))
  <2> DEFINE rec == [Raised("sso") EXCEPT !.role = role]
  <2>1. /\ rec \in UserRecord /\ rec.exists /\ rec.version = User("sso").version + 1
        /\ User("sso").version \in Nat
    BY <1>2, <1>5, RaisedIs DEF UserRecord
  <2> HIDE DEF rec
  <2>2. LocalAdmins(With("sso", rec)) # {} BY <1>2, <2>1, AdminKept
  <2>3. Follows(With("sso", rec), Of("sso")) BY <1>2, <2>1, <2>2, WithFollows
  <2> QED BY <1>1, <1>5, <2>3, ChangeKeeps DEF rec
<1> QED BY <1>3, <1>4, <1>5 DEF oidcUser

-----------------------------------------------------------------------------
\* Requests, tickets and crashes leave the authentication state and the tokens alone.
LEMMA StateStays ==
    ASSUME SessionInv, UNCHANGED <<state, disk, ended, tokens>>,
           client' = [c \in Clients |-> client'[c]], \A c \in Clients : Asks(client'[c])
    PROVE  SessionInv'
<1>1. Issued' = Issued BY DEF Issued
<1>2. \A c \in Clients : Asks(client[c])' BY <1>1 DEF Asks
<1>3. Shapes' BY <1>1, <1>2 DEF SessionInv, Shapes, IsState
<1>4. NotBehind(disk, state)' BY DEF SessionInv, NotBehind
<1>5. TokensOld' BY <1>1 DEF SessionInv, TokensOld
<1>6. EndedDead' BY DEF SessionInv, EndedDead, Dead
<1>7. AdminRemains' BY DEF SessionInv, AdminRemains, LocalAdmins
<1> QED BY <1>3, <1>4, <1>5, <1>6, <1>7 DEF SessionInv

\* A request that moves on to r.
LEMMA ClientMoves ==
    ASSUME SessionInv, UNCHANGED <<state, disk, ended, tokens>>, NEW c \in Clients, NEW r,
           client' = [client EXCEPT ![c] = r], Asks(r)
    PROVE  SessionInv'
<1>1. client' = [d \in Clients |-> client'[d]] BY DEF SessionInv, Shapes
<1>2. ASSUME NEW d \in Clients PROVE Asks(client'[d])
  <2>1. client'[d] = client[d] \/ client'[d] = r BY DEF SessionInv, Shapes
  <2>2. Asks(client[d]) BY DEF SessionInv, Shapes
  <2> QED BY <2>1, <2>2
<1> QED BY <1>1, <1>2, StateStays

LEMMA IdleAsksNothing == Asks(Idle)
BY DEF Asks, Idle

LEMMA VerifyLocalKeeps == ASSUME SessionInv, NEW c \in Clients, NEW u \in Users, verifyLocal(c, u) PROVE SessionInv'
<1> DEFINE r == [op |-> "verified", user |-> u, role |-> User(u).role]
<1>1. UNCHANGED <<state, disk, ended, tokens>> /\ client' = [client EXCEPT ![c] = r]
  BY DEF verifyLocal, stateVars, Goto
<1>2. r.op = "verified" /\ r.user = u /\ state.users[u].exists BY DEF verifyLocal, User
<1> HIDE DEF r
<1>3. Asks(r) BY <1>2 DEF Asks
<1> QED BY <1>1, <1>3, ClientMoves

LEMMA LogoutStartKeeps == ASSUME SessionInv, NEW c \in Clients, NEW t \in Tokens, LogoutStart(c, t) PROVE SessionInv'
<1> DEFINE r == [op |-> "logout", token |-> t]
<1>1. UNCHANGED <<state, disk, ended, tokens>> /\ client' = [client EXCEPT ![c] = r]
  BY DEF LogoutStart, stateVars, Goto
<1>2. tokens[t].phase \in {"live", "leeway"} BY DEF LogoutStart, ValidateToken
<1>3. t \in Issued BY <1>2 DEF Issued, NoToken
<1>4. r.op = "logout" /\ r.token = t OBVIOUS
<1> HIDE DEF r
<1>5. Asks(r) BY <1>3, <1>4 DEF Asks
<1> QED BY <1>1, <1>5, ClientMoves

LEMMA TakeTicketKeeps == ASSUME SessionInv, NEW c \in Clients, NEW k \in Tickets, TakeTicket(c, k) PROVE SessionInv'
<1> DEFINE r == [op |-> "download", ticket |-> k, late |-> Over(k)]
<1>1. UNCHANGED <<state, disk, ended, tokens>> BY DEF TakeTicket, stateVars
<1>2. client' = [client EXCEPT ![c] = IF Pending(k) THEN r ELSE Idle] BY DEF TakeTicket, Goto
<1>3. r.op = "download" OBVIOUS
<1> HIDE DEF r
<1>4. Asks(r) BY <1>3 DEF Asks
<1>5. CASE Pending(k)
  <2>1. client' = [client EXCEPT ![c] = r] BY <1>2, <1>5
  <2> QED BY <1>1, <1>4, <2>1, ClientMoves
<1>6. CASE ~Pending(k)
  <2>1. client' = [client EXCEPT ![c] = Idle] BY <1>2, <1>6
  <2> QED BY <1>1, <2>1, ClientMoves, IdleAsksNothing
<1> QED BY <1>5, <1>6

LEMMA AuthenticateKeeps == ASSUME SessionInv, NEW c \in Clients, Authenticate(c) PROVE SessionInv'
<1>1. UNCHANGED <<state, disk, ended, tokens>> /\ client' = [client EXCEPT ![c] = Idle]
  BY DEF Authenticate, stateVars, Goto
<1> QED BY <1>1, ClientMoves, IdleAsksNothing

LEMMA SessionCrashKeeps == ASSUME SessionInv, Crash PROVE SessionInv'
<1>1. UNCHANGED <<state, disk, ended, tokens>> /\ client' = [c \in Clients |-> Idle] BY DEF Crash
<1>2. \A c \in Clients : client'[c] = Idle BY <1>1
<1>3. client' = [c \in Clients |-> client'[c]] BY <1>1
<1>4. \A c \in Clients : Asks(client'[c]) BY <1>2, IdleAsksNothing
<1> QED BY <1>1, <1>3, <1>4, StateStays

LEMMA NoRequestKeeps == ASSUME SessionInv, UNCHANGED <<state, disk, ended, tokens, client>> PROVE SessionInv'
BY StateStays DEF SessionInv, Shapes

-----------------------------------------------------------------------------
\* A new token has the version its user has.
LEMMA SignKeeps ==
    ASSUME SessionInv, NEW u \in Users, User(u).exists, NEW t \in Tokens, Sign(t, u),
           UNCHANGED <<state, disk, ended>>, NEW c \in Clients, client' = [client EXCEPT ![c] = Idle]
    PROVE  SessionInv'
<1> DEFINE x == [phase |-> "live", user |-> u, role |-> User(u).role, version |-> User(u).version, key |-> state.key]
<1>1. t \notin Issued /\ tokens' = [tokens EXCEPT ![t] = x] BY DEF Sign
<1>2. x # NoToken /\ x.user = u /\ x.version = User(u).version BY DEF NoToken
<1>3. x = [phase |-> x.phase, user |-> x.user, role |-> x.role, version |-> x.version, key |-> x.key] OBVIOUS
<1> HIDE DEF x
<1>4. tokens' = [y \in Tokens |-> tokens'[y]] /\ tokens'[t] = x /\ \A y \in Tokens : y # t => tokens'[y] = tokens[y]
  BY <1>1 DEF SessionInv, Shapes
<1>5. Issued' = Issued \cup {t} BY <1>2, <1>4 DEF Issued
<1>6. \A y \in Issued : y \in Tokens /\ tokens'[y] = tokens[y] BY <1>1, <1>4 DEF Issued
<1>7. User(u).version \in Nat BY UserFields DEF SessionInv, Shapes, User
<1>8. Shapes'
  <2>1. IsState(state)' /\ IsState(disk)' BY DEF SessionInv, Shapes, IsState
  <2>2. ASSUME NEW y \in Issued'
        PROVE  (/\ tokens[y] = [phase |-> tokens[y].phase, user |-> tokens[y].user, role |-> tokens[y].role,
                                version |-> tokens[y].version, key |-> tokens[y].key]
                /\ tokens[y].user \in Users /\ tokens[y].version \in Nat)'
    <3>1. CASE y = t BY <1>2, <1>3, <1>4, <1>7, <3>1
    <3>2. CASE y \in Issued BY <1>6, <3>2 DEF SessionInv, Shapes
    <3> QED BY <1>5, <3>1, <3>2
  <2>3. client' = [d \in Clients |-> client'[d]] BY DEF SessionInv, Shapes
  <2>4. ASSUME NEW d \in Clients PROVE Asks(client[d])'
    <3>1. client'[d] = client[d] \/ client'[d].op = "idle" BY DEF SessionInv, Shapes, Idle
    <3>2. Asks(client[d]) BY DEF SessionInv, Shapes
    <3> QED BY <1>5, <3>1, <3>2 DEF Asks
  <2>5. ended' \subseteq Issued' BY <1>5 DEF SessionInv, Shapes
  <2> QED BY <1>4, <2>1, <2>2, <2>3, <2>4, <2>5 DEF Shapes
<1>9. NotBehind(disk, state)' BY DEF SessionInv, NotBehind
<1>10. TokensOld' BY <1>2, <1>4, <1>5, <1>6, <1>7 DEF SessionInv, TokensOld, User
<1>11. EndedDead'
  <2>1. \A y \in ended : tokens'[y] = tokens[y] BY <1>6 DEF SessionInv, Shapes
  <2> QED BY <2>1 DEF SessionInv, EndedDead, Dead
<1>12. AdminRemains' BY DEF SessionInv, AdminRemains, LocalAdmins
<1> QED BY <1>8, <1>9, <1>10, <1>11, <1>12 DEF SessionInv

LEMMA LoginKeeps == ASSUME SessionInv, NEW c \in Clients, Login(c) PROVE SessionInv'
<1>1. UNCHANGED <<state, disk, ended>> /\ client' = [client EXCEPT ![c] = Idle]
  BY DEF Login, stateVars, Goto
<1>2. client[c].user \in Users BY DEF Login, At, SessionInv, Shapes, Asks
<1>3. CASE UNCHANGED tokens BY <1>1, <1>3, ClientMoves, IdleAsksNothing
<1>4. CASE Signable(client[c].user, client[c].role) /\ \E t \in Tokens : Sign(t, client[c].user)
  <2>1. PICK t \in Tokens : Sign(t, client[c].user) BY <1>4
  <2>2. User(client[c].user).exists BY <1>4 DEF Signable
  <2> DEFINE u == client[c].user
  <2>3. u \in Users /\ User(u).exists /\ Sign(t, u) BY <1>2, <2>1, <2>2
  <2> HIDE DEF u
  <2> QED BY <1>1, <2>3, SignKeeps
<1> QED BY <1>3, <1>4 DEF Login

LEMMA FinishOIDCKeeps == ASSUME SessionInv, NEW c \in Clients, FinishOIDC(c) PROVE SessionInv'
<1>1. UNCHANGED <<state, disk, ended>> /\ client' = [client EXCEPT ![c] = Idle]
  BY DEF FinishOIDC, stateVars, Goto
<1>2. CASE UNCHANGED tokens BY <1>1, <1>2, ClientMoves, IdleAsksNothing
<1>3. CASE Signable("sso", client[c].role) /\ \E t \in Tokens : Sign(t, "sso")
  <2>1. PICK t \in Tokens : Sign(t, "sso") BY <1>3
  <2>2. "sso" \in Users /\ User("sso").exists BY <1>3 DEF Signable, Users
  <2> QED BY <1>1, <2>1, <2>2, SignKeeps
<1> QED BY <1>2, <1>3 DEF FinishOIDC

\* Time changes nothing but the phase, and makes no token live.
LEMMA TokenAgesKeeps == ASSUME SessionInv, NEW t \in Tokens, TokenAges(t) PROVE SessionInv'
<1>1. UNCHANGED <<state, disk, ended, client>> /\ t \in Issued
  BY DEF TokenAges, stateVars, Issued, NoToken
<1>2. PICK p \in {"leeway", "expired"} : tokens' = [tokens EXCEPT ![t].phase = p] BY DEF TokenAges
<1>3. tokens[t] = [phase |-> tokens[t].phase, user |-> tokens[t].user, role |-> tokens[t].role,
                   version |-> tokens[t].version, key |-> tokens[t].key]
  BY <1>1 DEF SessionInv, Shapes
<1>4. /\ tokens' = [y \in Tokens |-> tokens'[y]] /\ \A y \in Tokens : y # t => tokens'[y] = tokens[y]
      /\ tokens'[t] = [phase |-> p, user |-> tokens[t].user, role |-> tokens[t].role,
                       version |-> tokens[t].version, key |-> tokens[t].key]
  BY <1>2, <1>3 DEF SessionInv, Shapes
<1>5. tokens'[t] # NoToken BY <1>4 DEF NoToken
<1>6. Issued' = Issued BY <1>1, <1>4, <1>5 DEF Issued
<1>7. \A y \in Issued : /\ tokens'[y].user = tokens[y].user /\ tokens'[y].version = tokens[y].version
                        /\ tokens'[y].phase = "live" => tokens[y].phase = "live"
  BY <1>4 DEF Issued
<1>8. Shapes'
  <2>1. IsState(state)' /\ IsState(disk)' BY <1>1 DEF SessionInv, Shapes, IsState
  <2>2. \A y \in Issued :
           /\ tokens'[y] = [phase |-> tokens'[y].phase, user |-> tokens'[y].user, role |-> tokens'[y].role,
                            version |-> tokens'[y].version, key |-> tokens'[y].key]
           /\ tokens'[y].user \in Users /\ tokens'[y].version \in Nat
    BY <1>4 DEF SessionInv, Shapes, Issued
  <2>3. \A c \in Clients : Asks(client[c])' BY <1>1, <1>6 DEF SessionInv, Shapes, Asks
  <2> QED BY <1>1, <1>4, <1>6, <2>1, <2>2, <2>3 DEF SessionInv, Shapes
<1>9. NotBehind(disk, state)' BY <1>1 DEF SessionInv, NotBehind
<1>10. TokensOld' BY <1>1, <1>6, <1>7 DEF SessionInv, TokensOld
<1>11. EndedDead' BY <1>1, <1>7 DEF SessionInv, Shapes, EndedDead, Dead
<1>12. AdminRemains' BY <1>1 DEF SessionInv, AdminRemains, LocalAdmins
<1> QED BY <1>8, <1>9, <1>10, <1>11, <1>12 DEF SessionInv

-----------------------------------------------------------------------------
\* Starts: the state that is taken over is not behind, so nothing said of tokens is lost.
LEMMA TakenOver ==
    ASSUME SessionInv, UNCHANGED <<tokens, client>>, NEW m, NEW d, state' = m, disk' = d,
           IsState(m), IsState(d), NotBehind(m, state), NotBehind(d, m),
           LocalAdmins(m) # {}, LocalAdmins(d) # {}, ended' \subseteq Issued,
           \A t \in ended' : tokens[t].phase = "live" => Dead(m, t) /\ Dead(d, t)
    PROVE  SessionInv'
<1>1. Issued' = Issued BY DEF Issued
<1>2. \A u \in Users : state.users[u].version \in Nat /\ m.users[u].version \in Nat
  BY UserFields DEF SessionInv, Shapes
<1>3. Shapes'
  <2>1. ASSUME NEW c \in Clients PROVE Asks(client[c])'
    <3>1. Asks(client[c]) BY DEF SessionInv, Shapes
    <3> QED BY <1>1, <3>1 DEF Asks, NotBehind
  <2> QED BY <1>1, <2>1 DEF SessionInv, Shapes, IsState
<1>4. NotBehind(disk, state)' BY DEF NotBehind
<1>5. TokensOld'
  <2>1. ASSUME NEW t \in Issued
        PROVE  m.users[tokens[t].user].exists /\ tokens[t].version <= m.users[tokens[t].user].version
    <3>1. /\ tokens[t].user \in Users /\ tokens[t].version \in Nat
          /\ state.users[tokens[t].user].exists
          /\ tokens[t].version <= state.users[tokens[t].user].version
      BY DEF SessionInv, Shapes, TokensOld
    <3> QED BY <1>2, <3>1 DEF NotBehind
  <2> QED BY <1>1, <2>1 DEF TokensOld
<1>6. EndedDead' BY DEF EndedDead, Dead
<1>7. AdminRemains' BY DEF AdminRemains, LocalAdmins
<1> QED BY <1>3, <1>4, <1>5, <1>6, <1>7 DEF SessionInv

LEMMA StartKeeps == ASSUME SessionInv, Start PROVE SessionInv'
<1>1. state' = disk /\ disk' = disk /\ ended' = ended /\ UNCHANGED <<tokens, client>>
  BY DEF Start, sessionVars
<1>2. IsState(disk) /\ NotBehind(disk, state) /\ LocalAdmins(disk) # {} /\ ended' \subseteq Issued
  BY <1>1 DEF SessionInv, Shapes, AdminRemains
<1>3. NotBehind(disk, disk)
  <2>1. \A u \in Users : disk.users[u].version \in Nat BY <1>2, UserFields
  <2> QED BY <2>1 DEF NotBehind
<1>4. \A t \in ended' : tokens[t].phase = "live" => Dead(disk, t) BY <1>1 DEF SessionInv, EndedDead
<1> DEFINE d == disk
<1>5. /\ state' = d /\ disk' = d /\ IsState(d) /\ NotBehind(d, state) /\ NotBehind(d, d) /\ LocalAdmins(d) # {}
      /\ \A t \in ended' : tokens[t].phase = "live" => Dead(d, t)
  BY <1>1, <1>2, <1>3, <1>4
<1> HIDE DEF d
<1> QED BY <1>1, <1>2, <1>5, TakenOver

LEMMA MovedOnIs ==
    ASSUME NEW rec \in UserRecord
    PROVE  /\ MovedOn(rec) \in UserRecord /\ MovedOn(rec).exists = rec.exists
           /\ MovedOn(rec).role = rec.role /\ MovedOn(rec).disabled = rec.disabled
           /\ MovedOn(rec).version >= rec.version
           /\ rec.exists => MovedOn(rec).version = rec.version + 1
           /\ ~rec.exists => MovedOn(rec).version = rec.version
<1>1. CASE rec.exists
  <2> DEFINE new == [rec EXCEPT !.version = @ + 1]
  <2>1. MovedOn(rec) = new BY <1>1 DEF MovedOn
  <2>2. /\ new \in UserRecord /\ new.version = rec.version + 1 /\ rec.version \in Nat
        /\ new.exists = rec.exists /\ new.role = rec.role /\ new.disabled = rec.disabled
    BY DEF UserRecord
  <2> HIDE DEF new
  <2> QED BY <1>1, <2>1, <2>2
<1>2. CASE ~rec.exists
  <2>1. MovedOn(rec) = rec BY <1>2 DEF MovedOn
  <2> QED BY <1>2, <2>1 DEF UserRecord
<1> QED BY <1>1, <1>2

\* A new key: every user has moved on, nothing else changes.
LEMMA RotatedIs ==
    ASSUME SessionInv, NEW key
    PROVE  /\ IsState(Rotated(key)) /\ Rotated(key).revoked = disk.revoked
           /\ LocalAdmins(Rotated(key)) # {}
           /\ \A u \in Users : /\ Rotated(key).users[u].exists = disk.users[u].exists
                               /\ Rotated(key).users[u].version >= disk.users[u].version
                               /\ disk.users[u].exists => Rotated(key).users[u].version = disk.users[u].version + 1
<1> DEFINE us == [u \in Users |-> MovedOn(disk.users[u])]
<1>1. IsState(disk) BY DEF SessionInv, Shapes
<1>2. ASSUME NEW u \in Users
      PROVE  /\ us[u] \in UserRecord /\ us[u].exists = disk.users[u].exists
             /\ us[u].role = disk.users[u].role /\ us[u].disabled = disk.users[u].disabled
             /\ us[u].version >= disk.users[u].version
             /\ disk.users[u].exists => us[u].version = disk.users[u].version + 1
             /\ ~disk.users[u].exists => us[u].version = disk.users[u].version
  <2>1. disk.users[u] \in UserRecord /\ disk.users[u].version \in Nat BY <1>1, UserFields
  <2>2. us[u] = MovedOn(disk.users[u]) OBVIOUS
  <2> HIDE DEF us
  <2> QED BY <2>1, <2>2, MovedOnIs
<1>3. us \in [Users -> UserRecord] BY <1>2
<1>4. Rotated(key) = [disk EXCEPT !.key = key, !.users = us] BY DEF Rotated
<1> HIDE DEF us
<1>5. Rotated(key) = [users |-> us, revoked |-> disk.revoked, key |-> key]
  BY <1>1, <1>4 DEF IsState
<1>6. IsState(Rotated(key)) BY <1>1, <1>2, <1>3, <1>5 DEF IsState
<1>7. LocalAdmins(Rotated(key)) # {}
  <2>1. PICK a \in LocalAdmins(disk) : TRUE BY DEF SessionInv, AdminRemains
  <2>2. a \in LocalAdmins(Rotated(key)) BY <1>2, <1>5, <2>1 DEF LocalAdmins
  <2> QED BY <2>2
<1> QED BY <1>2, <1>5, <1>6, <1>7

LEMMA StartRotatedKeeps == ASSUME SessionInv, NEW key, StartRotated(key) PROVE SessionInv'
<1> DEFINE n == Rotated(key)
<1>1. /\ UNCHANGED <<tokens, client>>
      /\ \/ disk' = n /\ state' = n /\ ended' = Issued
         \/ state' = state /\ ended' = ended /\ (disk' = disk \/ disk' = n)
  BY DEF StartRotated, sessionVars
<1>2. /\ IsState(n) /\ n.revoked = disk.revoked /\ LocalAdmins(n) # {}
      /\ \A u \in Users : /\ n.users[u].exists = disk.users[u].exists
                          /\ n.users[u].version >= disk.users[u].version
                          /\ disk.users[u].exists => n.users[u].version = disk.users[u].version + 1
  BY RotatedIs
<1> HIDE DEF n
<1>3. \A u \in Users : /\ state.users[u].version \in Nat /\ disk.users[u].version \in Nat
                       /\ n.users[u].version \in Nat
  BY <1>2, UserFields DEF SessionInv, Shapes
<1>4. NotBehind(n, state) /\ NotBehind(n, n) /\ NotBehind(state, state)
  BY <1>2, <1>3 DEF SessionInv, NotBehind
<1>5. ASSUME NEW t \in Issued PROVE Dead(n, t)
  <2>1. /\ tokens[t].user \in Users /\ tokens[t].version \in Nat
        /\ state.users[tokens[t].user].exists
        /\ tokens[t].version <= state.users[tokens[t].user].version
    BY DEF SessionInv, Shapes, TokensOld
  <2>2. /\ disk.users[tokens[t].user].exists
        /\ disk.users[tokens[t].user].version >= state.users[tokens[t].user].version
    BY <2>1 DEF SessionInv, NotBehind
  <2> QED BY <1>2, <1>3, <2>1, <2>2 DEF Dead
<1>6. ended \subseteq Issued /\ LocalAdmins(disk) # {} /\ LocalAdmins(state) # {} /\ IsState(state) /\ IsState(disk)
  BY DEF SessionInv, Shapes, AdminRemains
<1>7. CASE disk' = n /\ state' = n /\ ended' = Issued
  BY <1>1, <1>2, <1>4, <1>5, <1>7, TakenOver
<1>8. CASE state' = state /\ ended' = ended /\ disk' = disk
  BY <1>1, <1>8, NoRequestKeeps
<1>9. CASE state' = state /\ ended' = ended /\ disk' = n
  <2> DEFINE m == state
  <2>1. /\ state' = m /\ IsState(m) /\ NotBehind(m, state) /\ NotBehind(n, m) /\ LocalAdmins(m) # {}
        /\ \A t \in ended' : tokens[t].phase = "live" => Dead(m, t) /\ Dead(n, t)
    BY <1>4, <1>5, <1>6, <1>9 DEF SessionInv, EndedDead
  <2> HIDE DEF m
  <2> QED BY <1>1, <1>2, <1>6, <1>9, <2>1, TakenOver
<1> QED BY <1>1, <1>7, <1>8, <1>9

\* Every step keeps the invariant.
LEMMA SessionNext == ASSUME SessionInv, [Next]_vars PROVE SessionInv'
<1>1. ASSUME NEW role \in Roles, CreateUser(role) PROVE SessionInv' BY <1>1, CreateUserKeeps
<1>2. ASSUME NEW u \in Users, RevokeUser(u) PROVE SessionInv' BY <1>2, RevokeUserKeeps
<1>3. ASSUME NEW u \in Users, NEW role \in Roles, NEW d \in BOOLEAN, UpdateUser(u, role, d) PROVE SessionInv'
  BY <1>3, UpdateUserKeeps
<1>4. ASSUME NEW c \in Clients, NEW u \in Users, verifyLocal(c, u) PROVE SessionInv' BY <1>4, VerifyLocalKeeps
<1>5. ASSUME NEW c \in Clients, Login(c) PROVE SessionInv' BY <1>5, LoginKeeps
<1>6. ASSUME NEW c \in Clients, ChangePassword(c) PROVE SessionInv' BY <1>6, ChangePasswordKeeps
<1>7. ASSUME NEW c \in Clients, NEW t \in Tokens, LogoutStart(c, t) PROVE SessionInv' BY <1>7, LogoutStartKeeps
<1>8. ASSUME NEW c \in Clients, RevokeToken(c) PROVE SessionInv' BY <1>8, RevokeTokenKeeps
<1>9. ASSUME NEW c \in Clients, NEW role \in Roles, oidcUser(c, role) PROVE SessionInv' BY <1>9, OidcUserKeeps
<1>10. ASSUME NEW c \in Clients, FinishOIDC(c) PROVE SessionInv' BY <1>10, FinishOIDCKeeps
<1>11. ASSUME NEW c \in Clients, NEW k \in Tickets, TakeTicket(c, k) PROVE SessionInv' BY <1>11, TakeTicketKeeps
<1>12. ASSUME NEW c \in Clients, Authenticate(c) PROVE SessionInv' BY <1>12, AuthenticateKeeps
<1>13. CASE ExchangeOIDC BY <1>13, NoRequestKeeps DEF ExchangeOIDC, stateVars
<1>14. ASSUME NEW k \in Tickets, NEW t \in Tokens, Issue(k, t) PROVE SessionInv'
  BY <1>14, NoRequestKeeps DEF Issue, stateVars
<1>15. ASSUME NEW t \in Tokens, TokenAges(t) PROVE SessionInv' BY <1>15, TokenAgesKeeps
<1>16. ASSUME NEW k \in Tickets, TicketExpires(k) PROVE SessionInv'
  BY <1>16, NoRequestKeeps DEF TicketExpires, stateVars
<1>17. CASE Crash BY <1>17, SessionCrashKeeps
<1>18. CASE Start BY <1>18, StartKeeps
<1>19. ASSUME NEW key \in Keys, StartRotated(key) PROVE SessionInv' BY <1>19, StartRotatedKeeps
<1>20. CASE UNCHANGED vars BY <1>20, NoRequestKeeps DEF vars
<1> QED BY <1>1, <1>2, <1>3, <1>4, <1>5, <1>6, <1>7, <1>8, <1>9, <1>10, <1>11, <1>12, <1>13, <1>14,
           <1>15, <1>16, <1>17, <1>18, <1>19, <1>20 DEF Next

\* A dead token is not accepted.
LEMMA EndedIsRefused == ASSUME SessionInv PROVE EndedStaysEnded
<1> USE DEF EndedStaysEnded
<1>1. TAKE t \in ended
<1>2. HAVE tokens[t].phase = "live"
<1>3. Dead(state, t) /\ Dead(disk, t) /\ tokens[t].user \in Users /\ tokens[t].version \in Nat
  BY <1>2 DEF SessionInv, EndedDead, Shapes
<1>4. \A u \in Users : state.users[u].version \in Nat /\ disk.users[u].version \in Nat
  BY UserFields DEF SessionInv, Shapes
<1> QED BY <1>3, <1>4 DEF Dead, ValidateToken

-----------------------------------------------------------------------------
\* Tickets: one that is still there was never presented, and one that was taken out is with at most one
\* request, which has not opened its download yet.
Holds(c, k) == client[c].op = "download" /\ client[c].ticket = k
TicketInv ==
    /\ tickets = [k \in Tickets |-> tickets[k]]
    /\ \A k \in Tickets : tickets[k] = [stage |-> tickets[k].stage, token |-> tickets[k].token]
    /\ opened \in [Tickets -> {0, 1}]
    /\ client = [c \in Clients |-> client[c]]
    /\ \A k \in Tickets : tickets[k].stage # "gone" => opened[k] = 0 /\ \A c \in Clients : ~Holds(c, k)
    /\ \A c \in Clients : client[c].op = "download" => client[c].ticket \in Tickets
    /\ \A c \in Clients, k \in Tickets : Holds(c, k) => opened[k] = 0
    /\ \A c, d \in Clients, k \in Tickets : Holds(c, k) /\ Holds(d, k) => c = d
    /\ ~late

LEMMA TicketInit == ASSUME Init PROVE TicketInv
<1>1. /\ client = [c \in Clients |-> Idle] /\ opened = [k \in Tickets |-> 0] /\ ~late
      /\ tickets = [k \in Tickets |-> [stage |-> "unissued", token |-> 0]]
  BY DEF Init
<1> QED BY <1>1 DEF TicketInv, Holds, Idle

\* A request that holds no ticket afterwards, and none is taken.
LEMMA TicketsStay ==
    ASSUME TicketInv, UNCHANGED <<opened, late>>, tickets' = [k \in Tickets |-> tickets'[k]],
           \A k \in Tickets : /\ tickets'[k] = [stage |-> tickets'[k].stage, token |-> tickets'[k].token]
                              /\ tickets'[k].stage # "gone" => tickets[k].stage # "gone",
           client' = [c \in Clients |-> client'[c]],
           \A c \in Clients : client'[c] = client[c] \/ client'[c].op # "download"
    PROVE  TicketInv'
BY DEF TicketInv, Holds

\* The steps of requests that are not about tickets.
LEMMA OtherRequests ==
    ASSUME TicketInv, UNCHANGED <<tickets, opened, late>>, NEW c \in Clients, NEW r,
           client' = [client EXCEPT ![c] = r], r.op # "download"
    PROVE  TicketInv'
<1>1. client' = [d \in Clients |-> client'[d]] /\ \A d \in Clients : client'[d] = client[d] \/ client'[d].op # "download"
  BY DEF TicketInv
<1> QED BY <1>1, TicketsStay DEF TicketInv

LEMMA NoTicketStep == ASSUME TicketInv, UNCHANGED <<tickets, opened, late, client>> PROVE TicketInv'
BY DEF TicketInv, Holds

LEMMA IssueTicket == ASSUME TicketInv, NEW n \in Tickets, NEW t \in Tokens, Issue(n, t) PROVE TicketInv'
<1>1. UNCHANGED <<client, opened, late>> /\ tickets[n].stage = "unissued" BY DEF Issue
<1>2. tickets' = [x \in Tickets |-> IF x = n THEN [stage |-> "issued", token |-> t]
                                    ELSE IF tickets[x].stage = "expired" THEN [tickets[x] EXCEPT !.stage = "gone"]
                                    ELSE tickets[x]]
  BY DEF Issue
<1>3. ASSUME NEW k \in Tickets
      PROVE  /\ tickets'[k] = [stage |-> tickets'[k].stage, token |-> tickets'[k].token]
             /\ tickets'[k].stage # "gone" => tickets[k].stage # "gone"
  <2>1. tickets[k] = [stage |-> tickets[k].stage, token |-> tickets[k].token] BY DEF TicketInv
  <2>2. CASE k = n
    <3>1. tickets'[k] = [stage |-> "issued", token |-> t] BY <1>2, <2>2
    <3> QED BY <1>1, <2>2, <3>1
  <2>3. CASE k # n /\ tickets[k].stage = "expired"
    <3>1. tickets'[k] = [tickets[k] EXCEPT !.stage = "gone"] BY <1>2, <2>3
    <3>2. tickets'[k] = [stage |-> "gone", token |-> tickets[k].token] BY <2>1, <3>1
    <3> QED BY <3>2
  <2>4. CASE k # n /\ tickets[k].stage # "expired"
    <3>1. tickets'[k] = tickets[k] BY <1>2, <2>4
    <3> QED BY <2>1, <3>1
  <2> QED BY <2>2, <2>3, <2>4
<1>4. tickets' = [k \in Tickets |-> tickets'[k]] BY <1>2
<1> QED BY <1>1, <1>3, <1>4, TicketsStay DEF TicketInv

LEMMA TakeTicketOnce == ASSUME TicketInv, NEW c \in Clients, NEW n \in Tickets, TakeTicket(c, n) PROVE TicketInv'
<1> DEFINE b == Over(n)
           r == [op |-> "download", ticket |-> n, late |-> b]
<1>1. /\ UNCHANGED <<opened, late>> /\ tickets[n].stage \in {"issued", "expired"}
      /\ tickets' = [tickets EXCEPT ![n].stage = "gone"]
      /\ client' = [client EXCEPT ![c] = IF Pending(n) THEN r ELSE Idle]
  BY DEF TakeTicket, Goto
<1>2. r.op = "download" /\ r.ticket = n OBVIOUS
<1> HIDE DEF b, r
<1>3. \A k \in Tickets : tickets[k] = [stage |-> tickets[k].stage, token |-> tickets[k].token] BY DEF TicketInv
<1>4. /\ tickets' = [k \in Tickets |-> tickets'[k]]
      /\ tickets'[n] = [stage |-> "gone", token |-> tickets[n].token]
      /\ \A k \in Tickets : k # n => tickets'[k] = tickets[k]
  BY <1>1, <1>3 DEF TicketInv
<1>5. ASSUME NEW k \in Tickets
      PROVE  /\ tickets'[k] = [stage |-> tickets'[k].stage, token |-> tickets'[k].token]
             /\ tickets'[k].stage # "gone" => k # n /\ tickets[k].stage # "gone"
  <2>1. CASE k = n BY <1>4, <2>1
  <2>2. CASE k # n
    <3>1. tickets'[k] = tickets[k] BY <1>4, <2>2
    <3> QED BY <1>3, <2>2, <3>1
  <2> QED BY <2>1, <2>2
<1>6. client' = [d \in Clients |-> client'[d]] BY <1>1 DEF TicketInv
<1>7. CASE ~Pending(n)
  <2>1. \A d \in Clients : client'[d] = client[d] \/ client'[d].op # "download"
    BY <1>1, <1>7 DEF TicketInv, Idle
  <2> QED BY <1>1, <1>4, <1>5, <1>6, <2>1, TicketsStay
<1>8. CASE Pending(n)
  <2>1. client'[c] = r /\ \A d \in Clients : d # c => client'[d] = client[d]
    BY <1>1, <1>8 DEF TicketInv
  <2>2. opened[n] = 0 /\ \A d \in Clients : ~Holds(d, n) BY <1>1 DEF TicketInv
  <2>3. \A d \in Clients, k \in Tickets : Holds(d, k)' <=> (IF d = c THEN k = n ELSE Holds(d, k))
    BY <1>2, <2>1 DEF Holds
  <2>4. \A k \in Tickets : tickets'[k].stage # "gone" => opened'[k] = 0 /\ \A d \in Clients : ~Holds(d, k)'
    BY <1>1, <1>5, <2>3 DEF TicketInv
  <2>5. \A d \in Clients : client'[d].op = "download" => client'[d].ticket \in Tickets
    BY <1>2, <2>1 DEF TicketInv
  <2>6. \A d \in Clients, k \in Tickets : Holds(d, k)' => opened'[k] = 0
    BY <1>1, <2>2, <2>3 DEF TicketInv
  <2>7. \A d, e \in Clients, k \in Tickets : Holds(d, k)' /\ Holds(e, k)' => d = e
    BY <2>2, <2>3 DEF TicketInv
  <2>8. opened' \in [Tickets -> {0, 1}] /\ ~late' BY <1>1 DEF TicketInv
  <2> QED BY <1>4, <1>5, <1>6, <2>4, <2>5, <2>6, <2>7, <2>8 DEF TicketInv
<1> QED BY <1>7, <1>8

\* Presented once, opened once; a session whose end was confirmed opens nothing.
LEMMA AuthenticateOnce == ASSUME TicketInv, EndedStaysEnded, NEW c \in Clients, Authenticate(c) PROVE TicketInv'
<1> DEFINE n == client[c].ticket
<1>1. client[c].op = "download" /\ client' = [client EXCEPT ![c] = Idle] /\ UNCHANGED tickets
  BY DEF Authenticate, At, Goto
<1>2. n \in Tickets /\ Holds(c, n) BY <1>1 DEF TicketInv, Holds
<1>3. opened[n] = 0 /\ tickets[n].stage = "gone" BY <1>2 DEF TicketInv
<1>4. /\ client' = [d \in Clients |-> client'[d]] /\ client'[c] = Idle
      /\ \A d \in Clients : d # c => client'[d] = client[d]
  BY <1>1 DEF TicketInv
<1>5. CASE UNCHANGED <<opened, late>>
  <2>1. Idle.op # "download" BY DEF Idle
  <2> QED BY <1>1, <1>5, <2>1, OtherRequests
<1>6. CASE TicketSession(c) /\ opened' = [opened EXCEPT ![n] = @ + 1]
           /\ late' = (late \/ (client[c].late /\ Over(n)))
  <2>1. ~Over(n) BY <1>6 DEF TicketSession, Over, EndedStaysEnded
  <2>2. ~late' BY <1>6, <2>1 DEF TicketInv
  <2>3. opened' \in [Tickets -> {0, 1}] /\ \A k \in Tickets : k # n => opened'[k] = opened[k]
    BY <1>2, <1>3, <1>6 DEF TicketInv
  <2> HIDE DEF n
  <2>4. \A d \in Clients, k \in Tickets : Holds(d, k)' <=> d # c /\ Holds(d, k)
    BY <1>4 DEF Holds, Idle
  <2>5. \A d \in Clients : Holds(d, n) => d = c BY <1>2 DEF TicketInv
  <2>6. \A k \in Tickets : tickets'[k].stage # "gone" => opened'[k] = 0 /\ \A d \in Clients : ~Holds(d, k)'
    BY <1>1, <1>3, <2>3, <2>4 DEF TicketInv
  <2>7. \A d \in Clients : client'[d].op = "download" => client'[d].ticket \in Tickets
    BY <1>4 DEF TicketInv, Idle
  <2>8. \A d \in Clients, k \in Tickets : Holds(d, k)' => opened'[k] = 0
    BY <2>3, <2>4, <2>5 DEF TicketInv
  <2>9. \A d, e \in Clients, k \in Tickets : Holds(d, k)' /\ Holds(e, k)' => d = e
    BY <2>4 DEF TicketInv
  <2>10. tickets' = [k \in Tickets |-> tickets'[k]] /\ \A k \in Tickets : tickets'[k] = [stage |-> tickets'[k].stage, token |-> tickets'[k].token]
    BY <1>1 DEF TicketInv
  <2> QED BY <1>4, <2>2, <2>3, <2>6, <2>7, <2>8, <2>9, <2>10 DEF TicketInv
<1> QED BY <1>5, <1>6 DEF Authenticate

LEMMA TicketRuns == ASSUME TicketInv, NEW n \in Tickets, TicketExpires(n) PROVE TicketInv'
<1>1. /\ UNCHANGED <<client, opened, late>> /\ tickets[n].stage = "issued"
      /\ tickets' = [tickets EXCEPT ![n].stage = "expired"]
  BY DEF TicketExpires, Pending
<1>2. \A k \in Tickets : tickets[k] = [stage |-> tickets[k].stage, token |-> tickets[k].token] BY DEF TicketInv
<1>3. /\ tickets' = [k \in Tickets |-> tickets'[k]]
      /\ tickets'[n] = [stage |-> "expired", token |-> tickets[n].token]
      /\ \A k \in Tickets : k # n => tickets'[k] = tickets[k]
  BY <1>1, <1>2 DEF TicketInv
<1>4. \A k \in Tickets : /\ tickets'[k] = [stage |-> tickets'[k].stage, token |-> tickets'[k].token]
                         /\ tickets'[k].stage # "gone" => tickets[k].stage # "gone"
  BY <1>1, <1>2, <1>3
<1> QED BY <1>1, <1>3, <1>4, TicketsStay DEF TicketInv

LEMMA TicketsLost == ASSUME TicketInv, Crash PROVE TicketInv'
<1>1. /\ UNCHANGED <<opened, late>> /\ client' = [c \in Clients |-> Idle]
      /\ tickets' = [k \in Tickets |-> IF tickets[k].stage = "unissued" THEN tickets[k]
                                       ELSE [tickets[k] EXCEPT !.stage = "gone"]]
  BY DEF Crash
<1>2. ASSUME NEW k \in Tickets
      PROVE  /\ tickets'[k] = [stage |-> tickets'[k].stage, token |-> tickets'[k].token]
             /\ tickets'[k].stage # "gone" => tickets[k].stage # "gone"
  <2>1. tickets[k] = [stage |-> tickets[k].stage, token |-> tickets[k].token] BY DEF TicketInv
  <2>2. CASE tickets[k].stage = "unissued"
    <3>1. tickets'[k] = tickets[k] BY <1>1, <2>2
    <3> QED BY <2>1, <2>2, <3>1
  <2>3. CASE tickets[k].stage # "unissued"
    <3>1. tickets'[k] = [tickets[k] EXCEPT !.stage = "gone"] BY <1>1, <2>3
    <3>2. tickets'[k] = [stage |-> "gone", token |-> tickets[k].token] BY <2>1, <3>1
    <3> QED BY <3>2
  <2> QED BY <2>2, <2>3
<1>3. tickets' = [k \in Tickets |-> tickets'[k]] BY <1>1
<1>4. client' = [c \in Clients |-> client'[c]] /\ \A c \in Clients : client'[c].op # "download"
  BY <1>1 DEF Idle
<1> QED BY <1>1, <1>2, <1>3, <1>4, TicketsStay

LEMMA TicketNext == ASSUME TicketInv, EndedStaysEnded, [Next]_vars PROVE TicketInv'
<1>1. Idle.op # "download" BY DEF Idle
<1>2. ASSUME NEW role \in Roles, CreateUser(role) PROVE TicketInv' BY <1>2, NoTicketStep DEF CreateUser, sessionVars
<1>3. ASSUME NEW u \in Users, RevokeUser(u) PROVE TicketInv' BY <1>3, NoTicketStep DEF RevokeUser, sessionVars
<1>4. ASSUME NEW u \in Users, NEW role \in Roles, NEW d \in BOOLEAN, UpdateUser(u, role, d) PROVE TicketInv'
  BY <1>4, NoTicketStep DEF UpdateUser, sessionVars
<1>5. ASSUME NEW c \in Clients, NEW u \in Users, verifyLocal(c, u) PROVE TicketInv'
  <2> DEFINE r == [op |-> "verified", user |-> u, role |-> User(u).role]
  <2>1. UNCHANGED <<tickets, opened, late>> /\ client' = [client EXCEPT ![c] = r] BY <1>5 DEF verifyLocal, Goto
  <2>2. r.op # "download" OBVIOUS
  <2> HIDE DEF r
  <2> QED BY <2>1, <2>2, OtherRequests
<1>6. ASSUME NEW c \in Clients, Login(c) \/ ChangePassword(c) \/ RevokeToken(c) \/ FinishOIDC(c) PROVE TicketInv'
  <2>1. UNCHANGED <<tickets, opened, late>> /\ client' = [client EXCEPT ![c] = Idle]
    BY <1>6 DEF Login, ChangePassword, RevokeToken, FinishOIDC, Goto
  <2> QED BY <1>1, <2>1, OtherRequests
<1>7. ASSUME NEW c \in Clients, NEW t \in Tokens, LogoutStart(c, t) PROVE TicketInv'
  <2> DEFINE r == [op |-> "logout", token |-> t]
  <2>1. UNCHANGED <<tickets, opened, late>> /\ client' = [client EXCEPT ![c] = r] BY <1>7 DEF LogoutStart, Goto
  <2>2. r.op # "download" OBVIOUS
  <2> HIDE DEF r
  <2> QED BY <2>1, <2>2, OtherRequests
<1>8. ASSUME NEW c \in Clients, NEW role \in Roles, oidcUser(c, role) PROVE TicketInv'
  <2> DEFINE r == [op |-> "identified", role |-> role]
  <2>1. /\ UNCHANGED <<tickets, opened, late>>
        /\ client' = [client EXCEPT ![c] = IF faults' = faults THEN r ELSE Idle]
    BY <1>8 DEF oidcUser, Goto
  <2>2. r.op # "download" OBVIOUS
  <2> HIDE DEF r
  <2>3. CASE faults' = faults
    <3>1. client' = [client EXCEPT ![c] = r] BY <2>1, <2>3
    <3> QED BY <2>1, <2>2, <3>1, OtherRequests
  <2>4. CASE faults' # faults
    <3>1. client' = [client EXCEPT ![c] = Idle] BY <2>1, <2>4
    <3> QED BY <1>1, <2>1, <3>1, OtherRequests
  <2> QED BY <2>3, <2>4
<1>9. ASSUME NEW c \in Clients, NEW k \in Tickets, TakeTicket(c, k) PROVE TicketInv' BY <1>9, TakeTicketOnce
<1>10. ASSUME NEW c \in Clients, Authenticate(c) PROVE TicketInv' BY <1>10, AuthenticateOnce
<1>11. CASE ExchangeOIDC BY <1>11, NoTicketStep DEF ExchangeOIDC
<1>12. ASSUME NEW k \in Tickets, NEW t \in Tokens, Issue(k, t) PROVE TicketInv' BY <1>12, IssueTicket
<1>13. ASSUME NEW t \in Tokens, TokenAges(t) PROVE TicketInv' BY <1>13, NoTicketStep DEF TokenAges
<1>14. ASSUME NEW k \in Tickets, TicketExpires(k) PROVE TicketInv' BY <1>14, TicketRuns
<1>15. CASE Crash BY <1>15, TicketsLost
<1>16. CASE Start BY <1>16, NoTicketStep DEF Start, sessionVars
<1>17. ASSUME NEW key \in Keys, StartRotated(key) PROVE TicketInv' BY <1>17, NoTicketStep DEF StartRotated, sessionVars
<1>18. CASE UNCHANGED vars BY <1>18, NoTicketStep DEF vars
<1> QED BY <1>2, <1>3, <1>4, <1>5, <1>6, <1>7, <1>8, <1>9, <1>10, <1>11, <1>12, <1>13, <1>14,
           <1>15, <1>16, <1>17, <1>18 DEF Next

LEMMA TicketSafe == ASSUME TicketInv PROVE TicketOpensOnce /\ TicketNeedsSession
BY DEF TicketInv, TicketOpensOnce, TicketNeedsSession

-----------------------------------------------------------------------------
\* The two invariants hold in every reachable state; the tickets' rests on the sessions'.
THEOREM SessionsInvariant == Spec => [](SessionInv /\ TicketInv)
<1>1. Init => SessionInv /\ TicketInv BY SessionInit, TicketInit
<1>2. SessionInv /\ TicketInv /\ [Next]_vars => SessionInv' /\ TicketInv'
  BY SessionNext, TicketNext, EndedIsRefused
<1> QED BY <1>1, <1>2, PTL DEF Spec

\* A session whose end was confirmed is refused by the process and by any that starts from the
\* record on disk, whatever writes fail and whichever key is put back (changeState, Version,
\* Revoked, NewPersistentAuthManager).
THEOREM EndIsFinal == Spec => []EndedStaysEnded
<1>1. SessionInv => EndedStaysEnded BY EndedIsRefused
<1> QED BY <1>1, SessionsInvariant, PTL

\* An enabled local administrator remains in memory and on disk (UpdateUser's count).
THEOREM AnAdminRemains == Spec => []AdminRemains
<1>1. SessionInv => AdminRemains BY DEF SessionInv
<1> QED BY <1>1, SessionsInvariant, PTL

\* A ticket opens at most one download, and none of a session that had ended when it was
\* presented (DownloadTickets.Authenticate).
THEOREM TicketsAreSafe == Spec => [](TicketOpensOnce /\ TicketNeedsSession)
<1>1. TicketInv => TicketOpensOnce /\ TicketNeedsSession BY TicketSafe
<1> QED BY <1>1, SessionsInvariant, PTL
=============================================================================
