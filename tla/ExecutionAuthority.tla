-------------------------- MODULE ExecutionAuthority --------------------------
(***************************************************************************)
(* The independent execution authority: internal/executionauthority with   *)
(* the policy file cmd/talosdeck keeps beside the journals.                *)
(*                                                                         *)
(* Every management process is one element of Procs (it draws a fresh      *)
(* instance id) and owns one SSH session, the process of `authority serve' *)
(* on the authority host.  The two fail independently: a session can end   *)
(* while its client believes in its lease, a client can die while the      *)
(* session still serves a request it left in the pipe.  Data directories   *)
(* are copied, snapshotted and rolled back while no process has them open  *)
(* (the lock of the cluster store refuses anything else).                  *)
(***************************************************************************)
EXTENDS Integers, FiniteSets

CONSTANTS
    Procs,          \* management processes, each with an instance id of its own
    Dirs,           \* data directories, at first all copies of an empty one
    MaxEpoch,       \* the epoch that is refused as exhausted (2^64 - 1)
    MaxInode,       \* how often execution.lock may be created (1: never replaced)
    MaxCalls,       \* bound on external calls per process
    WithActivation  \* TRUE: `recovery activate --expected-epoch' is used

ASSUME AuthorityAssumption ==
    /\ Dirs # {}
    /\ MaxEpoch \in Nat
    /\ MaxInode \in Nat \ {0}
    /\ MaxCalls \in Nat
    /\ WithActivation \in BOOLEAN

VARIABLES
    lockFile,   \* inode of execution.lock, 0 when there is none
    inodes,     \* inodes handed out so far
    epochFile,  \* content of the epoch file, 0 when there is none
    session,    \* per process: its server
    reply,      \* per process: the line on its way back, "none" if there is none
    client,     \* per process: what main and Client know
    policy,     \* per directory: ExpectedEpoch in execution-authority.json
    journal,    \* per directory: the calls with a durable intent
    calls       \* history: the calls that were made

authority == <<lockFile, inodes, epochFile>>
storage   == <<policy, journal>>
vars == <<authority, session, reply, client, storage, calls>>

Epochs == 0..MaxEpoch
Inodes == 0..MaxInode

\* Where Serve is: before and after each of its effects.
Stages == {"none", "started", "statted", "opened", "locked", "read", "granted", "leased", "gone"}

Session == [at : Stages, hadLock : BOOLEAN, inode : Inodes, asked : BOOLEAN, epoch : Epochs]

NoSession == [at |-> "none", hadLock |-> FALSE, inode |-> 0, asked |-> FALSE, epoch |-> 0]

Client == [at       : {"idle", "waiting", "acquired", "ready", "checking", "admitted",
                       "poisoned", "dead"},
           dir      : Dirs,
           activate : BOOLEAN,
           expected : Epochs,
           epoch    : Epochs,
           sent     : 0..MaxCalls]

Live(p) == client[p].at \notin {"idle", "dead"}

\* No process has the store of directory d open.
Offline(d) == \A p \in Procs : Live(p) => client[p].dir # d

\* The flock that Serve holds from acquisition to its end.
HoldsLock(p) == session[p].at \in {"locked", "read", "granted", "leased"}

-----------------------------------------------------------------------------
(* Serve, on the authority host. *)

Step(p, from, s) ==
    /\ session[p].at = from
    /\ session' = [session EXCEPT ![p] = s]

\* Lstat of execution.lock.
ServeStat(p) ==
    /\ Step(p, "started", [session[p] EXCEPT !.at = "statted", !.hadLock = (lockFile # 0)])
    /\ UNCHANGED <<authority, reply, client, storage, calls>>

\* OpenFile with O_CREATE.
ServeOpen(p) ==
    /\ lockFile # 0 \/ inodes < MaxInode
    /\ lockFile' = IF lockFile = 0 THEN inodes + 1 ELSE lockFile
    /\ inodes' = IF lockFile = 0 THEN inodes + 1 ELSE inodes
    /\ Step(p, "statted", [session[p] EXCEPT !.at = "opened", !.inode = lockFile'])
    /\ UNCHANGED <<epochFile, reply, client, storage, calls>>

\* Defect for mutation: the lock is shared.
ServeLockShared(p) ==
    /\ Step(p, "opened", [session[p] EXCEPT !.at = "locked"])
    /\ UNCHANGED <<authority, reply, client, storage, calls>>

\* Flock without waiting, after the handshake line has been read.
ServeLock(p) ==
    /\ IF \E q \in Procs : HoldsLock(q) /\ session[q].inode = session[p].inode
       THEN /\ Step(p, "opened", [session[p] EXCEPT !.at = "gone"])
            /\ reply' = [reply EXCEPT ![p] = "refused"]
       ELSE /\ Step(p, "opened", [session[p] EXCEPT !.at = "locked"])
            /\ UNCHANGED reply
    /\ UNCHANGED <<authority, client, storage, calls>>

\* Defect for mutation: any epoch not ahead of the authority is welcome.
ServeReadNotAhead(p) ==
    /\ Step(p, "locked", [session[p] EXCEPT
              !.at = IF client[p].expected > epochFile \/ epochFile = MaxEpoch
                     THEN "gone" ELSE "read"])
    /\ UNCHANGED <<authority, reply, client, storage, calls>>

\* The epoch is read and compared with the one the client expects.  A missing
\* file counts as zero only next to a lock file that did not exist before.
ServeRead(p) ==
    /\ \/ /\ (epochFile = 0 /\ session[p].hadLock) \/ epochFile = MaxEpoch
          /\ Step(p, "locked", [session[p] EXCEPT !.at = "gone"])
          /\ UNCHANGED reply
       \/ /\ ~(epochFile = 0 /\ session[p].hadLock) /\ epochFile # MaxEpoch
          /\ client[p].expected # epochFile
          /\ Step(p, "locked", [session[p] EXCEPT !.at = "gone"])
          /\ reply' = [reply EXCEPT ![p] = "refused"]
       \/ /\ ~(epochFile = 0 /\ session[p].hadLock) /\ epochFile # MaxEpoch
          /\ client[p].expected = epochFile
          /\ Step(p, "locked", [session[p] EXCEPT !.at = "read"])
          /\ UNCHANGED reply
    /\ UNCHANGED <<authority, client, storage, calls>>

\* Temporary file, fsync, rename and fsync of the directory.  (A failure
\* before the rename is ServeGone before, one after it ServeGone after this.)
ServeWrite(p) ==
    /\ Step(p, "read", [session[p] EXCEPT !.at = "granted", !.epoch = client[p].expected + 1])
    /\ epochFile' = client[p].expected + 1
    /\ UNCHANGED <<lockFile, inodes, reply, client, storage, calls>>

ServeReply(p) ==
    /\ Step(p, "granted", [session[p] EXCEPT !.at = "leased"])
    /\ reply' = [reply EXCEPT ![p] = "acquired"]
    /\ UNCHANGED <<authority, client, storage, calls>>

\* One more validation would succeed.
Valid(p) ==
    /\ session[p].at = "leased"
    /\ session[p].epoch = epochFile
    /\ session[p].inode = lockFile

\* One round of the validation loop.
ServeValidate(p) ==
    /\ session[p].asked
    /\ Step(p, "leased", [session[p] EXCEPT !.asked = FALSE,
                                            !.at = IF Valid(p) THEN "leased" ELSE "gone"])
    /\ reply' = [reply EXCEPT ![p] = IF Valid(p) THEN "valid" ELSE "none"]
    /\ UNCHANGED <<authority, client, storage, calls>>

\* The server ends: an error, end of input, a lost connection, a reboot of the
\* authority host.  The kernel releases its lock.
ServeGone(p) ==
    /\ session[p].at \notin {"none", "gone"}
    /\ session' = [session EXCEPT ![p].at = "gone"]
    /\ UNCHANGED <<authority, reply, client, storage, calls>>

\* An administrator removes execution.lock, against the documentation.
RemoveLock ==
    /\ lockFile # 0 /\ inodes < MaxInode
    /\ lockFile' = 0
    /\ UNCHANGED <<inodes, epochFile, session, reply, client, storage, calls>>

-----------------------------------------------------------------------------
(* The management process. *)

Become(p, at) == client' = [client EXCEPT ![p].at = at]

\* main (a = FALSE) or `recovery activate' (a = TRUE) opens the store of d and
\* starts the SSH transport, which sends the handshake with the epoch e.
Start(p, d, a, e) ==
    /\ client[p].at = "idle"
    /\ Offline(d)
    /\ IF a THEN WithActivation ELSE e = policy[d]
    /\ client' = [client EXCEPT ![p] = [@ EXCEPT !.at = "waiting", !.dir = d,
                                                 !.activate = a, !.expected = e]]
    /\ session' = [session EXCEPT ![p].at = "started"]
    /\ UNCHANGED <<authority, reply, storage, calls>>

\* openTransport with the reply in time.
Acquired(p) ==
    /\ client[p].at = "waiting" /\ reply[p] = "acquired"
    /\ client' = [client EXCEPT ![p] = [@ EXCEPT !.at = "acquired",
                                                 !.epoch = session[p].epoch]]
    /\ reply' = [reply EXCEPT ![p] = "none"]
    /\ UNCHANGED <<authority, session, storage, calls>>

\* openTransport refused, disconnected or timed out: the process ends.
AcquireFails(p) ==
    /\ client[p].at = "waiting"
    /\ Become(p, "dead")
    /\ UNCHANGED <<authority, session, reply, storage, calls>>

\* recordExecutionEpoch before anything else.  On a failure the process ends,
\* and the rename may have happened or not.
RecordEpoch(p, ok) ==
    /\ client[p].at = "acquired"
    /\ LET kept == [policy EXCEPT ![client[p].dir] = client[p].epoch]
       IN  policy' \in IF ok THEN {kept} ELSE {policy, kept}
    /\ Become(p, IF ok THEN "ready" ELSE "dead")
    /\ UNCHANGED <<authority, session, reply, journal, calls>>

\* A mutation: its intent is written, then the lease is validated.
ValidateSend(p) ==
    /\ client[p].at = "ready" /\ ~client[p].activate
    /\ client[p].sent < MaxCalls
    /\ journal' = [journal EXCEPT ![client[p].dir] = @ \cup {<<p, client[p].sent + 1>>}]
    /\ Become(p, "checking")
    /\ session' = [session EXCEPT ![p].asked = TRUE]
    /\ UNCHANGED <<authority, reply, policy, calls>>

ValidateOK(p) ==
    /\ client[p].at = "checking" /\ reply[p] = "valid"
    /\ Become(p, "admitted")
    /\ reply' = [reply EXCEPT ![p] = "none"]
    /\ UNCHANGED <<authority, session, storage, calls>>

\* Disconnected, or no answer within five seconds: the client is poisoned.
ValidateFails(p) ==
    /\ client[p].at = "checking"
    /\ Become(p, "poisoned")
    /\ UNCHANGED <<authority, session, reply, storage, calls>>

\* The call that the validation admitted.
Dispatch(p) ==
    /\ client[p].at = "admitted"
    /\ calls' = calls \cup {<<p, client[p].sent + 1>>}
    /\ client' = [client EXCEPT ![p] = [@ EXCEPT !.at = "ready",
                                                 !.sent = client[p].sent + 1]]
    /\ UNCHANGED <<authority, session, reply, storage>>

\* The process ends, in order or not.
Exit(p) ==
    /\ Live(p)
    /\ Become(p, "dead")
    /\ UNCHANGED <<authority, session, reply, storage, calls>>

\* Defect for mutation: a directory in use is copied.
CopyDirOnline(d, e) ==
    /\ d # e /\ Offline(e)
    /\ policy' = [policy EXCEPT ![e] = policy[d]]
    /\ journal' = [journal EXCEPT ![e] = journal[d]]
    /\ UNCHANGED <<authority, session, reply, client, calls>>

\* Backup, clone or rollback: directory e becomes what directory d is.
CopyDir(d, e) ==
    /\ d # e /\ Offline(d) /\ Offline(e)
    /\ policy' = [policy EXCEPT ![e] = policy[d]]
    /\ journal' = [journal EXCEPT ![e] = journal[d]]
    /\ UNCHANGED <<authority, session, reply, client, calls>>

-----------------------------------------------------------------------------

Init ==
    /\ lockFile = 0 /\ inodes = 0 /\ epochFile = 0
    /\ session = [p \in Procs |-> NoSession]
    /\ reply = [p \in Procs |-> "none"]
    /\ client = [p \in Procs |-> [at |-> "idle", dir |-> CHOOSE d \in Dirs : TRUE,
                                   activate |-> FALSE, expected |-> 0, epoch |-> 0, sent |-> 0]]
    /\ policy = [d \in Dirs |-> 0]
    /\ journal = [d \in Dirs |-> {}]
    /\ calls = {}

Serve(p) ==
    \/ ServeStat(p) \/ ServeOpen(p) \/ ServeLock(p) \/ ServeRead(p)
    \/ ServeWrite(p) \/ ServeReply(p) \/ ServeValidate(p) \/ ServeGone(p)

Manage(p) ==
    \/ \E d \in Dirs, a \in BOOLEAN, e \in Epochs : Start(p, d, a, e)
    \/ Acquired(p) \/ AcquireFails(p)
    \/ \E ok \in BOOLEAN : RecordEpoch(p, ok)
    \/ ValidateSend(p) \/ ValidateOK(p) \/ ValidateFails(p) \/ Dispatch(p)
    \/ Exit(p)

Next ==
    \/ \E p \in Procs : Serve(p) \/ Manage(p)
    \/ \E d, e \in Dirs : CopyDir(d, e)
    \/ RemoveLock

Spec == Init /\ [][Next]_vars

-----------------------------------------------------------------------------
(* Properties. *)

\* Every variable has the shape the code gives it.
TypeOK ==
    /\ lockFile \in Inodes /\ inodes \in Inodes /\ epochFile \in Epochs
    /\ session \in [Procs -> Session]
    /\ reply \in [Procs -> {"none", "acquired", "refused", "valid"}]
    /\ client \in [Procs -> Client]
    /\ policy \in [Dirs -> Epochs]
    /\ journal \in [Dirs -> SUBSET (Procs \X (1..MaxCalls))]
    /\ calls \subseteq Procs \X (1..MaxCalls)

\* At no time could the authority confirm two processes, not even when the
\* lock file was removed or an operator supplied the expected epoch.
LeaseExclusive == \A p, q \in Procs : Valid(p) /\ Valid(q) => p = q

\* The epoch never goes back, and a grant is stamped with an epoch no other
\* process was ever granted (intents carry it as ExecutorEpoch).
EpochsAreUnique ==
    /\ \A p, q \in Procs : client[p].epoch # 0 /\ client[p].epoch = client[q].epoch => p = q
    /\ \A p \in Procs : client[p].epoch <= epochFile

\* While a process that acquired the authority is alive, poisoned or not, no
\* other one gets past the acquisition: a clone or a rolled back copy of its
\* directory expects an epoch that is behind.  The promise ends when someone has
\* replaced the lock file.
SoleExecutor ==
    inodes <= 1 => \A p, q \in Procs : Live(p) /\ Live(q) /\ client[p].epoch # 0 /\ client[q].epoch # 0 => p = q

\* "A stale copy is refused even after the newer executor has exited": the
\* process that may send a call has a journal of every call made before,
\* as long as the lock file has not been replaced.
KnowsEveryCall ==
    inodes <= 1 => \A p \in Procs : client[p].at \in {"ready", "checking", "admitted"} =>
        client[p].activate \/ calls \subseteq journal[client[p].dir]

\* What the sessions on the authority host implement, as long as the lock file
\* is not removed: ExecutionLease, where a process holds the lease from the
\* rename of the epoch file to the end of its session.
Lease == INSTANCE ExecutionLease WITH
            epoch   <- epochFile,
            holders <- {p \in Procs : session[p].at \in {"granted", "leased"}},
            term    <- [p \in Procs |-> session[p].epoch]

\* The sessions implement the abstract lease: no takeover, one holder, and an
\* epoch that only grows.
LeaseSpec == Lease!Spec
==============================================================================
