--------------------------- MODULE AdmissionProofs ---------------------------
(***************************************************************************)
(* Proofs about ExecutionAuthority, for any number of processes,           *)
(* directories, epochs and calls, and about its composition with the       *)
(* journal's admission: a step of the composition is a step of the         *)
(* authority, or one of the journal, so what JobManagerProofs proves of    *)
(* the journal holds next to the authority.                                *)
(***************************************************************************)
EXTENDS MCAdmission, TLAPS

\* What TypeOK needs to be inductive: a session that passed the comparison of
\* epochs found one that can be incremented, and a process that is about to
\* make a call has one left.
Room ==
    \A p \in Procs :
        /\ session[p].at = "read" => client[p].expected < MaxEpoch
        /\ client[p].at \in {"checking", "admitted"} => client[p].sent < MaxCalls

TypeInv == TypeOK /\ Room

-----------------------------------------------------------------------------
(* Type correctness. *)

\* One session changes and no client.
LEMMA SessionStep ==
  ASSUME TypeInv, NEW p \in Procs, NEW s \in Session,
         s.at = "read" => client[p].expected < MaxEpoch,
         session' = [session EXCEPT ![p] = s], UNCHANGED client
  PROVE  session' \in [Procs -> Session] /\ Room'
  BY DEF TypeInv, TypeOK, Room

\* One client changes and no session.
LEMMA ClientStep ==
  ASSUME TypeInv, NEW p \in Procs, NEW c \in Client,
         c.expected = client[p].expected,
         c.at \in {"checking", "admitted"} => c.sent < MaxCalls,
         client' = [client EXCEPT ![p] = c], UNCHANGED session
  PROVE  client' \in [Procs -> Client] /\ Room'
  BY DEF TypeInv, TypeOK, Room

\* A client that only moves to another place of its program.
LEMMA BecomeStep ==
  ASSUME TypeInv, NEW p \in Procs,
         NEW at \in {"ready", "admitted", "poisoned", "dead"},
         at = "admitted" => client[p].at = "checking",
         Become(p, at), UNCHANGED session
  PROVE  client' \in [Procs -> Client] /\ Room'
  <1>1. client[p] \in Client
    BY DEF TypeInv, TypeOK
  <1>2. [client[p] EXCEPT !.at = at] \in Client
    BY <1>1 DEF Client
  <1>3. client' = [client EXCEPT ![p] = [client[p] EXCEPT !.at = at]]
    BY DEF Become
  <1>4. [client[p] EXCEPT !.at = at].expected = client[p].expected
    BY <1>1 DEF Client
  <1>5. [client[p] EXCEPT !.at = at].at \in {"checking", "admitted"}
           => [client[p] EXCEPT !.at = at].sent < MaxCalls
    BY <1>1 DEF Client, TypeInv, Room
  <1> QED BY <1>2, <1>3, <1>4, <1>5, ClientStep

\* Well typed at the start.
LEMMA TypeInit == Init => TypeInv
  <1> SUFFICES ASSUME Init PROVE TypeInv
    OBVIOUS
  <1>1. (CHOOSE d \in Dirs : TRUE) \in Dirs
    BY AuthorityAssumption
  <1>2. TypeOK
    BY <1>1, AuthorityAssumption
    DEF Init, TypeOK, Inodes, Epochs, Session, NoSession, Client, Stages
  <1>3. Room
    BY DEF Init, Room, NoSession
  <1> QED BY <1>2, <1>3 DEF TypeInv

\* Steps of a session on the authority host keep the types.
LEMMA TypeServe ==
  ASSUME TypeInv, NEW p \in Procs, Serve(p)
  PROVE  TypeInv'
  <1>s. session[p] \in Session /\ client[p] \in Client
    BY DEF TypeInv, TypeOK
  <1>1. CASE ServeStat(p)
    <2>1. [session[p] EXCEPT !.at = "statted", !.hadLock = (lockFile # 0)] \in Session
      BY <1>s DEF Session, Stages
    <2>2. session' \in [Procs -> Session] /\ Room'
      BY <1>1, <1>s, <2>1, SessionStep DEF ServeStat, Step, Session
    <2> QED BY <1>1, <2>2 DEF ServeStat, TypeInv, TypeOK, authority, storage
  <1>2. CASE ServeOpen(p)
    <2>1. lockFile' \in Inodes /\ inodes' \in Inodes
      BY <1>2, AuthorityAssumption DEF ServeOpen, TypeInv, TypeOK, Inodes
    <2>2. [session[p] EXCEPT !.at = "opened", !.inode = lockFile'] \in Session
      BY <1>s, <2>1 DEF Session, Stages
    <2>3. session' \in [Procs -> Session] /\ Room'
      BY <1>2, <1>s, <2>2, SessionStep DEF ServeOpen, Step, Session
    <2> QED BY <1>2, <2>1, <2>3 DEF ServeOpen, TypeInv, TypeOK, storage
  <1>3. CASE ServeLock(p)
    <2>1. /\ [session[p] EXCEPT !.at = "gone"] \in Session
          /\ [session[p] EXCEPT !.at = "locked"] \in Session
      BY <1>s DEF Session, Stages
    <2>2. session' \in [Procs -> Session] /\ Room'
      BY <1>3, <1>s, <2>1, SessionStep DEF ServeLock, Step, Session
    <2>3. reply' \in [Procs -> {"none", "acquired", "refused", "valid"}]
      BY <1>3 DEF ServeLock, TypeInv, TypeOK
    <2> QED BY <1>3, <2>2, <2>3 DEF ServeLock, TypeInv, TypeOK, authority, storage
  <1>4. CASE ServeRead(p)
    <2>1. /\ [session[p] EXCEPT !.at = "gone"] \in Session
          /\ [session[p] EXCEPT !.at = "read"] \in Session
      BY <1>s DEF Session, Stages
    <2>2. epochFile # MaxEpoch => epochFile < MaxEpoch
      BY AuthorityAssumption DEF TypeInv, TypeOK, Epochs
    <2>3. session' \in [Procs -> Session] /\ Room'
      BY <1>4, <1>s, <2>1, <2>2, SessionStep DEF ServeRead, Step, Session
    <2>4. reply' \in [Procs -> {"none", "acquired", "refused", "valid"}]
      BY <1>4 DEF ServeRead, TypeInv, TypeOK
    <2> QED BY <1>4, <2>3, <2>4 DEF ServeRead, TypeInv, TypeOK, authority, storage
  <1>5. CASE ServeWrite(p)
    <2>1. client[p].expected \in Epochs /\ client[p].expected < MaxEpoch
      BY <1>5, <1>s DEF ServeWrite, Step, TypeInv, Room, Client
    <2>2. client[p].expected + 1 \in Epochs
      BY <2>1, AuthorityAssumption DEF Epochs
    <2>3. [session[p] EXCEPT !.at = "granted", !.epoch = client[p].expected + 1] \in Session
      BY <1>s, <2>2 DEF Session, Stages
    <2>4. session' \in [Procs -> Session] /\ Room'
      BY <1>5, <1>s, <2>3, SessionStep DEF ServeWrite, Step, Session
    <2> QED BY <1>5, <2>2, <2>4 DEF ServeWrite, TypeInv, TypeOK, storage
  <1>6. CASE ServeReply(p)
    <2>1. [session[p] EXCEPT !.at = "leased"] \in Session
      BY <1>s DEF Session, Stages
    <2>2. session' \in [Procs -> Session] /\ Room'
      BY <1>6, <1>s, <2>1, SessionStep DEF ServeReply, Step, Session
    <2>3. reply' \in [Procs -> {"none", "acquired", "refused", "valid"}]
      BY <1>6 DEF ServeReply, TypeInv, TypeOK
    <2> QED BY <1>6, <2>2, <2>3 DEF ServeReply, TypeInv, TypeOK, authority, storage
  <1>7. CASE ServeValidate(p)
    <2> DEFINE at == IF Valid(p) THEN "leased" ELSE "gone"
    <2>1. at \in {"leased", "gone"}
      OBVIOUS
    <2> HIDE DEF at
    <2>2. [session[p] EXCEPT !.asked = FALSE, !.at = at] \in Session
      BY <1>s, <2>1 DEF Session, Stages
    <2>3. session' = [session EXCEPT ![p] = [session[p] EXCEPT !.asked = FALSE, !.at = at]]
      BY <1>7 DEF ServeValidate, Step, at
    <2>4. session' \in [Procs -> Session] /\ Room'
      BY <1>7, <1>s, <2>1, <2>2, <2>3, SessionStep DEF ServeValidate, Session
    <2>5. reply' \in [Procs -> {"none", "acquired", "refused", "valid"}]
      BY <1>7 DEF ServeValidate, TypeInv, TypeOK
    <2> QED BY <1>7, <2>4, <2>5 DEF ServeValidate, TypeInv, TypeOK, authority, storage
  <1>8. CASE ServeGone(p)
    <2>1. [session[p] EXCEPT !.at = "gone"] \in Session
      BY <1>s DEF Session, Stages
    <2>2. session' \in [Procs -> Session] /\ Room'
      BY <1>8, <1>s, <2>1, SessionStep DEF ServeGone, Session
    <2> QED BY <1>8, <2>2 DEF ServeGone, TypeInv, TypeOK, authority, storage
  <1> QED BY <1>1, <1>2, <1>3, <1>4, <1>5, <1>6, <1>7, <1>8 DEF Serve

\* Steps of a TalosDeck process keep the types.
LEMMA TypeManage ==
  ASSUME TypeInv, NEW p \in Procs, Manage(p)
  PROVE  TypeInv'
  <1>c. session[p] \in Session /\ client[p] \in Client
    BY DEF TypeInv, TypeOK
  <1>1. ASSUME NEW d \in Dirs, NEW a \in BOOLEAN, NEW e \in Epochs, Start(p, d, a, e)
        PROVE  TypeInv'
    <2>1. /\ [client[p] EXCEPT !.at = "waiting", !.dir = d, !.activate = a, !.expected = e]
               \in Client
          /\ [session[p] EXCEPT !.at = "started"] \in Session
      BY <1>c DEF Client, Session, Stages
    <2>2. /\ client' \in [Procs -> Client]
          /\ session' \in [Procs -> Session]
      BY <1>1, <2>1 DEF Start, TypeInv, TypeOK
    <2>3. Room'
      BY <1>1, <1>c DEF Start, TypeInv, TypeOK, Room, Client, Session
    <2> QED BY <1>1, <2>2, <2>3 DEF Start, TypeInv, TypeOK, authority, storage
  <1>2. CASE Acquired(p)
    <2>1. [client[p] EXCEPT !.at = "acquired", !.epoch = session[p].epoch] \in Client
      BY <1>c DEF Client, Session
    <2>2. client' \in [Procs -> Client] /\ Room'
      BY <1>2, <1>c, <2>1, ClientStep DEF Acquired, Client
    <2>3. reply' \in [Procs -> {"none", "acquired", "refused", "valid"}]
      BY <1>2 DEF Acquired, TypeInv, TypeOK
    <2> QED BY <1>2, <2>2, <2>3 DEF Acquired, TypeInv, TypeOK, authority, storage
  <1>3. CASE AcquireFails(p)
    BY <1>3, BecomeStep DEF AcquireFails, TypeInv, TypeOK, authority, storage
  <1>4. ASSUME NEW ok \in BOOLEAN, RecordEpoch(p, ok) PROVE TypeInv'
    <2>1. client[p].epoch \in Epochs /\ client[p].dir \in Dirs
      BY <1>c DEF Client
    <2>2. policy' \in [Dirs -> Epochs]
      BY <1>4, <2>1 DEF RecordEpoch, TypeInv, TypeOK
    <2>3. client' \in [Procs -> Client] /\ Room'
      BY <1>4, BecomeStep DEF RecordEpoch
    <2> QED BY <1>4, <2>2, <2>3 DEF RecordEpoch, TypeInv, TypeOK, authority
  <1>5. CASE ValidateSend(p)
    <2>1. /\ [client[p] EXCEPT !.at = "checking"] \in Client
          /\ [session[p] EXCEPT !.asked = TRUE] \in Session
      BY <1>c DEF Client, Session
    <2>2. /\ client' \in [Procs -> Client]
          /\ session' \in [Procs -> Session]
      BY <1>5, <2>1 DEF ValidateSend, Become, TypeInv, TypeOK
    <2>3. Room'
      BY <1>5, <1>c DEF ValidateSend, Become, TypeInv, TypeOK, Room, Client, Session
    <2>4. client[p].sent \in 0..MaxCalls /\ client[p].dir \in Dirs
      BY <1>c DEF Client
    <2>5. client[p].sent + 1 \in 1..MaxCalls
      BY <1>5, <2>4, AuthorityAssumption DEF ValidateSend
    <2>6. journal' \in [Dirs -> SUBSET (Procs \X (1..MaxCalls))]
      BY <1>5, <2>4, <2>5 DEF ValidateSend, TypeInv, TypeOK
    <2> QED BY <1>5, <2>2, <2>3, <2>6 DEF ValidateSend, TypeInv, TypeOK, authority
  <1>6. CASE ValidateOK(p)
    <2>1. client' \in [Procs -> Client] /\ Room'
      BY <1>6, BecomeStep DEF ValidateOK
    <2>2. reply' \in [Procs -> {"none", "acquired", "refused", "valid"}]
      BY <1>6 DEF ValidateOK, TypeInv, TypeOK
    <2> QED BY <1>6, <2>1, <2>2 DEF ValidateOK, TypeInv, TypeOK, authority, storage
  <1>7. CASE ValidateFails(p)
    BY <1>7, BecomeStep DEF ValidateFails, TypeInv, TypeOK, authority, storage
  <1>8. CASE Dispatch(p)
    <2>1. client[p].sent \in 0..MaxCalls /\ client[p].sent < MaxCalls
      BY <1>8, <1>c DEF Dispatch, Client, TypeInv, Room
    <2>2. client[p].sent + 1 \in 0..MaxCalls /\ client[p].sent + 1 \in 1..MaxCalls
      BY <2>1, AuthorityAssumption
    <2>3. [client[p] EXCEPT !.at = "ready", !.sent = client[p].sent + 1] \in Client
      BY <1>c, <2>2 DEF Client
    <2>4. client' \in [Procs -> Client] /\ Room'
      BY <1>8, <1>c, <2>3, ClientStep DEF Dispatch, Client
    <2>5. calls' \subseteq Procs \X (1..MaxCalls)
      BY <1>8, <2>2 DEF Dispatch, TypeInv, TypeOK
    <2> QED BY <1>8, <2>4, <2>5 DEF Dispatch, TypeInv, TypeOK, authority, storage
  <1>9. CASE Exit(p)
    BY <1>9, BecomeStep DEF Exit, TypeInv, TypeOK, authority, storage
  <1> QED BY <1>1, <1>2, <1>3, <1>4, <1>5, <1>6, <1>7, <1>8, <1>9 DEF Manage

\* Every step keeps TypeInv.
LEMMA TypeStep == TypeInv /\ [Next]_vars => TypeInv'
  <1> SUFFICES ASSUME TypeInv, [Next]_vars PROVE TypeInv'
    OBVIOUS
  <1>1. ASSUME NEW p \in Procs, Serve(p) \/ Manage(p) PROVE TypeInv'
    BY <1>1, TypeServe, TypeManage
  <1>2. ASSUME NEW d \in Dirs, NEW e \in Dirs, CopyDir(d, e) PROVE TypeInv'
    BY <1>2 DEF CopyDir, TypeInv, TypeOK, Room, authority
  <1>3. CASE RemoveLock
    BY <1>3, AuthorityAssumption DEF RemoveLock, TypeInv, TypeOK, Room, Inodes, storage
  <1>4. CASE UNCHANGED vars
    BY <1>4 DEF vars, TypeInv, TypeOK, Room, authority, storage
  <1> QED BY <1>1, <1>2, <1>3, <1>4 DEF Next

\* Every variable keeps its shape; in particular the epoch the authority grants
\* never passes the last one, which Serve refuses as exhausted.
THEOREM TypeCorrect == Spec => []TypeOK
  <1>1. TypeInv => TypeOK
    BY DEF TypeInv
  <1> QED BY <1>1, TypeInit, TypeStep, PTL DEF Spec

-----------------------------------------------------------------------------
(* Exclusion by the file lock, whatever becomes of the lock file. *)

\* The kernel's promise about flock, as Serve uses it.
LockExclusive ==
    \A p, q \in Procs :
        HoldsLock(p) /\ HoldsLock(q) /\ session[p].inode = session[q].inode => p = q

\* A lock is only taken when no other session holds it.
LEMMA LockStep == TypeInv /\ LockExclusive /\ [Next]_vars => LockExclusive'
  <1> SUFFICES ASSUME TypeInv, LockExclusive, [Next]_vars PROVE LockExclusive'
    OBVIOUS
  <1>t. session \in [Procs -> Session]
    BY DEF TypeInv, TypeOK
  <1>1. ASSUME NEW p \in Procs, Serve(p) PROVE LockExclusive'
    <2> USE <1>t DEF LockExclusive, HoldsLock, Step, Session
    <2>1. CASE ServeStat(p)
      BY <2>1 DEF ServeStat
    <2>2. CASE ServeOpen(p)
      BY <2>2 DEF ServeOpen
    <2>3. CASE ServeLock(p)
      BY <2>3 DEF ServeLock
    <2>4. CASE ServeRead(p)
      BY <2>4 DEF ServeRead
    <2>5. CASE ServeWrite(p)
      BY <2>5 DEF ServeWrite
    <2>6. CASE ServeReply(p)
      BY <2>6 DEF ServeReply
    <2>7. CASE ServeValidate(p)
      BY <2>7 DEF ServeValidate
    <2>8. CASE ServeGone(p)
      BY <2>8 DEF ServeGone
    <2> QED BY <1>1, <2>1, <2>2, <2>3, <2>4, <2>5, <2>6, <2>7, <2>8 DEF Serve
  <1>2. ASSUME NEW p \in Procs, Manage(p) PROVE LockExclusive'
    <2> USE <1>t DEF LockExclusive, HoldsLock, Session
    <2>1. ASSUME NEW d \in Dirs, NEW a \in BOOLEAN, NEW e \in Epochs, Start(p, d, a, e)
          PROVE  LockExclusive'
      BY <2>1 DEF Start
    <2>2. CASE ValidateSend(p)
      BY <2>2 DEF ValidateSend
    <2>3. CASE UNCHANGED session
      BY <2>3
    <2> QED BY <1>2, <2>1, <2>2, <2>3 DEF Manage, Acquired, AcquireFails, RecordEpoch,
              ValidateOK, ValidateFails, Dispatch, Exit
  <1>3. CASE UNCHANGED session
    BY <1>3 DEF LockExclusive, HoldsLock
  <1> QED BY <1>1, <1>2, <1>3 DEF Next, CopyDir, RemoveLock, vars

\* At no time could the authority confirm two processes: both the session that
\* is confirmed and its rival would hold the lock of the inode that is now
\* execution.lock.  No assumption is made on MaxInode, so the lock file may be
\* removed and created again, nor on the epochs that clients expect.
THEOREM LeaseIsExclusive == Spec => []LeaseExclusive
  <1> DEFINE I == TypeInv /\ LockExclusive
  <1>1. Init => I
    BY TypeInit DEF Init, LockExclusive, HoldsLock, NoSession
  <1>2. I /\ [Next]_vars => I'
    BY TypeStep, LockStep
  <1>3. I => LeaseExclusive
    BY DEF LeaseExclusive, LockExclusive, HoldsLock, Valid
  <1> QED BY <1>1, <1>2, <1>3, PTL DEF Spec

-----------------------------------------------------------------------------
(* The grant of an epoch, when the lock file is never replaced. *)

PreGrant == {"started", "statted", "opened", "locked", "read"}

\* A session that locks has the one inode; before its grant a session has no
\* epoch, and the epoch it compared is still the current one when it writes;
\* epochs are granted once, in order, and believed only by their owner.
SessionInv ==
    \A p \in Procs :
        /\ session[p].at = "opened" \/ HoldsLock(p) => session[p].inode # 0
        /\ client[p].at = "idle" => session[p].at = "none"
        /\ session[p].at \in PreGrant \cup {"none"} => session[p].epoch = 0
        /\ session[p].at \in {"granted", "leased"} => session[p].epoch # 0
        /\ session[p].at = "read" => client[p].expected = epochFile
        /\ session[p].epoch <= epochFile
        /\ client[p].epoch = 0 \/ client[p].epoch = session[p].epoch

GrantedOnce ==
    \A p, q \in Procs : session[p].epoch # 0 /\ session[p].epoch = session[q].epoch => p = q

GrantInv == TypeInv /\ LockExclusive /\ SessionInv /\ GrantedOnce

\* With one inode there is one lock.
LEMMA OneLock ==
  ASSUME MaxInode = 1, GrantInv, NEW p \in Procs, NEW q \in Procs, HoldsLock(p), HoldsLock(q)
  PROVE  p = q
  <1>1. session[p].inode \in 0..1 /\ session[q].inode \in 0..1
    BY DEF GrantInv, TypeInv, TypeOK, Session, Inodes
  <1>2. session[p].inode = session[q].inode
    BY <1>1 DEF GrantInv, SessionInv
  <1> QED BY <1>2 DEF GrantInv, LockExclusive

\* Nothing is granted at the start.
LEMMA GrantInit == Init => GrantInv
  <1> SUFFICES ASSUME Init PROVE GrantInv
    OBVIOUS
  <1>1. TypeInv
    BY TypeInit
  <1>2. LockExclusive /\ SessionInv /\ GrantedOnce
    BY DEF Init, LockExclusive, SessionInv, GrantedOnce, HoldsLock, NoSession, PreGrant
  <1> QED BY <1>1, <1>2 DEF GrantInv

\* Only ServeWrite grants an epoch.
LEMMA GrantWrite ==
  ASSUME MaxInode = 1, GrantInv, NEW p \in Procs, ServeWrite(p)
  PROVE  SessionInv' /\ GrantedOnce'
  <1>t. /\ session \in [Procs -> Session] /\ client \in [Procs -> Client]
        /\ epochFile \in Nat
        /\ \A q \in Procs : session[q].epoch \in Nat /\ client[q].expected \in Nat
    BY AuthorityAssumption DEF GrantInv, TypeInv, TypeOK, Epochs, Session, Client
  <1>1. /\ session[p].at = "read" /\ session[p].epoch = 0 /\ session[p].inode # 0
        /\ client[p].epoch = 0
        /\ client[p].expected = epochFile
        /\ epochFile' = epochFile + 1
        /\ client' = client
    BY DEF GrantInv, SessionInv, ServeWrite, Step, HoldsLock, PreGrant
  <1>2. /\ session'[p].at = "granted" /\ session'[p].epoch = epochFile + 1
        /\ session'[p].inode = session[p].inode
        /\ \A q \in Procs : q # p => session'[q] = session[q]
    BY <1>t, <1>1 DEF ServeWrite, Step, Session
  <1>3. \A q \in Procs : q # p => session[q].at # "read"
    BY <1>1, OneLock DEF HoldsLock
  <1>4. \A q \in Procs : session[q].epoch <= epochFile
    BY DEF GrantInv, SessionInv
  <1>5. \A q \in Procs : q # p => session'[q].epoch <= epochFile
    BY <1>2, <1>4
  <1>6. SessionInv'
    <2> SUFFICES ASSUME NEW q \in Procs
        PROVE /\ session'[q].at = "opened" \/ HoldsLock(q)' => session'[q].inode # 0
              /\ client'[q].at = "idle" => session'[q].at = "none"
              /\ session'[q].at \in PreGrant \cup {"none"} => session'[q].epoch = 0
              /\ session'[q].at \in {"granted", "leased"} => session'[q].epoch # 0
              /\ session'[q].at = "read" => client'[q].expected = epochFile'
              /\ session'[q].epoch <= epochFile'
              /\ client'[q].epoch = 0 \/ client'[q].epoch = session'[q].epoch
      BY DEF SessionInv
    <2>1. CASE q = p
      <3>1. client[p].at # "idle"
        BY <1>1 DEF GrantInv, SessionInv
      <3> QED BY <1>t, <1>1, <1>2, <2>1, <3>1 DEF PreGrant
    <2>2. CASE q # p
      <3>1. session'[q].epoch <= epochFile'
        BY <1>t, <1>1, <1>2, <1>5, <2>2
      <3> QED BY <1>1, <1>2, <1>3, <2>2, <3>1 DEF GrantInv, SessionInv, HoldsLock
    <2> QED BY <2>1, <2>2
  <1>7. GrantedOnce'
    <2>1. \A q \in Procs : q # p => session'[q].epoch # session'[p].epoch
      BY <1>t, <1>2, <1>4
    <2> QED BY <1>2, <2>1 DEF GrantInv, GrantedOnce
  <1> QED BY <1>6, <1>7

\* Every step keeps GrantInv.
LEMMA GrantStep ==
  ASSUME MaxInode = 1
  PROVE  GrantInv /\ [Next]_vars => GrantInv'
  <1> SUFFICES ASSUME GrantInv, [Next]_vars PROVE GrantInv'
    OBVIOUS
  <1>1. TypeInv' /\ LockExclusive'
    BY TypeStep, LockStep DEF GrantInv
  <1>t. session \in [Procs -> Session] /\ client \in [Procs -> Client]
    BY DEF GrantInv, TypeInv, TypeOK
  <1>2. ASSUME NEW p \in Procs, Serve(p) PROVE SessionInv' /\ GrantedOnce'
    <2> USE <1>t DEF GrantInv, SessionInv, GrantedOnce, HoldsLock, PreGrant, Step, Session, authority
    <2>1. CASE ServeStat(p)
      BY <2>1 DEF ServeStat
    <2>2. CASE ServeOpen(p)
      <3>1. lockFile' # 0
        BY <2>2, AuthorityAssumption DEF ServeOpen, TypeInv, TypeOK, Inodes
      <3> QED BY <2>2, <3>1 DEF ServeOpen
    <2>3. CASE ServeLock(p)
      BY <2>3 DEF ServeLock
    <2>4. CASE ServeRead(p)
      BY <2>4 DEF ServeRead
    <2>5. CASE ServeWrite(p)
      BY <2>5, GrantWrite
    <2>6. CASE ServeReply(p)
      BY <2>6 DEF ServeReply
    <2>7. CASE ServeValidate(p)
      BY <2>7 DEF ServeValidate
    <2>8. CASE ServeGone(p)
      BY <2>8 DEF ServeGone
    <2> QED BY <1>2, <2>1, <2>2, <2>3, <2>4, <2>5, <2>6, <2>7, <2>8 DEF Serve
  <1>3. ASSUME NEW p \in Procs, Manage(p) PROVE SessionInv' /\ GrantedOnce'
    <2> USE <1>t DEF GrantInv, SessionInv, GrantedOnce, HoldsLock, PreGrant, Become, Session,
                     Client, authority
    <2>1. ASSUME NEW d \in Dirs, NEW a \in BOOLEAN, NEW e \in Epochs, Start(p, d, a, e)
          PROVE  SessionInv' /\ GrantedOnce'
      BY <2>1 DEF Start
    <2>2. CASE Acquired(p)
      BY <2>2 DEF Acquired
    <2>3. CASE AcquireFails(p)
      BY <2>3 DEF AcquireFails
    <2>4. ASSUME NEW ok \in BOOLEAN, RecordEpoch(p, ok) PROVE SessionInv' /\ GrantedOnce'
      BY <2>4 DEF RecordEpoch
    <2>5. CASE ValidateSend(p)
      BY <2>5 DEF ValidateSend
    <2>6. CASE ValidateOK(p)
      BY <2>6 DEF ValidateOK
    <2>7. CASE ValidateFails(p)
      BY <2>7 DEF ValidateFails
    <2>8. CASE Dispatch(p)
      BY <2>8 DEF Dispatch
    <2>9. CASE Exit(p)
      BY <2>9 DEF Exit, Live
    <2> QED BY <1>3, <2>1, <2>2, <2>3, <2>4, <2>5, <2>6, <2>7, <2>8, <2>9 DEF Manage
  <1>4. ASSUME UNCHANGED <<session, client, epochFile>> PROVE SessionInv' /\ GrantedOnce'
    BY <1>4 DEF GrantInv, SessionInv, GrantedOnce, HoldsLock
  <1>5. SessionInv' /\ GrantedOnce'
    BY <1>2, <1>3, <1>4 DEF Next, CopyDir, RemoveLock, vars, authority
  <1> QED BY <1>1, <1>5 DEF GrantInv

\* No two processes ever believe in the same epoch, so the pair of instance and
\* ExecutorEpoch stamped on an intent names one process; and no process
\* believes in an epoch the authority has not reached.
THEOREM UniqueEpochs ==
  ASSUME MaxInode = 1
  PROVE  Spec => []EpochsAreUnique
  <1>1. GrantInv => EpochsAreUnique
    <2> SUFFICES ASSUME GrantInv PROVE EpochsAreUnique
      OBVIOUS
    <2>1. \A p \in Procs : client[p].epoch # 0 => client[p].epoch = session[p].epoch
      BY DEF GrantInv, SessionInv
    <2>2. \A p \in Procs : client[p].epoch <= epochFile
      <3> TAKE p \in Procs
      <3>1. epochFile \in Nat /\ client[p].epoch \in Nat
        BY AuthorityAssumption DEF GrantInv, TypeInv, TypeOK, Client, Epochs
      <3> QED BY <2>1, <3>1 DEF GrantInv, SessionInv
    <2> QED BY <2>1, <2>2 DEF EpochsAreUnique, GrantInv, GrantedOnce
  <1>2. GrantInv /\ [Next]_vars => GrantInv'
    BY GrantStep
  <1> QED BY <1>1, <1>2, GrantInit, PTL DEF Spec

-----------------------------------------------------------------------------
(* The sessions implement the abstract lease. *)

\* The abstract lease is free at the start.
LEMMA LeaseInit == Init => Lease!Init
  BY DEF Init, NoSession, Lease!Init

\* The lease is held from the grant to the end of the session.
Holders == {p \in Procs : session[p].at \in {"granted", "leased"}}

\* Every step is a step of the abstract lease or leaves it alone.
LEMMA LeaseStep ==
  ASSUME MaxInode = 1
  PROVE  GrantInv /\ [Next]_vars => [Lease!Next]_(Lease!vars)
  <1> SUFFICES ASSUME GrantInv, [Next]_vars PROVE [Lease!Next]_(Lease!vars)
    OBVIOUS
  <1>t. /\ session \in [Procs -> Session] /\ session' \in [Procs -> Session]
        /\ epochFile \in Nat
    BY TypeStep, AuthorityAssumption DEF GrantInv, TypeInv, TypeOK, Epochs
  <1> DEFINE Term == [p \in Procs |-> session[p].epoch]
  <1>u. ASSUME Holders' = Holders, Term' = Term, epochFile' = epochFile
        PROVE  [Lease!Next]_(Lease!vars)
    BY <1>u DEF Lease!vars, Holders
  <1>k. ASSUME NEW p \in Procs, NEW s \in Session,
               session' = [session EXCEPT ![p] = s],
               s.epoch = session[p].epoch,
               s.at \in {"granted", "leased"} <=> session[p].at \in {"granted", "leased"}
        PROVE  Holders' = Holders /\ Term' = Term
    <2>1. Term' = Term
      BY <1>k, <1>t
    <2>2. Holders' = Holders
      BY <1>k, <1>t DEF Holders
    <2> QED BY <2>1, <2>2
  <1>1. ASSUME NEW p \in Procs, Serve(p) PROVE [Lease!Next]_(Lease!vars)
    <2>s. session[p] \in Session
      BY <1>t
    <2>1. CASE ServeStat(p) \/ ServeOpen(p) \/ ServeLock(p) \/ ServeRead(p)
               \/ ServeReply(p) \/ (ServeValidate(p) /\ Valid(p))
      <3>1. /\ session'[p] \in Session
            /\ session' = [session EXCEPT ![p] = session'[p]]
        BY <1>t, <2>1 DEF ServeStat, ServeOpen, ServeLock, ServeRead, ServeReply, ServeValidate, Step
      <3>2. /\ session'[p].epoch = session[p].epoch
            /\ session'[p].at \in {"granted", "leased"} <=> session[p].at \in {"granted", "leased"}
        <4>0. CASE ServeStat(p)
          BY <1>t, <2>s, <4>0 DEF ServeStat, Step, Session
        <4>1. CASE ServeOpen(p)
          BY <1>t, <2>s, <4>1 DEF ServeOpen, Step, Session
        <4>2. CASE ServeLock(p) \/ ServeRead(p)
          BY <1>t, <4>2 DEF ServeLock, ServeRead, Step, Session
        <4>3. CASE ServeReply(p)
          BY <1>t, <4>3 DEF ServeReply, Step, Session
        <4>4. CASE ServeValidate(p) /\ Valid(p)
          <5>1. session'[p] = [session[p] EXCEPT !.asked = FALSE, !.at = "leased"]
            BY <1>t, <4>4 DEF ServeValidate, Step
          <5> QED BY <2>s, <4>4, <5>1 DEF ServeValidate, Step, Session
        <4> QED BY <2>1, <4>0, <4>1, <4>2, <4>3, <4>4
      <3>3. epochFile' = epochFile
        BY <2>1 DEF ServeStat, ServeOpen, ServeLock, ServeRead, ServeReply, ServeValidate, authority
      <3> QED BY <3>1, <3>2, <3>3, <1>k, <1>u
    <2>2. CASE ServeWrite(p)
      <3>1. session[p].at = "read" /\ client[p].expected = epochFile /\ session[p].epoch = 0
        BY <2>2 DEF ServeWrite, Step, GrantInv, SessionInv, PreGrant
      <3>2. Holders = {}
        BY <3>1, OneLock DEF Holders, HoldsLock
      <3>3. /\ session'[p].at = "granted" /\ session'[p].epoch = epochFile + 1
            /\ \A q \in Procs : q # p => session'[q] = session[q]
            /\ epochFile' = epochFile + 1
        BY <2>2, <1>t, <3>1 DEF ServeWrite, Step, Session
      <3>4. Holders' = {p}
        BY <3>2, <3>3 DEF Holders
      <3>5. Term' = [Term EXCEPT ![p] = epochFile + 1]
        BY <3>3
      <3>6. epochFile < MaxEpoch
        BY <3>1 DEF GrantInv, TypeInv, Room
      <3>7. Lease!Grant(p)
        BY <3>1, <3>2, <3>3, <3>4, <3>5, <3>6 DEF Lease!Grant, Holders
      <3> QED BY <3>7 DEF Lease!Next
    <2>3. CASE ServeGone(p) \/ (ServeValidate(p) /\ ~Valid(p))
      <3>1. /\ session'[p].at = "gone" /\ session'[p].epoch = session[p].epoch
            /\ \A q \in Procs : q # p => session'[q] = session[q]
            /\ epochFile' = epochFile
        <4>1. CASE ServeGone(p)
          BY <1>t, <4>1 DEF ServeGone, Session, authority
        <4>2. CASE ServeValidate(p) /\ ~Valid(p)
          <5>1. /\ session' = [session EXCEPT ![p] =
                                [session[p] EXCEPT !.asked = FALSE, !.at = "gone"]]
                /\ epochFile' = epochFile
            BY <4>2 DEF ServeValidate, Step, authority
          <5> QED BY <1>t, <2>s, <5>1 DEF Session
        <4> QED BY <2>3, <4>1, <4>2
      <3>2. Term' = Term
        BY <3>1
      <3>3. Holders' = Holders \ {p}
        BY <3>1 DEF Holders
      <3>4. CASE p \in Holders
        BY <3>1, <3>2, <3>3, <3>4 DEF Lease!Next, Lease!Release, Holders
      <3>5. CASE p \notin Holders
        BY <3>1, <3>2, <3>3, <3>5, <1>u
      <3> QED BY <3>4, <3>5
    <2> QED BY <1>1, <2>1, <2>2, <2>3 DEF Serve
  <1>2. ASSUME NEW p \in Procs, Manage(p) PROVE [Lease!Next]_(Lease!vars)
    <2>1. ASSUME NEW d \in Dirs, NEW a \in BOOLEAN, NEW e \in Epochs, Start(p, d, a, e)
          PROVE  [Lease!Next]_(Lease!vars)
      <3>1. session[p].at = "none"
        BY <2>1 DEF Start, GrantInv, SessionInv
      <3>2. /\ session'[p].at = "started" /\ session'[p].epoch = session[p].epoch
            /\ session' = [session EXCEPT ![p] = session'[p]] /\ session'[p] \in Session
            /\ epochFile' = epochFile
        BY <1>t, <2>1 DEF Start, Session, authority
      <3> QED BY <3>1, <3>2, <1>k, <1>u
    <2>2. CASE ValidateSend(p)
      <3>1. /\ session'[p].at = session[p].at /\ session'[p].epoch = session[p].epoch
            /\ session' = [session EXCEPT ![p] = session'[p]] /\ session'[p] \in Session
            /\ epochFile' = epochFile
        BY <1>t, <2>2 DEF ValidateSend, Session, authority
      <3> QED BY <3>1, <1>k, <1>u
    <2>3. CASE UNCHANGED <<session, epochFile>>
      BY <2>3, <1>u DEF Holders
    <2> QED BY <1>2, <2>1, <2>2, <2>3 DEF Manage, Acquired, AcquireFails, RecordEpoch,
              ValidateOK, ValidateFails, Dispatch, Exit, authority
  <1>3. CASE UNCHANGED <<session, epochFile>>
    BY <1>3, <1>u DEF Holders
  <1> QED BY <1>1, <1>2, <1>3 DEF Next, CopyDir, RemoveLock, vars, authority

\* As long as the lock file is not replaced, the sessions on the authority host
\* implement the lease of ExecutionLease: one holder, an epoch that grows by
\* one with every grant, and never a grant while somebody holds it.
THEOREM SessionsImplementLease ==
  ASSUME MaxInode = 1
  PROVE  Spec => LeaseSpec
  <1>1. GrantInv /\ [Next]_vars => GrantInv'
    BY GrantStep
  <1>2. GrantInv /\ [Next]_vars => [Lease!Next]_(Lease!vars)
    BY LeaseStep
  <1> QED BY <1>1, <1>2, GrantInit, LeaseInit, PTL DEF Spec, LeaseSpec, Lease!Spec

-----------------------------------------------------------------------------
(* Clones and rolled back copies, when no operator overrides the epoch. *)

\* A directory has one process; what a waiting process expects is what its
\* directory says; nothing is ahead of the authority; and a process past the
\* acquisition believes in the epoch its session was granted.
Registered ==
    /\ \A d \in Dirs : policy[d] <= epochFile
    /\ \A p \in Procs :
          /\ client[p].expected <= epochFile
          /\ client[p].at = "waiting" => policy[client[p].dir] = client[p].expected
          /\ client[p].at \in {"acquired", "ready", "checking", "admitted", "poisoned"}
                => client[p].epoch = session[p].epoch /\ session[p].epoch # 0
          /\ reply[p] = "acquired" => session[p].epoch # 0
    /\ \A p, q \in Procs : Live(p) /\ Live(q) /\ client[p].dir = client[q].dir => p = q

\* While a process whose session was granted an epoch is alive, that epoch is
\* the last one, and everybody else is behind it: the other directories, and
\* the sessions that have not been granted one yet.
Ahead ==
    \A p \in Procs : Live(p) /\ session[p].epoch # 0 =>
        /\ session[p].epoch = epochFile
        /\ \A d \in Dirs : d # client[p].dir => policy[d] < epochFile
        /\ \A q \in Procs : session[q].at \in PreGrant => client[q].expected < epochFile

\* A directory that is not behind, and the one of a process that was granted
\* an epoch, have the intent of every call ever made.
Complete ==
    /\ \A d \in Dirs : policy[d] = epochFile => calls \subseteq journal[d]
    /\ \A p \in Procs : Live(p) /\ session[p].epoch # 0 => calls \subseteq journal[client[p].dir]
    /\ \A p \in Procs : client[p].at \in {"checking", "admitted"} =>
          <<p, client[p].sent + 1>> \in journal[client[p].dir]

LineageInv == GrantInv /\ Registered /\ Ahead /\ Complete

\* The numbers are numbers.
LEMMA LineageTypes ==
  ASSUME TypeInv
  PROVE  /\ epochFile \in Nat
         /\ session \in [Procs -> Session] /\ client \in [Procs -> Client]
         /\ \A d \in Dirs : policy[d] \in Nat
         /\ \A q \in Procs : /\ session[q].epoch \in Nat /\ client[q].expected \in Nat
                             /\ client[q].dir \in Dirs
  <1>1. session \in [Procs -> Session] /\ client \in [Procs -> Client] /\ policy \in [Dirs -> Epochs]
    BY DEF TypeInv, TypeOK
  <1>2. Epochs \subseteq Nat
    BY AuthorityAssumption DEF Epochs
  <1>3. epochFile \in Nat /\ \A d \in Dirs : policy[d] \in Nat
    BY <1>1, <1>2 DEF TypeInv, TypeOK
  <1>4. \A q \in Procs : session[q].epoch \in Epochs /\ client[q].expected \in Epochs /\ client[q].dir \in Dirs
    BY <1>1 DEF Session, Client
  <1> QED BY <1>1, <1>2, <1>3, <1>4

\* Every directory starts behind the authority.
LEMMA LineageInit == Init => LineageInv
  <1> SUFFICES ASSUME Init PROVE LineageInv
    OBVIOUS
  <1>1. GrantInv
    BY GrantInit
  <1>2. Registered /\ Ahead /\ Complete
    BY DEF Init, Registered, Ahead, Complete, NoSession, Live
  <1> QED BY <1>1, <1>2 DEF LineageInv

\* A step that grants nothing and leaves the management processes alone.
LEMMA LineageQuiet ==
  ASSUME LineageInv, UNCHANGED <<policy, client, calls, journal, epochFile>>,
         \A q \in Procs : /\ session'[q].epoch = session[q].epoch
                          /\ session'[q].at \in PreGrant => session[q].at \in PreGrant
                          /\ reply'[q] = "acquired" => session[q].epoch # 0
  PROVE  Registered' /\ Ahead' /\ Complete'
  BY DEF LineageInv, Registered, Ahead, Complete, Live

\* Steps of a session keep LineageInv.
LEMMA LineageServe ==
  ASSUME MaxInode = 1, LineageInv, NEW p \in Procs, Serve(p)
  PROVE  Registered' /\ Ahead' /\ Complete'
  <1>t. TypeInv /\ GrantInv
    BY DEF LineageInv, GrantInv
  <1>n. /\ epochFile \in Nat
        /\ session \in [Procs -> Session] /\ client \in [Procs -> Client]
        /\ \A d \in Dirs : policy[d] \in Nat
        /\ \A q \in Procs : /\ session[q].epoch \in Nat /\ client[q].expected \in Nat
                            /\ client[q].dir \in Dirs
    BY <1>t, LineageTypes
  <1>r. \A q \in Procs : reply[q] = "acquired" => session[q].epoch # 0
    BY DEF LineageInv, Registered
  <1>y. reply \in [Procs -> {"none", "acquired", "refused", "valid"}]
    BY <1>t DEF TypeInv, TypeOK
  <1>1. CASE ServeStat(p)
    <2>1. \A q \in Procs : /\ session'[q].epoch = session[q].epoch
                           /\ session'[q].at \in PreGrant => session[q].at \in PreGrant
      BY <1>1, <1>n DEF ServeStat, Step, Session, PreGrant
    <2> QED BY <1>1, <1>r, <2>1, LineageQuiet DEF ServeStat, authority, storage
  <1>2. CASE ServeOpen(p)
    <2>1. \A q \in Procs : /\ session'[q].epoch = session[q].epoch
                           /\ session'[q].at \in PreGrant => session[q].at \in PreGrant
      BY <1>2, <1>n DEF ServeOpen, Step, Session, PreGrant
    <2> QED BY <1>2, <1>r, <2>1, LineageQuiet DEF ServeOpen, storage
  <1>3. CASE ServeLock(p)
    <2>1. \A q \in Procs : /\ session'[q].epoch = session[q].epoch
                           /\ session'[q].at \in PreGrant => session[q].at \in PreGrant
      BY <1>3, <1>n DEF ServeLock, Step, Session, PreGrant
    <2>2. \A q \in Procs : reply'[q] = "acquired" => reply[q] = "acquired"
      BY <1>3, <1>y DEF ServeLock
    <2> QED BY <1>3, <1>r, <2>1, <2>2, LineageQuiet DEF ServeLock, authority, storage
  <1>4. CASE ServeRead(p)
    <2>1. \A q \in Procs : /\ session'[q].epoch = session[q].epoch
                           /\ session'[q].at \in PreGrant => session[q].at \in PreGrant
      BY <1>4, <1>n DEF ServeRead, Step, Session, PreGrant
    <2>2. \A q \in Procs : reply'[q] = "acquired" => reply[q] = "acquired"
      BY <1>4, <1>y DEF ServeRead
    <2> QED BY <1>4, <1>r, <2>1, <2>2, LineageQuiet DEF ServeRead, authority, storage
  <1>5. CASE ServeWrite(p)
    <2>1. /\ session[p].at = "read" /\ session[p].epoch = 0
          /\ client[p].expected = epochFile /\ epochFile' = epochFile + 1
          /\ UNCHANGED <<policy, client, calls, journal, reply>>
      BY <1>5, <1>t DEF ServeWrite, Step, GrantInv, SessionInv, PreGrant, storage
    <2>2. /\ session'[p].at = "granted" /\ session'[p].epoch = epochFile + 1
          /\ \A q \in Procs : q # p => session'[q] = session[q]
      BY <1>5, <1>n, <2>1 DEF ServeWrite, Step, Session
    <2>3. \A q \in Procs : Live(q) => session[q].epoch = 0
      BY <2>1, <1>n DEF LineageInv, Ahead, PreGrant
    <2>4. /\ \A d \in Dirs : policy[d] < epochFile'
          /\ \A q \in Procs : client[q].expected < epochFile'
      BY <1>n, <2>1 DEF LineageInv, Registered
    <2>5. Registered'
      <3>1. \A d \in Dirs : policy'[d] <= epochFile'
        BY <1>n, <2>1, <2>4
      <3>2. \A q \in Procs : client'[q].expected <= epochFile'
        BY <1>n, <2>1, <2>4
      <3>3. client[p].at \notin {"acquired", "ready", "checking", "admitted", "poisoned"}
        BY <2>1 DEF LineageInv, Registered
      <3>4. \A q \in Procs : reply'[q] = "acquired" => session'[q].epoch # 0
        BY <1>n, <1>r, <2>1, <2>2
      <3> QED BY <2>1, <2>2, <3>1, <3>2, <3>3, <3>4 DEF LineageInv, Registered, Live
    <2>6. Ahead'
      BY <1>n, <2>1, <2>2, <2>3, <2>4 DEF Ahead, Live
    <2>7. Complete'
      <3>1. Live(p) => calls \subseteq journal[client[p].dir]
        <4> SUFFICES ASSUME Live(p) PROVE calls \subseteq journal[client[p].dir]
          OBVIOUS
        <4>1. client[p].at = "waiting"
          BY <2>1, <1>n, <1>t DEF Live, LineageInv, Registered, Client
        <4>2. policy[client[p].dir] = epochFile
          BY <2>1, <4>1 DEF LineageInv, Registered
        <4> QED BY <1>n, <4>2 DEF LineageInv, Complete
      <3>2. \A d \in Dirs : policy'[d] # epochFile'
        BY <1>n, <2>1, <2>4
      <3> QED BY <2>1, <2>2, <2>3, <3>1, <3>2 DEF LineageInv, Complete, Live
    <2> QED BY <2>5, <2>6, <2>7
  <1>6. CASE ServeReply(p)
    <2>1. \A q \in Procs : /\ session'[q].epoch = session[q].epoch
                           /\ session'[q].at \in PreGrant => session[q].at \in PreGrant
      BY <1>6, <1>n DEF ServeReply, Step, Session, PreGrant
    <2>2. session[p].epoch # 0
      BY <1>6, <1>t DEF ServeReply, Step, GrantInv, SessionInv
    <2>3. \A q \in Procs : reply'[q] = "acquired" => session[q].epoch # 0
      BY <1>6, <1>r, <1>y, <2>2 DEF ServeReply
    <2> QED BY <1>6, <2>1, <2>3, LineageQuiet DEF ServeReply, authority, storage
  <1>7. CASE ServeValidate(p)
    <2>1. \A q \in Procs : /\ session'[q].epoch = session[q].epoch
                           /\ session'[q].at \in PreGrant => session[q].at \in PreGrant
      BY <1>7, <1>n DEF ServeValidate, Step, Session, PreGrant
    <2>2. \A q \in Procs : reply'[q] = "acquired" => reply[q] = "acquired"
      BY <1>7, <1>y DEF ServeValidate
    <2> QED BY <1>7, <1>r, <2>1, <2>2, LineageQuiet DEF ServeValidate, authority, storage
  <1>8. CASE ServeGone(p)
    <2>1. \A q \in Procs : /\ session'[q].epoch = session[q].epoch
                           /\ session'[q].at \in PreGrant => session[q].at \in PreGrant
      BY <1>8, <1>n DEF ServeGone, Session, PreGrant
    <2> QED BY <1>8, <1>r, <2>1, LineageQuiet DEF ServeGone, authority, storage
  <1> QED BY <1>1, <1>2, <1>3, <1>4, <1>5, <1>6, <1>7, <1>8 DEF Serve

\* A process that moves on without acquiring, recording or journalling.
LEMMA LineageBecome ==
  ASSUME LineageInv, NEW p \in Procs, Live(p),
         NEW at \in {"admitted", "poisoned", "dead"},
         at # "dead" => client[p].at = "checking",
         Become(p, at), UNCHANGED <<session, policy, journal, calls, epochFile>>,
         \A q \in Procs : reply'[q] = "acquired" => reply[q] = "acquired"
  PROVE  Registered' /\ Ahead' /\ Complete'
  <1>t. TypeInv
    BY DEF LineageInv, GrantInv
  <1>n. client \in [Procs -> Client]
    BY <1>t, LineageTypes
  <1>1. /\ client'[p].at = at
        /\ client'[p].dir = client[p].dir /\ client'[p].expected = client[p].expected
        /\ client'[p].epoch = client[p].epoch /\ client'[p].sent = client[p].sent
        /\ \A q \in Procs : q # p => client'[q] = client[q]
    BY <1>n DEF Become, Client
  <1>2. \A q \in Procs : Live(q)' => Live(q)
    BY <1>1 DEF Live
  <1>3. \A q \in Procs : client'[q].dir = client[q].dir /\ client'[q].expected = client[q].expected
    BY <1>1
  <1>4. Registered'
    BY <1>1, <1>2, <1>3 DEF LineageInv, Registered
  <1>5. Ahead'
    BY <1>2, <1>3 DEF LineageInv, Ahead
  <1>6. Complete'
    BY <1>1, <1>2, <1>3 DEF LineageInv, Complete
  <1> QED BY <1>4, <1>5, <1>6

\* Steps of a process keep LineageInv.
LEMMA LineageManage ==
  ASSUME MaxInode = 1, ~WithActivation, LineageInv, NEW p \in Procs, Manage(p)
  PROVE  Registered' /\ Ahead' /\ Complete'
  <1>t. TypeInv /\ GrantInv /\ Registered /\ Ahead /\ Complete
    BY DEF LineageInv, GrantInv
  <1>n. /\ epochFile \in Nat
        /\ session \in [Procs -> Session] /\ client \in [Procs -> Client]
        /\ \A d \in Dirs : policy[d] \in Nat
        /\ \A q \in Procs : /\ session[q].epoch \in Nat /\ client[q].expected \in Nat
                            /\ client[q].dir \in Dirs
    BY <1>t, LineageTypes
  <1>y. /\ reply \in [Procs -> {"none", "acquired", "refused", "valid"}]
        /\ policy \in [Dirs -> Epochs] /\ DOMAIN journal = Dirs
    BY <1>t DEF TypeInv, TypeOK
  <1>1. ASSUME NEW d \in Dirs, NEW a \in BOOLEAN, NEW e \in Epochs, Start(p, d, a, e)
        PROVE  Registered' /\ Ahead' /\ Complete'
    <2>1. /\ client[p].at = "idle" /\ session[p].at = "none" /\ session[p].epoch = 0
          /\ e = policy[d] /\ Offline(d)
          /\ UNCHANGED <<policy, calls, journal, epochFile, reply>>
      BY <1>1, <1>t DEF Start, GrantInv, SessionInv, authority, storage
    <2>2. /\ session'[p].at = "started" /\ session'[p].epoch = 0
          /\ \A q \in Procs : q # p => session'[q] = session[q]
      BY <1>1, <1>n, <2>1 DEF Start, Session
    <2>3. /\ client'[p].at = "waiting" /\ client'[p].dir = d /\ client'[p].expected = policy[d]
          /\ \A q \in Procs : q # p => client'[q] = client[q]
      BY <1>1, <1>n, <2>1 DEF Start, Client
    <2>4. \A q \in Procs : q # p => (Live(q)' <=> Live(q))
      BY <2>3 DEF Live
    <2>5. Registered'
      BY <1>t, <2>1, <2>2, <2>3, <2>4 DEF Registered, Offline
    <2>6. Ahead'
      BY <1>t, <2>1, <2>2, <2>3, <2>4 DEF Ahead, Offline
    <2>7. Complete'
      BY <1>t, <2>1, <2>2, <2>3, <2>4 DEF Complete
    <2> QED BY <2>5, <2>6, <2>7
  <1>2. CASE Acquired(p)
    <2>1. /\ client[p].at = "waiting" /\ reply[p] = "acquired" /\ session[p].epoch # 0
          /\ UNCHANGED <<policy, calls, journal, epochFile, session>>
      BY <1>2, <1>t DEF Acquired, Registered, authority, storage
    <2>2. /\ client'[p].at = "acquired" /\ client'[p].dir = client[p].dir
          /\ client'[p].expected = client[p].expected /\ client'[p].epoch = session[p].epoch
          /\ \A q \in Procs : q # p => client'[q] = client[q]
      BY <1>2, <1>n DEF Acquired, Client
    <2>3. \A q \in Procs : /\ Live(q)' <=> Live(q)
                           /\ client'[q].dir = client[q].dir
                           /\ client'[q].expected = client[q].expected
      BY <2>1, <2>2 DEF Live
    <2>4. \A q \in Procs : reply'[q] = "acquired" => reply[q] = "acquired"
      BY <1>2, <1>y DEF Acquired
    <2>5. Registered'
      BY <1>t, <2>1, <2>2, <2>3, <2>4 DEF Registered
    <2>6. Ahead'
      BY <1>t, <2>1, <2>3 DEF Ahead
    <2>7. Complete'
      BY <1>t, <2>1, <2>2, <2>3 DEF Complete
    <2> QED BY <2>5, <2>6, <2>7
  <1>3. CASE AcquireFails(p)
    BY <1>3, LineageBecome DEF AcquireFails, Live, authority, storage
  <1>4. ASSUME NEW ok \in BOOLEAN, RecordEpoch(p, ok) PROVE Registered' /\ Ahead' /\ Complete'
    <2>1. /\ client[p].at = "acquired" /\ client[p].epoch = session[p].epoch
          /\ session[p].epoch = epochFile /\ epochFile # 0
          /\ UNCHANGED <<calls, journal, epochFile, session, reply>>
      BY <1>4, <1>t DEF RecordEpoch, Registered, Ahead, Live, authority
    <2>2. /\ client'[p].at \in {"ready", "dead"} /\ client'[p].dir = client[p].dir
          /\ client'[p].expected = client[p].expected /\ client'[p].epoch = client[p].epoch
          /\ \A q \in Procs : q # p => client'[q] = client[q]
      BY <1>4, <1>n DEF RecordEpoch, Become, Client
    <2>3. /\ policy'[client[p].dir] \in {policy[client[p].dir], epochFile}
          /\ \A d \in Dirs : d # client[p].dir => policy'[d] = policy[d]
      BY <1>4, <1>n, <1>y, <2>1 DEF RecordEpoch
    <2>4. \A q \in Procs : /\ Live(q)' => Live(q)
                           /\ client'[q].dir = client[q].dir
                           /\ client'[q].expected = client[q].expected
      BY <2>1, <2>2 DEF Live
    <2>5. \A q \in Procs : Live(q) /\ session[q].epoch # 0 => q = p
      BY <1>t, <2>1 DEF Ahead, GrantInv, GrantedOnce
    <2>6. \A q \in Procs : Live(q) /\ client[q].dir = client[p].dir => q = p
      BY <1>t, <2>1 DEF Registered, Live
    <2>7. Registered'
      <3>1. \A d \in Dirs : policy'[d] <= epochFile'
        BY <1>t, <1>n, <2>1, <2>3 DEF Registered
      <3>2. \A q \in Procs : client'[q].at = "waiting" => policy'[client'[q].dir] = client'[q].expected
        BY <1>t, <1>n, <2>2, <2>3, <2>4, <2>6 DEF Registered, Live
      <3> QED BY <1>t, <2>1, <2>2, <2>4, <3>1, <3>2 DEF Registered
    <2>8. Ahead'
      BY <1>t, <2>1, <2>2, <2>3, <2>4, <2>5 DEF Ahead
    <2>9. Complete'
      <3>1. calls \subseteq journal[client[p].dir]
        BY <1>t, <2>1 DEF Complete, Live
      <3>2. \A d \in Dirs : policy'[d] = epochFile => calls \subseteq journal[d]
        BY <1>t, <2>3, <3>1 DEF Complete
      <3> QED BY <1>t, <2>1, <2>2, <2>4, <3>2 DEF Complete
    <2> QED BY <2>7, <2>8, <2>9
  <1>5. CASE ValidateSend(p)
    <2>1. /\ client[p].at = "ready"
          /\ UNCHANGED <<policy, calls, epochFile, reply>>
      BY <1>5 DEF ValidateSend, authority
    <2>2. /\ client'[p].at = "checking" /\ client'[p].dir = client[p].dir
          /\ client'[p].expected = client[p].expected /\ client'[p].epoch = client[p].epoch
          /\ client'[p].sent = client[p].sent
          /\ \A q \in Procs : q # p => client'[q] = client[q]
      BY <1>5, <1>n DEF ValidateSend, Become, Client
    <2>3. \A q \in Procs : session'[q].epoch = session[q].epoch /\ session'[q].at = session[q].at
      BY <1>5, <1>n DEF ValidateSend, Session
    <2>4. /\ \A d \in Dirs : journal[d] \subseteq journal'[d]
          /\ <<p, client[p].sent + 1>> \in journal'[client[p].dir]
      BY <1>5, <1>n, <1>y DEF ValidateSend
    <2>5. \A q \in Procs : /\ Live(q)' <=> Live(q)
                           /\ client'[q].dir = client[q].dir
                           /\ client'[q].expected = client[q].expected
      BY <2>1, <2>2 DEF Live
    <2>6. Registered'
      BY <1>t, <2>1, <2>2, <2>3, <2>5 DEF Registered
    <2>7. Ahead'
      BY <1>t, <2>1, <2>3, <2>5 DEF Ahead
    <2>8. Complete'
      BY <1>t, <1>n, <2>1, <2>2, <2>3, <2>4, <2>5 DEF Complete
    <2> QED BY <2>6, <2>7, <2>8
  <1>6. CASE ValidateOK(p)
    <2>1. \A q \in Procs : reply'[q] = "acquired" => reply[q] = "acquired"
      BY <1>6, <1>y DEF ValidateOK
    <2> QED BY <1>6, <2>1, LineageBecome DEF ValidateOK, Live, authority, storage
  <1>7. CASE ValidateFails(p)
    BY <1>7, LineageBecome DEF ValidateFails, Live, authority, storage
  <1>8. CASE Dispatch(p)
    <2>1. /\ client[p].at = "admitted" /\ session[p].epoch # 0 /\ Live(p)
          /\ calls' = calls \cup {<<p, client[p].sent + 1>>}
          /\ UNCHANGED <<policy, journal, epochFile, session, reply>>
      BY <1>8, <1>t DEF Dispatch, Registered, Live, authority, storage
    <2>2. /\ client'[p].at = "ready" /\ client'[p].dir = client[p].dir
          /\ client'[p].expected = client[p].expected /\ client'[p].epoch = client[p].epoch
          /\ \A q \in Procs : q # p => client'[q] = client[q]
      BY <1>8, <1>n DEF Dispatch, Client
    <2>3. \A q \in Procs : /\ Live(q)' <=> Live(q)
                           /\ client'[q].dir = client[q].dir
                           /\ client'[q].expected = client[q].expected
      BY <2>1, <2>2 DEF Live
    <2>4. calls' \subseteq journal[client[p].dir]
      BY <1>t, <2>1 DEF Complete
    <2>5. \A d \in Dirs : d # client[p].dir => policy[d] # epochFile
      BY <1>t, <1>n, <2>1 DEF Ahead
    <2>6. \A q \in Procs : Live(q) /\ session[q].epoch # 0 => q = p
      BY <1>t, <2>1 DEF Ahead, GrantInv, GrantedOnce
    <2>7. Registered'
      BY <1>t, <2>1, <2>2, <2>3 DEF Registered
    <2>8. Ahead'
      BY <1>t, <2>1, <2>3 DEF Ahead
    <2>9. Complete'
      BY <1>t, <2>1, <2>2, <2>3, <2>4, <2>5, <2>6 DEF Complete
    <2> QED BY <2>7, <2>8, <2>9
  <1>9. CASE Exit(p)
    BY <1>9, LineageBecome DEF Exit, authority, storage
  <1> QED BY <1>1, <1>2, <1>3, <1>4, <1>5, <1>6, <1>7, <1>8, <1>9 DEF Manage

\* A directory that is cloned or rolled back offline keeps LineageInv.
LEMMA LineageCopy ==
  ASSUME LineageInv, NEW d \in Dirs, NEW e \in Dirs, CopyDir(d, e)
  PROVE  Registered' /\ Ahead' /\ Complete'
  <1>t. TypeInv /\ Registered /\ Ahead /\ Complete
    BY DEF LineageInv, GrantInv
  <1>1. /\ policy'[e] = policy[d] /\ journal'[e] = journal[d]
        /\ \A c \in Dirs : c # e => policy'[c] = policy[c] /\ journal'[c] = journal[c]
        /\ \A p \in Procs : Live(p) => client[p].dir # d /\ client[p].dir # e
        /\ UNCHANGED <<epochFile, session, reply, client, calls>>
    BY <1>t DEF CopyDir, Offline, TypeInv, TypeOK, authority
  <1>n. \A q \in Procs : client[q].dir \in Dirs
    BY <1>t, LineageTypes
  <1>2. \A q \in Procs : client[q].at \in {"waiting", "checking", "admitted"} => Live(q)
    BY DEF Live
  <1>3. Registered'
    BY <1>t, <1>n, <1>1, <1>2 DEF Registered, Live
  <1>4. Ahead'
    BY <1>t, <1>1 DEF Ahead, Live
  <1>5. Complete'
    BY <1>t, <1>n, <1>1, <1>2 DEF Complete, Live
  <1> QED BY <1>3, <1>4, <1>5

\* Every step keeps LineageInv.
LEMMA LineageStep ==
  ASSUME MaxInode = 1, ~WithActivation
  PROVE  LineageInv /\ [Next]_vars => LineageInv'
  <1> SUFFICES ASSUME LineageInv, [Next]_vars PROVE LineageInv'
    OBVIOUS
  <1>1. GrantInv'
    BY GrantStep DEF LineageInv
  <1>2. ASSUME UNCHANGED <<epochFile, session, reply, client, policy, journal, calls>>
        PROVE  Registered' /\ Ahead' /\ Complete'
    BY <1>2 DEF LineageInv, Registered, Ahead, Complete, Live
  <1>3. Registered' /\ Ahead' /\ Complete'
    BY <1>2, LineageServe, LineageManage, LineageCopy
    DEF Next, RemoveLock, vars, authority, storage
  <1> QED BY <1>1, <1>3 DEF LineageInv

\* As long as the lock file is not replaced and no operator overrides the
\* expected epoch, at most one living process is past the acquisition, among
\* any number of clones and rolled back copies of a data directory, and
\* although a poisoned process may live on unaware of its successor.
THEOREM OnlyOneExecutor ==
  ASSUME MaxInode = 1, ~WithActivation
  PROVE  Spec => []SoleExecutor
  <1>1. LineageInv => SoleExecutor
    <2> SUFFICES ASSUME LineageInv PROVE SoleExecutor
      OBVIOUS
    <2>1. \A p \in Procs : client[p].epoch # 0 => client[p].epoch = session[p].epoch
      BY DEF LineageInv, GrantInv, SessionInv
    <2> QED BY <2>1 DEF SoleExecutor, LineageInv, Ahead, GrantInv, GrantedOnce
  <1>2. LineageInv /\ [Next]_vars => LineageInv'
    BY LineageStep
  <1> QED BY <1>1, <1>2, LineageInit, PTL DEF Spec

\* Under the same conditions the process that may send a call has, in its own
\* journal, the intent of every call that was ever made: a stale copy is refused
\* even after the newer executor has exited.
THEOREM StaleCopiesAreRefused ==
  ASSUME MaxInode = 1, ~WithActivation
  PROVE  Spec => []KnowsEveryCall
  <1>1. LineageInv => KnowsEveryCall
    BY DEF LineageInv, Registered, Complete, KnowsEveryCall, Live
  <1>2. LineageInv /\ [Next]_vars => LineageInv'
    BY LineageStep
  <1> QED BY <1>1, <1>2, LineageInit, PTL DEF Spec

-----------------------------------------------------------------------------
(* The journal's admission next to the authority. *)

\* The journal that admits the request has its inductive invariant.
Journal == focus = "request" => Dedupe!JournalInv

\* The constants of the composition are constants of a journal.
LEMMA JournalConstants == Dedupe!ConstantsAssumption
  BY AdmissionAssumption DEF Dedupe!ConstantsAssumption

\* Whichever part is chosen, the journal starts well.
LEMMA AdmissionStart == AdmissionInit => Journal
  BY JournalConstants, Dedupe!JournalInit DEF AdmissionInit, Journal

\* A step of the composition is one of the journal, or leaves it alone.
LEMMA AdmissionStep ==
  ASSUME Journal, [AdmissionNext]_<<focus, vars, shared>>
  PROVE  Journal'
  <1>1. focus' = focus
    BY DEF AdmissionNext
  <1>2. focus = "request" => [Dedupe!Next]_(Dedupe!vars)
    BY DEF AdmissionNext, shared, Dedupe!vars, Dedupe!journal, Dedupe!control, Dedupe!history
  <1> QED BY <1>1, <1>2, JournalConstants, Dedupe!JournalNext DEF Journal

\* The journal keeps its invariant in the composition.
LEMMA AdmissionInvariant == AdmissionSpec => []Journal
  BY AdmissionStart, AdmissionStep, PTL DEF AdmissionSpec

\* A deduplication key starts one job also where processes come and go, for a journal of any
\* capacity and any keys (Submit's search for the key).
THEOREM RequestStartsOnce == AdmissionSpec => []KeyStartsOnce
  <1>1. Journal => KeyStartsOnce
    BY DEF Journal, Dedupe!JournalInv, KeyStartsOnce
  <1> QED BY <1>1, AdmissionInvariant, PTL

\* A record of an incompatible binary stays under review and archived in the composition.
THEOREM LegacyIsQuarantined == AdmissionSpec => []LegacyQuarantined
  <1>1. Dedupe!JournalInv => Dedupe!LegacyQuarantined
    BY DEF Dedupe!JournalInv, Dedupe!Quarantine, Dedupe!Archived, Dedupe!LegacyQuarantined
  <1>2. Journal => LegacyQuarantined
    BY <1>1 DEF Journal, LegacyQuarantined
  <1> QED BY <1>2, AdmissionInvariant, PTL
=============================================================================
