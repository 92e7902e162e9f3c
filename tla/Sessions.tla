------------------------------ MODULE Sessions ------------------------------
(***************************************************************************)
(* Users, sessions and download tickets: internal/auth/users.go, auth.go   *)
(* and oidc.go, the routes of internal/api/security_routes.go and the      *)
(* tickets of internal/api/download_ticket.go.                             *)
(*                                                                         *)
(* The authentication state is one encrypted record; every change copies   *)
(* it, writes the copy and then publishes it in memory.  A token carries   *)
(* its user, role, version and signing key.  It is accepted until its      *)
(* expiry and for the clock leeway after it.  Passwords are left out: a    *)
(* change of one only raises the user's version.  Failing writes and       *)
(* provider calls, crashes and expiry draw on MaxFaults.                   *)
(***************************************************************************)
EXTENDS Naturals, FiniteSets

CONSTANTS Tokens,       \* 1..n, in the order they are signed
          Tickets,      \* 1..n, in the order they are issued
          TicketLimit,  \* downloadTicketLimit
          Keys,         \* signing keys
          Clients,      \* requests in flight
          MaxChanges,   \* changes of the authentication state
          MaxFaults

VARIABLES state,        \* a.state: what the process answers from
          disk,         \* the encrypted record
          up,
          tokens,       \* [Tokens -> token or NoToken]
          client,       \* [Clients -> request between two of its steps, or Idle]
          code,         \* the token an OIDC exchange code stands for, or NoCode
          tickets,      \* [Tickets -> [stage, token]]
          opened,       \* history: [Tickets -> downloads it opened]
          late,         \* history: a ticket opened a download after its session had ended
          ended,        \* history: tokens whose end was confirmed to someone
          changes,      \* changes made so far
          faults

vars == <<state, disk, up, tokens, client, code, tickets, opened, late, ended, changes, faults>>

Users == {"admin", "local", "sso"}
Roles == {"viewer", "admin"}
Provider(u) == IF u = "sso" THEN "oidc" ELSE "local"
UserRecord == [exists : BOOLEAN, role : Roles, disabled : BOOLEAN, version : Nat]
State == [users : [Users -> UserRecord], revoked : SUBSET Tokens, key : Keys]
NoUser == [exists |-> FALSE, role |-> "viewer", disabled |-> FALSE, version |-> 0]
NoToken == [phase |-> "none"]
Token == [phase : {"live", "leeway", "expired"}, user : Users, role : Roles,
          version : Nat, key : Keys]
Idle == [op |-> "idle"]
NoCode == 0
Stages == {"unissued", "issued", "expired", "gone"}

Created(role) == [exists |-> TRUE, role |-> role, disabled |-> FALSE, version |-> 1]

\* The first start has made the administrator.
Init == /\ state = [users |-> [u \in Users |-> IF u = "admin" THEN Created("admin") ELSE NoUser],
                    revoked |-> {}, key |-> CHOOSE k \in Keys : TRUE]
        /\ disk = state /\ up = TRUE /\ tokens = [t \in Tokens |-> NoToken]
        /\ client = [c \in Clients |-> Idle] /\ code = NoCode
        /\ tickets = [k \in Tickets |-> [stage |-> "unissued", token |-> 0]]
        /\ opened = [k \in Tickets |-> 0] /\ late = FALSE /\ ended = {} /\ changes = 0 /\ faults = 0

Fault == faults < MaxFaults /\ faults' = faults + 1
NoFault == UNCHANGED faults

-----------------------------------------------------------------------------
\* ValidateToken, against the state s: signature and lifetime, then the user as it is now.
ValidateToken(s, t) ==
  /\ tokens[t].phase \in {"live", "leeway"} /\ tokens[t].key = s.key /\ t \notin s.revoked
  /\ LET u == s.users[tokens[t].user]
     IN  u.exists /\ ~u.disabled /\ u.role = tokens[t].role /\ u.version = tokens[t].version

Issued == {t \in Tokens : tokens[t] # NoToken}
Of(u) == {t \in Issued : tokens[t].user = u}

\* The copy a change starts from, without the revocations of expired tokens.
Pruned == [state EXCEPT !.revoked = {t \in @ : tokens[t].phase = "live"}]

\* changeState: nothing is published before it is written; a failed write may have committed.
\* A confirmed change ends the sessions in gone.
changeState(next, gone) ==
  /\ changes < MaxChanges /\ changes' = changes + 1
  /\ \/ state' = next /\ disk' = next /\ ended' = ended \cup gone /\ NoFault
     \/ Fault /\ disk' \in {disk, next} /\ UNCHANGED <<state, ended>>

With(u, rec) == [Pruned EXCEPT !.users[u] = rec]
User(u) == state.users[u]
Raised(u) == [User(u) EXCEPT !.version = @ + 1]

LocalAdmins(s) == {u \in Users : /\ s.users[u].exists /\ s.users[u].role = "admin"
                                 /\ ~s.users[u].disabled /\ Provider(u) = "local"}

sessionVars == <<tokens, client, code, tickets, opened, late>>

CreateUser(role) ==
  /\ up /\ ~User("local").exists
  /\ changeState(With("local", Created(role)), {}) /\ UNCHANGED <<up, sessionVars>>

\* Mutant: the administrators are counted before the change is applied to the user.
UpdateUserCounted(u, role, disabled) ==
  /\ up /\ User(u).exists /\ (role # User(u).role => Provider(u) = "local") /\ LocalAdmins(state) # {}
  /\ changeState(With(u, [Raised(u) EXCEPT !.role = role, !.disabled = disabled]), Of(u))
  /\ UNCHANGED <<up, sessionVars>>

\* UpdateUser: the role of an OIDC user is not ours; an enabled local administrator remains.
UpdateUser(u, role, disabled) ==
  /\ up /\ User(u).exists /\ (role # User(u).role => Provider(u) = "local")
  /\ LET next == With(u, [Raised(u) EXCEPT !.role = role, !.disabled = disabled])
     IN  LocalAdmins(next) # {} /\ changeState(next, Of(u))
  /\ UNCHANGED <<up, sessionVars>>

\* SetPassword by an administrator and RevokeUser: the version alone matters here.
RevokeUser(u) ==
  /\ up /\ User(u).exists /\ changeState(With(u, Raised(u)), Of(u)) /\ UNCHANGED <<up, sessionVars>>

-----------------------------------------------------------------------------
\* Requests of several steps.
At(c, op) == up /\ client[c].op = op
Goto(c, r) == client' = [client EXCEPT ![c] = r]
stateVars == <<state, disk, up, ended, changes>>

\* verifyLocal reads the user and compares the password with the lock released.
verifyLocal(c, u) ==
  /\ At(c, "idle") /\ Provider(u) = "local" /\ User(u).exists /\ ~User(u).disabled
  /\ Goto(c, [op |-> "verified", user |-> u, role |-> User(u).role]) /\ NoFault
  /\ UNCHANGED <<stateVars, tokens, code, tickets, opened, late>>

\* GenerateToken reads the user again: enabled, and with the role that was verified.
Signable(u, role) == User(u).exists /\ ~User(u).disabled /\ User(u).role = role
Sign(t, u) == /\ t \in Tokens \ Issued /\ \A x \in Tokens \ Issued : t <= x
              /\ tokens' = [tokens EXCEPT ![t] = [phase |-> "live", user |-> u, role |-> User(u).role,
                                                 version |-> User(u).version, key |-> state.key]]

\* Login's second half.
Login(c) ==
  /\ At(c, "verified") /\ Goto(c, Idle) /\ NoFault
  /\ IF Signable(client[c].user, client[c].role)
     THEN \E t \in Tokens : Sign(t, client[c].user)
     ELSE UNCHANGED tokens
  /\ UNCHANGED <<stateVars, code, tickets, opened, late>>

\* ChangePassword's second half: whatever happened meanwhile, the new hash is set.
ChangePassword(c) ==
  /\ At(c, "verified") /\ Goto(c, Idle)
  /\ changeState(With(client[c].user, Raised(client[c].user)), Of(client[c].user))
  /\ UNCHANGED <<up, tokens, code, tickets, opened, late>>

\* RevokeToken validates, then changes the state.
LogoutStart(c, t) ==
  /\ At(c, "idle") /\ ValidateToken(state, t) /\ Goto(c, [op |-> "logout", token |-> t]) /\ NoFault
  /\ UNCHANGED <<stateVars, tokens, code, tickets, opened, late>>

\* Mutant: the revocation is published in memory and not written.
RevokeTokenInMemory(c) ==
  /\ At(c, "logout") /\ Goto(c, Idle) /\ NoFault
  /\ state' = [Pruned EXCEPT !.revoked = @ \cup {client[c].token}]
  /\ ended' = ended \cup {client[c].token}
  /\ UNCHANGED <<disk, changes, up, tokens, code, tickets, opened, late>>

RevokeToken(c) ==
  /\ At(c, "logout") /\ Goto(c, Idle)
  /\ changeState([Pruned EXCEPT !.revoked = @ \cup {client[c].token}], {client[c].token})
  /\ UNCHANGED <<up, tokens, code, tickets, opened, late>>

\* FinishOIDC with the role the provider's groups map to: the flow is consumed, the code
\* exchanged and the identity verified; then oidcUser finds or makes the user.
oidcUser(c, role) ==
  /\ At(c, "idle")
  /\ \/ /\ ~User("sso").exists /\ changeState(With("sso", Created(role)), {})
     \/ /\ User("sso").exists /\ ~User("sso").disabled /\ User("sso").role = role
        /\ changeState(Pruned, {})
     \/ /\ User("sso").exists /\ ~User("sso").disabled /\ User("sso").role # role
        /\ changeState(With("sso", [Raised("sso") EXCEPT !.role = role]), Of("sso"))
  /\ Goto(c, IF faults' = faults THEN [op |-> "identified", role |-> role] ELSE Idle)
  /\ UNCHANGED <<up, tokens, code, tickets, opened, late>>

\* ... and the signed token waits behind an exchange code.
FinishOIDC(c) ==
  /\ At(c, "identified") /\ code = NoCode /\ Goto(c, Idle) /\ NoFault
  /\ IF Signable("sso", client[c].role)
     THEN \E t \in Tokens : Sign(t, "sso") /\ code' = t
     ELSE UNCHANGED <<tokens, code>>
  /\ UNCHANGED <<stateVars, tickets, opened, late>>

\* The code is consumed under the lock, whether or not the session behind it is still good.
ExchangeOIDC == /\ up /\ code # NoCode /\ code' = NoCode /\ NoFault
                /\ UNCHANGED <<stateVars, tokens, client, tickets, opened, late>>

-----------------------------------------------------------------------------
\* Issue drops expired tickets, then refuses at the limit.
Pending(k) == tickets[k].stage = "issued"
Issue(k, t) ==
  /\ up /\ tickets[k].stage = "unissued" /\ \A x \in Tickets : x < k => tickets[x].stage # "unissued"
  /\ ValidateToken(state, t) /\ tokens[t].role = "admin"
  /\ Cardinality({x \in Tickets : Pending(x)}) < TicketLimit
  /\ tickets' = [x \in Tickets |-> IF x = k THEN [stage |-> "issued", token |-> t]
                                   ELSE IF tickets[x].stage = "expired" THEN [tickets[x] EXCEPT !.stage = "gone"]
                                   ELSE tickets[x]]
  /\ NoFault /\ UNCHANGED <<stateVars, tokens, client, code, opened, late>>

\* The session of the ticket has ended, before it would have expired.
Over(k) == tickets[k].token \in ended /\ tokens[tickets[k].token].phase = "live"

\* Mutant: the ticket is removed once the session has been validated.
TakeTicketKept(c, k) ==
  /\ At(c, "idle") /\ Pending(k)
  /\ Goto(c, [op |-> "download", ticket |-> k, late |-> Over(k)]) /\ NoFault
  /\ UNCHANGED <<stateVars, tokens, code, tickets, opened, late>>

\* Authenticate removes the ticket under the lock; the downloader remembers whether the session
\* had ended by then.
TakeTicket(c, k) ==
  /\ At(c, "idle") /\ tickets[k].stage \in {"issued", "expired"}
  /\ tickets' = [tickets EXCEPT ![k].stage = "gone"] /\ NoFault
  /\ Goto(c, IF Pending(k) THEN [op |-> "download", ticket |-> k, late |-> Over(k)]
             ELSE Idle)
  /\ UNCHANGED <<stateVars, tokens, code, opened, late>>

\* Mutant: the ticket stands for the session it was issued in.
TicketSessionTrusted(c) == tokens[tickets[client[c].ticket].token].phase = "live"

\* The session behind the ticket is validated as it is now, its role included.
TicketSession(c) == LET t == tickets[client[c].ticket].token
                    IN  ValidateToken(state, t) /\ tokens[t].role = "admin"

\* ... then the download starts.
Authenticate(c) ==
  /\ At(c, "download") /\ Goto(c, Idle) /\ NoFault
  /\ IF TicketSession(c)
     THEN /\ opened' = [opened EXCEPT ![client[c].ticket] = @ + 1] /\ late' = (late \/ (client[c].late /\ Over(client[c].ticket)))
     ELSE UNCHANGED <<opened, late>>
  /\ UNCHANGED <<stateVars, tokens, code, tickets>>

-----------------------------------------------------------------------------
\* Time passes: expiry, then the end of the leeway.
TokenAges(t) ==
  /\ tokens[t].phase \in {"live", "leeway"} /\ Fault
  /\ tokens' = [tokens EXCEPT ![t].phase = IF @ = "live" THEN "leeway" ELSE "expired"]
  /\ UNCHANGED <<stateVars, client, code, tickets, opened, late>>

TicketExpires(k) ==
  /\ Pending(k) /\ Fault /\ tickets' = [tickets EXCEPT ![k].stage = "expired"]
  /\ UNCHANGED <<stateVars, tokens, client, code, opened, late>>

Crash ==
  /\ up /\ Fault /\ up' = FALSE /\ client' = [c \in Clients |-> Idle] /\ code' = NoCode
  /\ tickets' = [k \in Tickets |-> IF tickets[k].stage = "unissued" THEN tickets[k]
                                   ELSE [tickets[k] EXCEPT !.stage = "gone"]]
  /\ UNCHANGED <<state, disk, tokens, opened, late, ended, changes>>

\* Another signing key raises every version: an old key put back revives nothing.
MovedOn(rec) == IF rec.exists THEN [rec EXCEPT !.version = @ + 1] ELSE rec
Rotated(key) == [disk EXCEPT !.key = key, !.users = [u \in Users |-> MovedOn(disk.users[u])]]

\* NewPersistentAuthManager on an existing record.
Start ==
  /\ ~up /\ up' = TRUE /\ state' = disk /\ NoFault
  /\ UNCHANGED <<disk, ended, changes, sessionVars>>

StartRotated(key) ==
  /\ ~up /\ key # disk.key /\ changes < MaxChanges /\ changes' = changes + 1
  /\ \/ /\ up' = TRUE /\ disk' = Rotated(key) /\ state' = Rotated(key) /\ ended' = Issued /\ NoFault
     \/ /\ Fault /\ disk' \in {disk, Rotated(key)} /\ UNCHANGED <<up, state, ended>>
  /\ UNCHANGED sessionVars

Next == \/ \E role \in Roles : CreateUser(role)
        \/ \E u \in Users : RevokeUser(u)
        \/ \E u \in Users, role \in Roles, d \in BOOLEAN : UpdateUser(u, role, d)
        \/ \E c \in Clients : \/ \E u \in Users : verifyLocal(c, u)
                              \/ Login(c) \/ ChangePassword(c)
                              \/ \E t \in Tokens : LogoutStart(c, t)
                              \/ RevokeToken(c)
                              \/ \E role \in Roles : oidcUser(c, role)
                              \/ FinishOIDC(c)
                              \/ \E k \in Tickets : TakeTicket(c, k)
                              \/ Authenticate(c)
        \/ ExchangeOIDC
        \/ \E k \in Tickets, t \in Tokens : Issue(k, t)
        \/ \E t \in Tokens : TokenAges(t)
        \/ \E k \in Tickets : TicketExpires(k)
        \/ Crash \/ Start
        \/ \E key \in Keys : StartRotated(key)

Spec == Init /\ [][Next]_vars

-----------------------------------------------------------------------------
TypeOK ==
  /\ {state, disk} \subseteq State /\ {up, late} \subseteq BOOLEAN
  /\ \A t \in Tokens : tokens[t] \in Token \cup {NoToken}
  /\ \A c \in Clients : client[c].op \in {"idle", "verified", "logout", "identified", "download"}
  /\ code \in Tokens \cup {NoCode}
  /\ tickets \in [Tickets -> [stage : Stages, token : Tokens \cup {0}]]
  /\ opened \in [Tickets -> Nat] /\ ended \subseteq Tokens /\ faults \in 0..MaxFaults /\ changes \in 0..MaxChanges

\* A session whose end was confirmed (by a logout, by a change of the user's password, role or
\* status, by a revocation, by a new signing key) is never accepted again before it expires:
\* neither by the process nor by one that starts from the record on disk, whatever writes fail,
\* and also when the account is enabled again or an old signing key is put back
\* (changeState, Version, Revoked, NewPersistentAuthManager).
EndedStaysEnded ==
  \A t \in ended : tokens[t].phase = "live" => ~ValidateToken(state, t) /\ ~ValidateToken(disk, t)

\* There is always an enabled local administrator, in memory and on disk, so the installation
\* can be administered when the identity provider is gone (UpdateUser's count, ErrConflict).
AdminRemains == LocalAdmins(state) # {} /\ LocalAdmins(disk) # {}

\* A download ticket opens at most one download, however many requests present it at the same
\* time (DownloadTickets.Authenticate takes it out under the lock).
TicketOpensOnce == \A k \in Tickets : opened[k] <= 1

\* A ticket opens nothing once the session it was issued in had ended when it was presented
\* (DownloadTickets.Authenticate validates the session again instead of trusting the ticket).
TicketNeedsSession == ~late
=============================================================================
