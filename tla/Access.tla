------------------------------- MODULE Access -------------------------------
(***************************************************************************)
(* The identities of an installation: the recoverable first setup, logins  *)
(* and their sessions, password changes, and administrators who change the *)
(* users of the tenant at the same time.                                   *)
(*                                                                         *)
(* Every SQL transaction is one action, except that of an administrator:   *)
(* it takes shared locks on its tenant and on its own rows first and asks  *)
(* for the tenant exclusively afterwards, so it is two.  A password hash   *)
(* is a number that is never used twice; the credential checks of a login  *)
(* run outside transactions, between the actions.  users.revision and      *)
(* users.auth_revision change together and are one field, the project      *)
(* grants of a member are a flag, the tenant is the one setup creates, and *)
(* the storage generation is fixed.                                        *)
(***************************************************************************)
EXTENDS Integers, FiniteSets, TLC

CONSTANTS
    Users,          \* accounts, by their normalized email
    Founder,        \* the account of the setup request
    Forms,          \* fingerprints of setup requests that present the bootstrap token
    Handlers,       \* setup requests being served
    Clients,        \* logins and password changes being served
    Admins,         \* user changes being served
    Tokens,         \* sessions
    Changes,        \* bodies of PATCH /v1/users/{id}
    MaxHash,        \* bound on the passwords ever set
    MaxFence,       \* bound on installations.setup_fence
    Scenarios       \* what a behaviour may meet

Budgets == [running : BOOLEAN, crashes : Nat, lapses : Nat, edits : Nat, logins : Nat, passwords : Nat,
            logouts : Nat, snapshots : Nat]
Patches == [state : {"keep", "active", "disabled"}, role : {"keep", "admin", "member", "none"},
            grants : {"keep", "none", "some"}, password : BOOLEAN]

AccessAssumption ==
    /\ Founder \in Users
    /\ MaxHash \in Nat /\ MaxFence \in Nat
    /\ Changes \subseteq Patches
    /\ Scenarios \subseteq Budgets

VARIABLES
    install,    \* the setup columns of the installation
    marker,     \* the installation marker is in object storage
    handlers,   \* setup requests
    users,      \* users, memberships and project_grants
    hashes,     \* password hashes made so far
    sessions,   \* sessions, with the pins of their snapshots
    clients,    \* logins and password changes
    admins,     \* user changes
    budget      \* what may still happen

vars == <<install, marker, handlers, users, hashes, sessions, clients, admins, budget>>
setupVars == <<install, marker, handlers>>

NoOne == "no one"
Keep == [state |-> "keep", role |-> "keep", grants |-> "keep", password |-> FALSE]
Idle == [step |-> "idle"]
Absent == [state |-> "absent", role |-> "none", grants |-> FALSE, rev |-> 0, cred |-> 0, hash |-> 0]
NewUser(role, grants, hash) ==
    [state |-> "active", role |-> role, grants |-> grants, rev |-> 1, cred |-> 1, hash |-> hash]
NoSession == [state |-> "free", user |-> NoOne, cred |-> 0, hash |-> 0, pins |-> FALSE, logout |-> FALSE]

Spend(what) == /\ budget[what] > 0
               /\ budget' = [budget EXCEPT ![what] = @ - 1]

TypeOK ==
    /\ install.state \in {"uninitialized", "provisioning", "ready"}
    /\ (install.state = "provisioning") = (install.owner # NoOne)
    /\ install.fence \in 0..MaxFence
    /\ \A h \in Handlers : handlers[h].step \in {"idle", "store", "finalize", "created"}
    /\ \A u \in Users :
           /\ users[u].state \in {"absent", "active", "disabled"}
           /\ users[u].role \in {"admin", "member", "none"}
           /\ users[u].role # "member" => ~users[u].grants
           /\ users[u].hash \in 0..hashes
    /\ \A t \in Tokens : sessions[t].state \in {"free", "open", "revoked", "expired"}
    /\ \A c \in Clients : clients[c].step \in {"idle", "verify", "session", "load", "reverify", "change"}
    /\ \A a \in Admins : admins[a].step \in {"idle", "send", "known", "shared"}

(* A new installation, or one in use: the founder and a second             *)
(* administrator are logged in, a member is not.                           *)
Init ==
    /\ budget \in Scenarios
    /\ install = IF budget.running
                 THEN [state |-> "ready", form |-> NoOne, owner |-> NoOne, fence |-> 1, live |-> FALSE]
                 ELSE [state |-> "uninitialized", form |-> NoOne, owner |-> NoOne, fence |-> 0, live |-> FALSE]
    /\ marker = budget.running
    /\ handlers = [h \in Handlers |-> Idle]
    /\ clients = [c \in Clients |-> Idle]
    /\ admins = [a \in Admins |-> Idle]
    /\ IF budget.running
       THEN LET second == CHOOSE u \in Users : u # Founder
                t1 == CHOOSE t \in Tokens : TRUE
                t2 == CHOOSE t \in Tokens : t # t1
            IN  /\ hashes = 3
                /\ users = [u \in Users |-> IF u = Founder THEN NewUser("admin", FALSE, 1)
                                            ELSE IF u = second THEN NewUser("admin", FALSE, 2)
                                            ELSE NewUser("member", TRUE, 3)]
                /\ sessions = [t \in Tokens |->
                       IF t = t1 THEN [NoSession EXCEPT !.state = "open", !.user = Founder, !.cred = 1, !.hash = 1]
                       ELSE IF t = t2 THEN [NoSession EXCEPT !.state = "open", !.user = second, !.cred = 1, !.hash = 2]
                       ELSE NoSession]
       ELSE /\ hashes = 0
            /\ users = [u \in Users |-> Absent]
            /\ sessions = [t \in Tokens |-> NoSession]

(***************************************************************************)
(* Setup: reserve, store the marker, finalize.                             *)
(***************************************************************************)

(* ReserveSetup: the first request, or a retry of it whose lease ran out.  *)
(* A completed setup, a request with another body, a live lease: refused.  *)
Reservable(form) ==
    \/ install.state = "uninitialized"
    \/ install.state = "provisioning" /\ install.form = form /\ ~install.live

ReserveSetup(h, form) ==
    /\ handlers[h].step = "idle"
    /\ Reservable(form)
    /\ install.fence < MaxFence
    /\ LET fence == IF install.state = "provisioning" THEN install.fence + 1 ELSE 1
       IN /\ install' = [state |-> "provisioning", form |-> form, owner |-> h, fence |-> fence, live |-> TRUE]
          /\ handlers' = [handlers EXCEPT ![h] = [step |-> "store", fence |-> fence]]
    /\ UNCHANGED <<marker, users, hashes, sessions, clients, admins, budget>>

HoldsSetup(h) ==
    install.state = "provisioning" /\ install.owner = h /\ install.fence = handlers[h].fence /\ install.live

(* storeSetupMarker: the marker is put while the lease is kept; a refused  *)
(* heartbeat or a failed put ends the request.                             *)
StoreMarker(h) ==
    /\ handlers[h].step = "store"
    /\ \/ /\ marker' = TRUE
          /\ handlers' = [handlers EXCEPT ![h].step = "finalize"]
          /\ UNCHANGED budget
       \/ /\ HoldsSetup(h) => budget.crashes > 0
          /\ handlers' = [handlers EXCEPT ![h] = Idle]
          /\ IF HoldsSetup(h) THEN Spend("crashes") ELSE UNCHANGED budget
          /\ UNCHANGED marker
    /\ UNCHANGED <<install, users, hashes, sessions, clients, admins>>

Finalizable(h) == handlers[h].step = "finalize"

(* FinalizeSetup: the founder, the tenant and its lanes, a session, and    *)
(* the bootstrap token is consumed; refused without the lease.             *)
FinalizeSetup(h) ==
    /\ Finalizable(h)
    /\ IF HoldsSetup(h)
       THEN /\ hashes < MaxHash
            /\ install' = [install EXCEPT !.state = "ready", !.form = NoOne, !.owner = NoOne, !.live = FALSE]
            /\ hashes' = hashes + 1
            /\ users' = [users EXCEPT ![Founder] = NewUser("admin", FALSE, hashes + 1)]
            /\ \E t \in Tokens :
                   /\ sessions[t].state = "free"
                   /\ sessions' = [sessions EXCEPT ![t] = [@ EXCEPT !.state = "open", !.user = Founder,
                                                                    !.cred = 1, !.hash = hashes + 1]]
            /\ handlers' = [handlers EXCEPT ![h] = [step |-> "created"]]
       ELSE /\ handlers' = [handlers EXCEPT ![h] = Idle]
            /\ UNCHANGED <<install, users, hashes, sessions>>
    /\ UNCHANGED <<marker, clients, admins, budget>>

(* The process ends, or the client goes away. *)
CrashSetup(h) ==
    /\ handlers[h].step \in {"store", "finalize"}
    /\ Spend("crashes")
    /\ handlers' = [handlers EXCEPT ![h] = Idle]
    /\ UNCHANGED <<install, marker, users, hashes, sessions, clients, admins>>

SetupAttended == \E h \in Handlers : handlers[h].step \in {"store", "finalize"} /\ HoldsSetup(h)
SetupLeaseLapses ==
    /\ install.state = "provisioning" /\ install.live
    /\ install' = [install EXCEPT !.live = FALSE]
    /\ IF SetupAttended THEN Spend("lapses") ELSE UNCHANGED budget
    /\ UNCHANGED <<marker, handlers, users, hashes, sessions, clients, admins>>

(***************************************************************************)
(* Sessions.                                                               *)
(***************************************************************************)

(* loadPrincipal. *)
Usable(t) ==
    LET s == sessions[t]
    IN /\ s.state = "open"
       /\ users[s.user].state = "active"
       /\ s.cred = users[s.user].cred

(* The row of the user is not locked by an administrator's transaction. *)
Unlocked(u) == \A a \in Admins : admins[a].step = "shared" => admins[a].actor # u

(* postSession: the minute's limits of the account and of the address      *)
(* admit the login, and the credential is read.  A login they refuse, and  *)
(* one for an unknown account, which verifies a dummy hash, change nothing.*)
LoadLoginCredential(c, u) ==
    /\ clients[c].step = "idle"
    /\ install.state = "ready"
    /\ users[u].state = "active"
    /\ Spend("logins")
    /\ clients' = [clients EXCEPT ![c] = [step |-> "verify", user |-> u, hash |-> users[u].hash,
                                          cred |-> users[u].cred]]
    /\ UNCHANGED <<setupVars, users, hashes, sessions, admins>>

(* Verify against the hash that was read: right, or wrong or not admitted. *)
VerifyPassword(c) ==
    /\ clients[c].step \in {"verify", "reverify"}
    /\ clients' = [clients EXCEPT ![c] =
           IF @.step = "verify" THEN [@ EXCEPT !.step = "session"] ELSE [@ EXCEPT !.step = "change"]]
    /\ UNCHANGED <<setupVars, users, hashes, sessions, admins, budget>>

(* The password is wrong, no hash is admitted, or the client goes away. *)
GiveUp(c) ==
    /\ clients[c].step # "idle"
    /\ clients' = [clients EXCEPT ![c] = Idle]
    /\ UNCHANGED <<setupVars, users, hashes, sessions, admins, budget>>

(* Mutant: the credential is not looked at again. *)
SameCredentialActive(c) == users[clients[c].user].state = "active"

(* What was verified is still the credential of an active user. *)
SameCredential(c) ==
    LET u == users[clients[c].user] IN u.state = "active" /\ u.cred = clients[c].cred

CreateSession(c) ==
    /\ clients[c].step = "session"
    /\ LET u == clients[c].user
       IN /\ Unlocked(u)
          /\ IF SameCredential(c)
             THEN \E t \in Tokens :
                      /\ sessions[t].state = "free"
                      /\ sessions' = [sessions EXCEPT ![t] = [@ EXCEPT !.state = "open", !.user = u,
                                          !.cred = users[u].cred, !.hash = clients[c].hash]]
             ELSE UNCHANGED sessions
    /\ clients' = [clients EXCEPT ![c] = Idle]
    /\ UNCHANGED <<setupVars, users, hashes, admins, budget>>

(* changePassword: authenticate, read the credential, verify it, hash the  *)
(* new password, and replace it if it is still the one that was verified.  *)
AuthenticateChange(c, t) ==
    /\ clients[c].step = "idle"
    /\ Usable(t)
    /\ Spend("passwords")
    /\ clients' = [clients EXCEPT ![c] = [step |-> "load", user |-> sessions[t].user]]
    /\ UNCHANGED <<setupVars, users, hashes, sessions, admins>>

LoadUserCredential(c) ==
    /\ clients[c].step = "load"
    /\ LET u == clients[c].user
       IN clients' = [clients EXCEPT ![c] = [step |-> "reverify", user |-> u, hash |-> users[u].hash,
                                             cred |-> users[u].cred]]
    /\ UNCHANGED <<setupVars, users, hashes, sessions, admins, budget>>

Revoked(u) ==
    [t \in Tokens |-> IF sessions[t].user = u /\ sessions[t].state = "open"
                      THEN [sessions[t] EXCEPT !.state = "revoked"] ELSE sessions[t]]

WithPassword(u, hash) == [users[u] EXCEPT !.hash = hash, !.cred = @ + 1, !.rev = @ + 1]

ChangePassword(c) ==
    /\ clients[c].step = "change"
    /\ LET u == clients[c].user
       IN /\ Unlocked(u)
          /\ IF SameCredential(c)
             THEN /\ hashes < MaxHash
                  /\ hashes' = hashes + 1
                  /\ users' = [users EXCEPT ![u] = WithPassword(u, hashes + 1)]
                  /\ sessions' = Revoked(u)
             ELSE UNCHANGED <<users, hashes, sessions>>
    /\ clients' = [clients EXCEPT ![c] = Idle]
    /\ UNCHANGED <<setupVars, admins, budget>>

(* RevokeSession: logout releases the snapshots of the session. *)
RevokeSession(t) ==
    /\ sessions[t].state = "open"
    /\ Spend("logouts")
    /\ sessions' = [sessions EXCEPT ![t] = [@ EXCEPT !.state = "revoked", !.pins = FALSE, !.logout = TRUE]]
    /\ UNCHANGED <<setupVars, users, hashes, clients, admins>>

(* lockQueryAuthority. *)
Admits(t) == Usable(t) /\ users[sessions[t].user].role # "none"

(* CreateSnapshot: tenant and user are locked, the session is current. *)
CreateSnapshot(t) ==
    /\ Admits(t)
    /\ \A a \in Admins : admins[a].step # "shared"
    /\ Spend("snapshots")
    /\ sessions' = [sessions EXCEPT ![t].pins = TRUE]
    /\ UNCHANGED <<setupVars, users, hashes, clients, admins>>

(* The day of a session is over; its snapshots lapse by themselves. *)
ExpireSession(t) ==
    /\ sessions[t].state = "open"
    /\ Spend("logouts")
    /\ sessions' = [sessions EXCEPT ![t].state = "expired"]
    /\ UNCHANGED <<setupVars, users, hashes, clients, admins>>

(***************************************************************************)
(* Administrators change users.                                            *)
(***************************************************************************)

(* An administrator has listed the users and sends a change of one of      *)
(* them, or a new account.                                                 *)
ListUserPage(a, t) ==
    /\ admins[a].step = "idle"
    /\ Usable(t)
    /\ users[sessions[t].user].role = "admin"
    /\ Spend("edits")
    /\ \E u \in Users :
           \/ /\ users[u].role # "none"
              /\ \E patch \in Changes :
                     admins' = [admins EXCEPT ![a] = [step |-> "send", token |-> t, target |-> u,
                                                      seen |-> users[u], patch |-> patch]]
           \/ /\ users[u].state = "absent"
              /\ admins' = [admins EXCEPT ![a] = [step |-> "send", token |-> t, target |-> u,
                                                  seen |-> Absent, patch |-> Keep]]
    /\ UNCHANGED <<setupVars, users, hashes, sessions, clients>>

ActiveAdmins == {u \in Users : users[u].role = "admin" /\ users[u].state = "active"}

(* The handler authenticates the session in a transaction of its own. *)
Authenticate(a) ==
    /\ admins[a].step = "send"
    /\ admins' = [admins EXCEPT ![a] =
           IF Usable(@.token)
           THEN [step |-> "known", actor |-> sessions[@.token].user, target |-> @.target,
                 seen |-> @.seen, patch |-> @.patch]
           ELSE Idle]
    /\ UNCHANGED <<setupVars, users, hashes, sessions, clients, budget>>

(* requireTenantRole locks the tenant, the membership and the user row of  *)
(* the actor FOR SHARE; the session may have ended since.                  *)
RequireTenantRole(a) ==
    /\ admins[a].step = "known"
    /\ admins' = [admins EXCEPT ![a] =
           IF admins[a].actor \in ActiveAdmins THEN [@ EXCEPT !.step = "shared"] ELSE Idle]
    /\ UNCHANGED <<setupVars, users, hashes, sessions, clients, budget>>

Waits(a, b) == a # b /\ admins[a].step = "shared" /\ admins[b].step = "shared"

(* Two transactions share the tenant and both ask for it exclusively;      *)
(* PostgreSQL ends one of them, and its request fails.                     *)
DeadlockAborts(a) ==
    /\ \E b \in Admins : Waits(a, b)
    /\ admins' = [admins EXCEPT ![a] = Idle]
    /\ UNCHANGED <<setupVars, users, hashes, sessions, clients, budget>>

(* The tenant is locked FOR UPDATE: nobody else shares it. *)
TenantLocked(a) == admins[a].step = "shared" /\ ~\E b \in Admins : Waits(a, b)

(* The change would take the last active administrator. *)
LastAdmin(a, role, state) ==
    /\ users[admins[a].target].role = "admin"
    /\ role # "admin" \/ state = "disabled"
    /\ Cardinality(ActiveAdmins) <= 1

UnchangedUser(a) == users[admins[a].target].rev = admins[a].seen.rev

NewRole(a) == IF admins[a].patch.role = "keep" THEN users[admins[a].target].role ELSE admins[a].patch.role

NewGrants(a) ==
    /\ NewRole(a) # "none"
    /\ CASE admins[a].patch.grants = "keep" -> users[admins[a].target].grants
         [] admins[a].patch.grants = "some" -> TRUE
         [] OTHER -> FALSE

(* validateManagedGrants: administrators carry no grants. *)
ValidGrants(role, grants) == ~(role = "admin" /\ grants)

(* The checks of UpdateUser, in order. *)
Allowed(a) ==
    LET u == admins[a].target
        patch == admins[a].patch
    IN /\ UnchangedUser(a)
       /\ users[u].role # "none"
       /\ ValidGrants(NewRole(a), NewGrants(a))
       /\ ~LastAdmin(a, NewRole(a), patch.state)
       /\ ~(patch.password /\ u = admins[a].actor)
       /\ ~(u = Founder /\ patch.state = "disabled")

UpdateUser(a) ==
    /\ TenantLocked(a) /\ admins[a].seen # Absent
    /\ LET u == admins[a].target
           patch == admins[a].patch
           based == IF patch.password THEN [WithPassword(u, hashes + 1) EXCEPT !.rev = users[u].rev + 1]
                    ELSE [users[u] EXCEPT !.rev = @ + 1]
       IN /\ Unlocked(u) \/ u = admins[a].actor
          /\ IF Allowed(a)
             THEN /\ patch.password => hashes < MaxHash
                  /\ hashes' = hashes + (IF patch.password THEN 1 ELSE 0)
                  /\ users' = [users EXCEPT ![u] = [based EXCEPT
                         !.state = IF patch.state = "keep" THEN @ ELSE patch.state,
                         !.role = NewRole(a), !.grants = NewGrants(a)]]
                  /\ sessions' = IF patch.state = "disabled" \/ patch.password THEN Revoked(u) ELSE sessions
             ELSE UNCHANGED <<users, hashes, sessions>>
    /\ admins' = [admins EXCEPT ![a] = Idle]
    /\ UNCHANGED <<setupVars, clients, budget>>

(* A new account; one that exists, a removed one included, is a conflict. *)
CreateUser(a) ==
    /\ TenantLocked(a) /\ admins[a].seen = Absent
    /\ IF users[admins[a].target].state = "absent"
       THEN /\ hashes < MaxHash
            /\ hashes' = hashes + 1
            /\ \E role \in {"admin", "member"} :
                   users' = [users EXCEPT ![admins[a].target] = NewUser(role, role = "member", hashes + 1)]
       ELSE UNCHANGED <<users, hashes>>
    /\ admins' = [admins EXCEPT ![a] = Idle]
    /\ UNCHANGED <<setupVars, sessions, clients, budget>>

SetupStep(h) == (\E form \in Forms : ReserveSetup(h, form)) \/ StoreMarker(h) \/ FinalizeSetup(h)

Next ==
    \/ \E h \in Handlers : SetupStep(h) \/ CrashSetup(h)
    \/ SetupLeaseLapses
    \/ \E c \in Clients :
           \/ \E u \in Users : LoadLoginCredential(c, u)
           \/ \E t \in Tokens : AuthenticateChange(c, t)
           \/ LoadUserCredential(c) \/ VerifyPassword(c) \/ GiveUp(c) \/ CreateSession(c) \/ ChangePassword(c)
    \/ \E t \in Tokens : RevokeSession(t) \/ CreateSnapshot(t) \/ ExpireSession(t)
    \/ \E a \in Admins :
           \/ \E t \in Tokens : ListUserPage(a, t)
           \/ Authenticate(a) \/ RequireTenantRole(a) \/ DeadlockAborts(a) \/ UpdateUser(a) \/ CreateUser(a)

Spec == Init /\ [][Next]_vars

(* A setup request runs on; the client repeats the one that was reserved,  *)
(* and the lease of a request that is gone runs out.                       *)
Fairness ==
    /\ \A h \in Handlers :
           /\ WF_vars(StoreMarker(h)) /\ WF_vars(FinalizeSetup(h))
           /\ WF_vars(ReserveSetup(h, install.form))
    /\ WF_vars(~SetupAttended /\ SetupLeaseLapses)

FairSpec == Spec /\ Fairness

(***************************************************************************)
(* Correctness.                                                            *)
(***************************************************************************)

(* The tenant never loses its last active administrator, whichever         *)
(* administrators change or disable each other at the same time            *)
(* (UpdateUser's count under the tenant lock).                             *)
AnAdminRemains == install.state = "ready" => ActiveAdmins # {}

(* A session that is accepted was opened with the password the user has    *)
(* now: no login that verified an older hash, or whose user was disabled   *)
(* meanwhile, leaves a usable session (CreateSession, loadPrincipal).      *)
SessionsFollowPasswords ==
    \A t \in Tokens : Usable(t) => sessions[t].hash = users[sessions[t].user].hash

(* A session that was logged out holds no snapshot: none is admitted for   *)
(* it afterwards (RevokeSession, lockQueryAuthority).                      *)
LogoutReleases == \A t \in Tokens : sessions[t].logout => ~sessions[t].pins

(* An installation is ready only with its marker in object storage. *)
ReadyIsMarked == install.state = "ready" => marker

ChangesWhatWasSeen ==
    /\ \A a \in Admins :
          admins[a].step = "shared" /\ admins'[a] = Idle /\ users'[admins[a].target] # users[admins[a].target]
          => users[admins[a].target] = admins[a].seen
    /\ \A c \in Clients :
          clients[c].step = "change" /\ clients'[c] = Idle /\ users'[clients[c].user].hash # users[clients[c].user].hash
          => users[clients[c].user].hash = clients[c].hash

(* A user is changed by an administrator only as the administrator saw it, *)
(* and a password is replaced by its owner only after proving the one it   *)
(* replaces: nothing is overwritten unseen.                                *)
NothingIsOverwritten == [][ChangesWhatWasSeen]_vars

(* A reserved setup is completed: a crash between the reservation, the     *)
(* marker and the finalization is repaired by repeating the request.       *)
SetupCompletes == install.state = "provisioning" ~> install.state = "ready"

(* control-plane.md has last-admin safety checks lock the tenant before    *)
(* user rows; no two changes of users would then wait for each other.      *)
NoLockCycle == \A a, b \in Admins : ~Waits(a, b)
=============================================================================
