------------------------------ MODULE Sessions ------------------------------
(***************************************************************************)
(* One account of one academy, the sessions opened with it and what the    *)
(* backend does to them: login, refresh, logout, change of password, reset *)
(* by an administrator, recovery by a link, and the locks (an inactive     *)
(* user, an academy that is not active).                                   *)
(*                                                                         *)
(* A request is a sequence of SQL statements with nothing around them; the *)
(* single flight of a refresh and the blacklist of access tokens live in   *)
(* the memory of the one backend process.  A password is the number of the *)
(* write that stored it and password_reset_at is the number of the write   *)
(* that stamped it: two resets fall in different seconds.  A token is      *)
(* known by its session; a session that has handed out its tokens is       *)
(* "ready".                                                                *)
(***************************************************************************)
EXTENDS Naturals

CONSTANTS
  Requests,     \* slots of concurrent requests
  MaxSessions,  \* bound: rows of user_sessions
  MaxWrites,    \* bound: passwords written
  MaxLinks,     \* bound: recovery links issued
  MaxFailures   \* bound: failed statements and restarts

ASSUME BoundsAssumption ==
  MaxSessions \in Nat /\ MaxWrites \in Nat /\ MaxLinks \in Nat /\ MaxFailures \in Nat

VARIABLES
  user,        \* the row of users
  writes,      \* passwords written so far
  academy,     \* status of the academy: "active" or not
  sessions,    \* rows of user_sessions
  issued,      \* rows inserted so far
  links,       \* rows of password_recovery_tokens
  mailed,      \* links inserted so far
  blacklist,   \* access tokens refused, by the session they came with
  pc, loc,     \* where each request is, and what it holds
  failures,    \* statements failed and restarts so far
  lastReset,   \* history: the last password a reset or a recovery stored
  lastClosed   \* history: what lastReset was when all sessions were last closed

account == <<user, writes, academy, lastReset>>
tables == <<sessions, issued, lastClosed>>
recovery == <<links, mailed>>
slots == <<pc, loc>>
memory == <<blacklist, failures>>
vars == <<user, writes, academy, sessions, issued, links, mailed, blacklist, pc, loc,
          failures, lastReset, lastClosed>>

Ids == 1..MaxSessions
LinkIds == 1..MaxLinks

\* stamp: passwordResetAt in the claims.  History: parent is the session whose
\* refresh made this one (0 for a login), proof the password shown at that login,
\* spared whether it goes back to a request under way when all sessions were closed.
NoSession == [state |-> "none", ready |-> FALSE, fresh |-> TRUE, stamp |-> 0,
              parent |-> 0, proof |-> 0, spared |-> FALSE]
NoLink == [state |-> "none", redeemed |-> 0]
\* shut: history, the locks that have been closed ever since the request began.
NoLocals == [sid |-> 0, from |-> 0, stamp |-> 0, proof |-> 0, link |-> 0, must |-> FALSE,
             keep |-> 0, others |-> FALSE, shut |-> {}, spared |-> FALSE]

Live(s) == sessions[s].state = "live"
Redeemable(l) == links[l].state = "open"
Unused(l) == links[l].state \in {"open", "expired"}

\* The sessions with a refresh under way, the keys of refreshInflight.
Inflight == {loc[r].from : r \in {q \in Requests : loc[q].from # 0}}

\* The stages in which a request is going to open a session.
Granting == {"loginAcademy", "refreshUser", "refreshAcademy", "rotate", "insert", "update"}
\* Those that come after every check.
Cleared == {"rotate", "insert", "update"}

\* Mutant: the stamp of password_reset_at is not compared.
MutAcceptsNoStamp(s) == sessions[s].ready /\ s \notin blacklist /\ user.active

\* authenticate: the access token handed out with session s is taken.  Its age is
\* left out, a token that has expired being refused anyway.
Accepts(s) ==
  /\ sessions[s].ready
  /\ s \notin blacklist
  /\ user.active
  /\ user.stamp # 0 => sessions[s].stamp = user.stamp

-----------------------------------------------------------------------------
Init ==
  /\ user = [password |-> 1, stamp |-> 0, must |-> FALSE, active |-> TRUE]
  /\ writes = 1
  /\ academy = "active"
  /\ sessions = [s \in Ids |-> NoSession]
  /\ issued = 0
  /\ links = [l \in LinkIds |-> NoLink]
  /\ mailed = 0
  /\ blacklist = {}
  /\ pc = [r \in Requests |-> "idle"]
  /\ loc = [r \in Requests |-> NoLocals]
  /\ failures = 0
  /\ lastReset = 0
  /\ lastClosed = 0

\* The locks closed at this moment.
Shut == (IF user.active THEN {} ELSE {"user"}) \cup (IF academy = "active" THEN {} ELSE {"academy"})

Begin(r, stage, locals) ==
  /\ pc[r] = "idle"
  /\ pc' = [pc EXCEPT ![r] = stage]
  /\ loc' = [loc EXCEPT ![r] = [locals EXCEPT !.shut = Shut]]

Goto(r, stage) == pc' = [pc EXCEPT ![r] = stage] /\ UNCHANGED loc
Finish(r) == pc' = [pc EXCEPT ![r] = "idle"] /\ loc' = [loc EXCEPT ![r] = NoLocals]

\* revoke(id): a row already revoked or deleted is left as it is.
Revoked(s) ==
  IF Live(s) THEN [sessions EXCEPT ![s].state = "revoked"] ELSE sessions

-----------------------------------------------------------------------------
(* Login and the session it opens                                          *)

\* login: the row of the user with the password given, the current one.
login(r) ==
  /\ user.active
  /\ issued < MaxSessions
  /\ Begin(r, "loginAcademy", [NoLocals EXCEPT !.stamp = user.stamp, !.proof = user.password])
  /\ UNCHANGED <<account, tables, recovery, memory>>

LoginAcademy(r) ==
  /\ pc[r] = "loginAcademy"
  /\ IF academy = "active" THEN Goto(r, "insert") ELSE Finish(r)
  /\ UNCHANGED <<account, tables, recovery, memory>>

\* createSessionWithTokens inserts the row with a hash that no token has ...
SessionInsert(r) ==
  /\ pc[r] = "insert"
  /\ issued < MaxSessions
  /\ issued' = issued + 1
  /\ sessions' = [sessions EXCEPT ![issued'] =
       [NoSession EXCEPT !.state = "live", !.stamp = loc[r].stamp, !.parent = loc[r].from,
                         !.proof = loc[r].proof, !.spared = loc[r].spared]]
  /\ pc' = [pc EXCEPT ![r] = "update"]
  /\ loc' = [loc EXCEPT ![r].sid = issued']
  /\ UNCHANGED <<account, lastClosed, recovery, memory>>

\* Mutant: a refresh puts the new hash into the row it came from.
MutUpdateInPlace(r) ==
  /\ pc[r] = "update"
  /\ LET row == IF loc[r].from # 0 THEN loc[r].from ELSE loc[r].sid IN
       sessions' = [sessions EXCEPT ![row].state = "live", ![row].ready = TRUE,
                                    ![row].spared = loc[r].spared]
  /\ Finish(r)
  /\ UNCHANGED <<account, issued, lastClosed, recovery, memory>>

\* ... and puts in the hash of the refresh token and revoked_at = NULL.
updateRefreshCredentials(r) ==
  /\ pc[r] = "update"
  /\ sessions' = [sessions EXCEPT ![loc[r].sid].state = "live", ![loc[r].sid].ready = TRUE,
                                  ![loc[r].sid].spared = loc[r].spared]
  /\ Finish(r)
  /\ UNCHANGED <<account, issued, lastClosed, recovery, memory>>

-----------------------------------------------------------------------------
(* Refresh                                                                 *)

\* Mutant: no single flight.
MutRefreshNoSingleFlight(r, s) ==
  /\ sessions[s].ready
  /\ Live(s)
  /\ Begin(r, IF sessions[s].fresh THEN "refreshUser" ELSE "reject",
           [NoLocals EXCEPT !.sid = s, !.from = s, !.proof = sessions[s].proof,
                            !.spared = sessions[s].spared])
  /\ UNCHANGED <<account, tables, recovery, memory>>

\* refresh and performRefresh up to the first check: a refresh that finds another
\* one of its session under way shares its outcome, a session that is revoked is
\* refused, one that is idle or past expires_at is revoked.
performRefresh(r, s) ==
  /\ sessions[s].ready
  /\ s \notin Inflight
  /\ Live(s)
  /\ Begin(r, IF sessions[s].fresh THEN "refreshUser" ELSE "reject",
           [NoLocals EXCEPT !.sid = s, !.from = s, !.proof = sessions[s].proof,
                            !.spared = sessions[s].spared])
  /\ UNCHANGED <<account, tables, recovery, memory>>

\* assertUserAndAcademyActive: the user, and the claims of the new tokens ...
RefreshUser(r) ==
  /\ pc[r] = "refreshUser"
  /\ pc' = [pc EXCEPT ![r] = IF user.active THEN "refreshAcademy" ELSE "reject"]
  /\ loc' = [loc EXCEPT ![r].stamp = user.stamp]
  /\ UNCHANGED <<account, tables, recovery, memory>>

\* Mutant: the academy is not looked at.
MutRefreshAcademyUnchecked(r) ==
  /\ pc[r] = "refreshAcademy"
  /\ Goto(r, "rotate")
  /\ UNCHANGED <<account, tables, recovery, memory>>

\* ... and the academy.
RefreshAcademy(r) ==
  /\ pc[r] = "refreshAcademy"
  /\ Goto(r, IF academy = "active" THEN "rotate" ELSE "reject")
  /\ UNCHANGED <<account, tables, recovery, memory>>

\* An error of the database in there is caught like a refusal.
CheckFails(r) ==
  /\ pc[r] \in {"refreshUser", "refreshAcademy"}
  /\ failures < MaxFailures
  /\ failures' = failures + 1
  /\ Goto(r, "reject")
  /\ UNCHANGED <<account, tables, recovery, blacklist>>

RefreshReject(r) ==
  /\ pc[r] = "reject"
  /\ sessions' = Revoked(loc[r].sid)
  /\ Finish(r)
  /\ UNCHANGED <<account, issued, lastClosed, recovery, memory>>

\* Mutant: the new session is opened beside the old one.
MutRotateKeepsOld(r) ==
  /\ pc[r] = "rotate"
  /\ Goto(r, "insert")
  /\ UNCHANGED <<account, tables, recovery, memory>>

\* The session is revoked, if nobody has done it since it was read, and another
\* one is made in any case.
Rotate(r) ==
  /\ pc[r] = "rotate"
  /\ sessions' = Revoked(loc[r].sid)
  /\ Goto(r, "insert")
  /\ UNCHANGED <<account, issued, lastClosed, recovery, memory>>

-----------------------------------------------------------------------------
(* Logout and change of password                                           *)

\* logout of the controller: a session that is no longer live is left alone; the
\* access token is blacklisted once the service has returned.
logout(r, s) ==
  /\ sessions[s].ready
  /\ \/ /\ Live(s)
        /\ Begin(r, "logout", [NoLocals EXCEPT !.sid = s])
        /\ UNCHANGED blacklist
     \/ /\ ~Live(s) /\ pc[r] = "idle" /\ s \notin blacklist
        /\ blacklist' = blacklist \cup {s}
        /\ UNCHANGED slots
  /\ UNCHANGED <<account, tables, recovery, failures>>

LogoutRevoke(r) ==
  /\ pc[r] = "logout"
  /\ sessions' = Revoked(loc[r].sid)
  /\ blacklist' = blacklist \cup {loc[r].sid}
  /\ Finish(r)
  /\ UNCHANGED <<account, issued, lastClosed, recovery, failures>>

\* authenticate lets the request through ...
ChangeAuthenticate(r, s) ==
  /\ Accepts(s)
  /\ writes < MaxWrites
  /\ \E others \in BOOLEAN : Begin(r, "change", [NoLocals EXCEPT !.sid = s, !.others = others])
  /\ UNCHANGED <<account, tables, recovery, memory>>

\* ... and changePassword reads the user: the current password is asked for
\* unless must_change_password is set.
changePassword(r) ==
  /\ pc[r] = "change"
  /\ \/ /\ pc' = [pc EXCEPT ![r] = "changeWrite"]
        /\ loc' = [loc EXCEPT ![r].must = user.must]
     \/ ~user.must /\ Finish(r)  \* not the current password
  /\ UNCHANGED <<account, tables, recovery, memory>>

\* clearMustChangePassword or updatePassword.  The access token used is
\* blacklisted in the end.
ChangeWrite(r) ==
  /\ pc[r] = "changeWrite"
  /\ writes < MaxWrites
  /\ writes' = writes + 1
  /\ user' = [user EXCEPT !.password = writes', !.must = @ /\ ~loc[r].must]
  /\ IF loc[r].others
       THEN Goto(r, "resolve") /\ UNCHANGED blacklist
       ELSE Finish(r) /\ blacklist' = blacklist \cup {loc[r].sid}
  /\ UNCHANGED <<academy, lastReset, tables, recovery, failures>>

\* resolveCurrentSessionId: the session to keep, if it is still live.
resolveCurrentSessionId(r) ==
  /\ pc[r] = "resolve"
  /\ pc' = [pc EXCEPT ![r] = "revokeOthers"]
  /\ loc' = [loc EXCEPT ![r].keep = IF Live(loc[r].sid) THEN loc[r].sid ELSE 0]
  /\ UNCHANGED <<account, tables, recovery, memory>>

\* revokeAllForUserExcept, or revokeAllForUser when there is none to keep.
RevokeOthers(r) ==
  /\ pc[r] = "revokeOthers"
  /\ sessions' = [s \in Ids |-> IF Live(s) /\ s # loc[r].keep
                                  THEN [sessions[s] EXCEPT !.state = "revoked"]
                                  ELSE sessions[s]]
  /\ blacklist' = blacklist \cup {loc[r].sid}
  /\ Finish(r)
  /\ UNCHANGED <<account, issued, lastClosed, recovery, failures>>

-----------------------------------------------------------------------------
(* Closing all the sessions                                                *)

\* Mutant: the sessions are closed but for the newest one.
MutRevokeAllSparesNewest(r) ==
  /\ pc[r] = "revokeAll"
  /\ sessions' = [s \in Ids |-> IF Live(s) /\ s # issued THEN [sessions[s] EXCEPT !.state = "revoked"]
                                                       ELSE sessions[s]]
  /\ lastClosed' = lastReset
  /\ pc' = [pc EXCEPT ![r] = "idle"]
  /\ loc' = [q \in Requests |->
       IF q = r THEN NoLocals
       ELSE [loc[q] EXCEPT !.spared = @ \/ pc[q] \in Granting]]
  /\ UNCHANGED <<account, issued, recovery, memory>>

\* revokeAllForUser and revokeAllForTenant.  What they cannot reach is the session
\* that a request under way has yet to open.
revokeAll(r) ==
  /\ pc[r] = "revokeAll"
  /\ sessions' = [s \in Ids |-> IF Live(s) THEN [sessions[s] EXCEPT !.state = "revoked"]
                                           ELSE sessions[s]]
  /\ lastClosed' = lastReset
  /\ pc' = [pc EXCEPT ![r] = "idle"]
  /\ loc' = [q \in Requests |->
       IF q = r THEN NoLocals
       ELSE [loc[q] EXCEPT !.spared = @ \/ pc[q] \in Granting]]
  /\ UNCHANGED <<account, issued, recovery, memory>>

\* resetPassword by an administrator: updatePasswordWithResetAudit.
resetPassword(r) ==
  /\ writes < MaxWrites
  /\ writes' = writes + 1
  /\ user' = [user EXCEPT !.password = writes', !.must = TRUE, !.stamp = writes']
  /\ lastReset' = writes'
  /\ Begin(r, "revokeAll", NoLocals)
  /\ UNCHANGED <<academy, tables, recovery, memory>>

-----------------------------------------------------------------------------
(* Recovery by a link                                                      *)

\* createReplacingPrevious uses up the links the user has ...
LinkRetire(r) ==
  /\ user.active
  /\ mailed < MaxLinks
  /\ links' = [l \in LinkIds |-> IF Unused(l) THEN [links[l] EXCEPT !.state = "used"]
                                           ELSE links[l]]
  /\ Begin(r, "linkInsert", NoLocals)
  /\ UNCHANGED <<account, tables, mailed, memory>>

\* ... and makes a new one.
LinkInsert(r) ==
  /\ pc[r] = "linkInsert"
  /\ mailed < MaxLinks
  /\ mailed' = mailed + 1
  /\ links' = [links EXCEPT ![mailed'].state = "open"]
  /\ Finish(r)
  /\ UNCHANGED <<account, tables, memory>>

LinkExpires(l) ==
  /\ Redeemable(l)
  /\ links' = [links EXCEPT ![l].state = "expired"]
  /\ UNCHANGED <<account, tables, mailed, slots, memory>>

\* confirm: the link is unused and in time, ...
confirm(r, l) ==
  /\ Redeemable(l)
  /\ writes < MaxWrites
  /\ Begin(r, "confirmUser", [NoLocals EXCEPT !.link = l])
  /\ UNCHANGED <<account, tables, recovery, memory>>

\* ... the user is active, ...
ConfirmUser(r) ==
  /\ pc[r] = "confirmUser"
  /\ IF user.active THEN Goto(r, "claim") ELSE Finish(r)
  /\ UNCHANGED <<account, tables, recovery, memory>>

\* Mutant: the link is marked as used whoever has used it.
MutMarkUsedAnyway(r) ==
  /\ pc[r] = "claim"
  /\ links' = [links EXCEPT ![loc[r].link].state = "used"]
  /\ Goto(r, "confirmWrite")
  /\ UNCHANGED <<account, tables, mailed, memory>>

\* ... the link is still unused (markUsed does not look at its expiry), ...
markUsed(r) ==
  /\ pc[r] = "claim"
  /\ IF Unused(loc[r].link)
       THEN /\ links' = [links EXCEPT ![loc[r].link].state = "used"]
            /\ Goto(r, "confirmWrite")
       ELSE Finish(r) /\ UNCHANGED links
  /\ UNCHANGED <<account, tables, mailed, memory>>

\* ... and the password is stored (updatePasswordAfterRecovery).
ConfirmWrite(r) ==
  /\ pc[r] = "confirmWrite"
  /\ writes < MaxWrites
  /\ writes' = writes + 1
  /\ user' = [user EXCEPT !.password = writes', !.must = FALSE, !.stamp = writes']
  /\ lastReset' = writes'
  /\ links' = [links EXCEPT ![loc[r].link].redeemed = @ + 1]
  /\ Goto(r, "revokeAll")
  /\ UNCHANGED <<academy, tables, mailed, memory>>

-----------------------------------------------------------------------------
(* The locks                                                               *)

\* A lock that is opened has not been closed since any request began.
Unlocked(lock) == [q \in Requests |-> [loc[q] EXCEPT !.shut = @ \ {lock}]]

\* updateUserStatus of either service, with the sessions closed for an inactive user.
deactivateUser(r) ==
  /\ user.active
  /\ user' = [user EXCEPT !.active = FALSE]
  /\ Begin(r, "revokeAll", NoLocals)
  /\ UNCHANGED <<writes, academy, lastReset, tables, recovery, memory>>

\* applyPlayerStatusChange of a player with an account closes no session.
deactivatePlayerUser ==
  /\ user.active
  /\ user' = [user EXCEPT !.active = FALSE]
  /\ UNCHANGED <<writes, academy, lastReset, tables, recovery, slots, memory>>

activateUser ==
  /\ ~user.active
  /\ user' = [user EXCEPT !.active = TRUE]
  /\ loc' = Unlocked("user")
  /\ UNCHANGED <<writes, academy, lastReset, tables, recovery, pc, memory>>

\* updateAcademyStatus and the suspensions by unpaid invoices.
suspendAcademy(r) ==
  /\ academy = "active"
  /\ academy' = "suspended"
  /\ Begin(r, "revokeAll", NoLocals)
  /\ UNCHANGED <<user, writes, lastReset, tables, recovery, memory>>

reactivateAcademy ==
  /\ academy # "active"
  /\ academy' = "active"
  /\ loc' = Unlocked("academy")
  /\ UNCHANGED <<user, writes, lastReset, tables, recovery, pc, memory>>

-----------------------------------------------------------------------------
(* Time, failures and restarts                                             *)

\* An hour without a refresh, or the seven days of expires_at.
SessionAges(s) ==
  /\ sessions[s].ready /\ Live(s) /\ sessions[s].fresh
  /\ sessions' = [sessions EXCEPT ![s].fresh = FALSE]
  /\ UNCHANGED <<account, issued, lastClosed, recovery, slots, memory>>

\* purgeStaleSessions, SESSION_RETENTION_DAYS after the row was of any use: no
\* request is that old.
purgeStaleSessions(s) ==
  /\ sessions[s].state = "revoked"
  /\ \A r \in Requests : s \notin {loc[r].sid, loc[r].from}
  /\ sessions' = [sessions EXCEPT ![s].state = "gone"]
  /\ UNCHANGED <<account, issued, lastClosed, recovery, slots, memory>>

\* A statement fails and the request ends with it.
Fail(r) ==
  /\ pc[r] # "idle"
  /\ failures < MaxFailures
  /\ failures' = failures + 1
  /\ Finish(r)
  /\ UNCHANGED <<account, tables, recovery, blacklist>>

\* The process restarts: its requests and its blacklist are gone.
Restart ==
  /\ failures < MaxFailures
  /\ failures' = failures + 1
  /\ blacklist' = {}
  /\ pc' = [r \in Requests |-> "idle"]
  /\ loc' = [r \in Requests |-> NoLocals]
  /\ UNCHANGED <<account, tables, recovery>>

Next ==
  \/ \E r \in Requests :
       \/ login(r) \/ LoginAcademy(r) \/ SessionInsert(r) \/ updateRefreshCredentials(r)
       \/ RefreshUser(r) \/ RefreshAcademy(r) \/ CheckFails(r) \/ RefreshReject(r) \/ Rotate(r)
       \/ LogoutRevoke(r)
       \/ changePassword(r) \/ ChangeWrite(r) \/ resolveCurrentSessionId(r) \/ RevokeOthers(r)
       \/ resetPassword(r) \/ revokeAll(r)
       \/ LinkRetire(r) \/ LinkInsert(r) \/ ConfirmUser(r) \/ markUsed(r) \/ ConfirmWrite(r)
       \/ deactivateUser(r) \/ suspendAcademy(r)
       \/ Fail(r)
       \/ \E s \in Ids : performRefresh(r, s) \/ logout(r, s) \/ ChangeAuthenticate(r, s)
       \/ \E l \in LinkIds : confirm(r, l)
  \/ deactivatePlayerUser \/ activateUser \/ reactivateAcademy
  \/ \E s \in Ids : SessionAges(s) \/ purgeStaleSessions(s)
  \/ \E l \in LinkIds : LinkExpires(l)
  \/ Restart

Spec == Init /\ [][Next]_vars

-----------------------------------------------------------------------------
(* What has to hold.                                                        *)

Stages == Granting \cup {"idle", "reject", "logout", "change", "changeWrite", "resolve",
                         "revokeOthers", "revokeAll", "linkInsert", "confirmUser", "claim",
                         "confirmWrite"}

\* Type correctness of every variable.
TypeOK ==
  /\ user \in [password : Nat, stamp : Nat, must : BOOLEAN, active : BOOLEAN]
  /\ writes \in Nat
  /\ academy \in {"active", "suspended"}
  /\ sessions \in [Ids -> [state : {"none", "live", "revoked", "gone"}, ready : BOOLEAN,
                           fresh : BOOLEAN, stamp : Nat, parent : Nat, proof : Nat,
                           spared : BOOLEAN]]
  /\ issued \in 0..MaxSessions
  /\ links \in [LinkIds -> [state : {"none", "open", "used", "expired"}, redeemed : Nat]]
  /\ mailed \in 0..MaxLinks
  /\ blacklist \subseteq Ids
  /\ pc \in [Requests -> Stages]
  /\ loc \in [Requests -> [sid : Nat, from : Nat, stamp : Nat, proof : Nat, link : Nat,
                           must : BOOLEAN, keep : Nat, others : BOOLEAN,
                           shut : SUBSET {"user", "academy"}, spared : BOOLEAN]]
  /\ failures \in Nat
  /\ lastReset \in Nat
  /\ lastClosed \in Nat

\* A refresh token is used once, whatever refreshes, logouts and failures
\* overlap: no session is the origin of two.
UsedOnce ==
  \A s, t \in Ids : sessions[s].parent = sessions[t].parent /\ sessions[s].parent # 0 => s = t

\* A session that has been refreshed is over by the time the next one exists, so
\* that one login never holds two sessions.
ParentIsOver ==
  \A s \in Ids : sessions[s].parent # 0 => ~Live(sessions[s].parent)

\* A request that finds the user inactive or the academy suspended when it
\* begins, and all along, opens no session.
LockedOutStaysOut ==
  \A r \in Requests : pc[r] \in Cleared => loc[r].shut = {}

\* After a reset or a recovery, no access token handed out for an older password
\* is taken, even before the sessions are closed and even if that never happens.
\* (Tokens of a refresh: see OldSessionsClosed.)
OldPasswordNeverServes ==
  \A s \in Ids : Accepts(s) /\ sessions[s].parent = 0 => sessions[s].proof >= lastReset

\* Once the sessions are closed after a reset or a recovery, the only live ones
\* from an older password go back to a login or a refresh that was under way at
\* that moment.
OldSessionsClosed ==
  \A s \in Ids : Live(s) /\ sessions[s].ready /\ sessions[s].proof < lastClosed
                   => sessions[s].spared

\* However two redemptions of a link overlap, it changes the password at most once.
LinkRedeemedOnce == \A l \in LinkIds : links[l].redeemed <= 1

\* Revoking a session whose tokens have been handed out is final: nothing brings
\* it back, the revoked_at = NULL of updateRefreshCredentials included.
RevocationIsFinal ==
  [][\A s \in Ids : sessions[s].ready /\ ~Live(s) => ~Live(s)']_vars
=============================================================================
