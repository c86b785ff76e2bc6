--------------------------- MODULE SessionsProofs ---------------------------
(***************************************************************************)
(* What holds of Sessions for any number of concurrent requests, sessions, *)
(* passwords, links, failures and restarts.                                *)
(***************************************************************************)
EXTENDS Sessions, TLAPS

SessionRows == [state : {"none", "live", "revoked", "gone"}, ready : BOOLEAN, fresh : BOOLEAN,
                stamp : Nat, parent : Nat, proof : Nat, spared : BOOLEAN]
Locals == [sid : Nat, from : Nat, stamp : Nat, proof : Nat, link : Nat, must : BOOLEAN,
           keep : Nat, others : BOOLEAN, shut : SUBSET {"user", "academy"}, spared : BOOLEAN]
Links == [state : {"none", "open", "used", "expired"}, redeemed : Nat]
Users == [password : Nat, stamp : Nat, must : BOOLEAN, active : BOOLEAN]

\* A request that acts on a session holds one.
Holding == {"logout", "change", "changeWrite", "resolve", "revokeOthers"}
Refs == \A r \in Requests : pc[r] \in Holding => loc[r].sid \in Ids

LEMMA EmptyTypes == NoLocals \in Locals /\ NoSession \in SessionRows /\ NoLink \in Links
BY DEF NoLocals, Locals, NoSession, SessionRows, NoLink, Links

\* The locks closed are a set of locks.
LEMMA ShutType == Shut \in SUBSET {"user", "academy"}
BY DEF Shut

\* A request that begins leaves the slots well typed.
LEMMA BeginType ==
  ASSUME NEW r \in Requests, NEW stage \in Stages, NEW locals \in Locals,
         pc \in [Requests -> Stages], loc \in [Requests -> Locals], Begin(r, stage, locals)
  PROVE  pc' \in [Requests -> Stages] /\ loc' \in [Requests -> Locals]
<1>1. [locals EXCEPT !.shut = Shut] \in Locals
  BY ShutType DEF Locals
<1> QED
  BY <1>1 DEF Begin

\* So does one that ends or goes on.
LEMMA FinishType ==
  ASSUME NEW r \in Requests, pc \in [Requests -> Stages], loc \in [Requests -> Locals], Finish(r)
  PROVE  pc' \in [Requests -> Stages] /\ loc' \in [Requests -> Locals]
BY EmptyTypes DEF Finish, Stages

LEMMA GotoType ==
  ASSUME NEW r \in Requests, NEW stage \in Stages,
         pc \in [Requests -> Stages], loc \in [Requests -> Locals], Goto(r, stage)
  PROVE  pc' \in [Requests -> Stages] /\ loc' \in [Requests -> Locals]
BY DEF Goto

LEMMA RevokedType ==
  ASSUME NEW s, sessions \in [Ids -> SessionRows]
  PROVE  Revoked(s) \in [Ids -> SessionRows]
<1>1. \A t \in Ids : [sessions[t] EXCEPT !.state = "revoked"] \in SessionRows
  BY DEF SessionRows
<1> QED
  BY <1>1 DEF Revoked, Live
\* A request's own values stay well typed one by one.
LEMMA LocalsUpdates ==
  ASSUME NEW k \in Locals
  PROVE  /\ \A n \in Nat : /\ [k EXCEPT !.sid = n] \in Locals
                          /\ [k EXCEPT !.stamp = n] \in Locals
                          /\ [k EXCEPT !.keep = n] \in Locals
                          /\ [k EXCEPT !.link = n] \in Locals
         /\ \A b \in BOOLEAN : /\ [k EXCEPT !.must = b] \in Locals
                              /\ [k EXCEPT !.spared = b] \in Locals
         /\ \A locks : [k EXCEPT !.shut = @ \ locks] \in Locals
         /\ \A n, m \in Nat : [k EXCEPT !.stamp = n, !.proof = m] \in Locals
         /\ \A n \in Nat, b \in BOOLEAN : [k EXCEPT !.sid = n, !.others = b] \in Locals
         /\ \A n, m \in Nat, b \in BOOLEAN :
              [k EXCEPT !.sid = n, !.from = n, !.proof = m, !.spared = b] \in Locals
<1>1. \A locks : k.shut \ locks \in SUBSET {"user", "academy"}
  BY DEF Locals
<1> QED
  BY <1>1 DEF Locals

\* Every step leaves the slots well typed.
LEMMA SlotsTyped ==
  ASSUME TypeOK, [Next]_vars
  PROVE  pc' \in [Requests -> Stages] /\ loc' \in [Requests -> Locals]
<1> DEFINE Goal == pc' \in [Requests -> Stages] /\ loc' \in [Requests -> Locals]
<1> SUFFICES Goal
  OBVIOUS
<1>0. /\ pc \in [Requests -> Stages] /\ loc \in [Requests -> Locals]
      /\ sessions \in [Ids -> SessionRows] /\ user.stamp \in Nat /\ user.password \in Nat
      /\ user.must \in BOOLEAN /\ issued \in Nat
      /\ \A r \in Requests : loc[r].sid \in Nat
      /\ \A s \in Ids : s \in Nat /\ sessions[s].proof \in Nat /\ sessions[s].spared \in BOOLEAN
      /\ \A l \in LinkIds : l \in Nat
  <2>1. /\ pc \in [Requests -> Stages] /\ loc \in [Requests -> Locals]
        /\ sessions \in [Ids -> SessionRows] /\ user \in Users /\ issued \in 0..MaxSessions
    BY DEF TypeOK, Locals, SessionRows, Users
  <2>2. \A s \in Ids : sessions[s].proof \in Nat /\ sessions[s].spared \in BOOLEAN
    BY <2>1 DEF SessionRows
  <2>3. \A r \in Requests : loc[r].sid \in Nat
    BY <2>1 DEF Locals
  <2> QED
    BY <2>1, <2>2, <2>3 DEF Users, Ids, LinkIds
<1>1. ASSUME NEW r \in Requests, login(r) PROVE Goal
  BY <1>1, <1>0, BeginType, LocalsUpdates, EmptyTypes DEF login, Stages, Granting
<1>2. ASSUME NEW r \in Requests, LoginAcademy(r) PROVE Goal
  BY <1>2, <1>0, GotoType, FinishType DEF LoginAcademy, Stages, Granting
<1>3. ASSUME NEW r \in Requests, SessionInsert(r) PROVE Goal
  <2>1. issued' \in Nat /\ loc[r] \in Locals
    BY <1>3, <1>0 DEF SessionInsert
  <2>2. [loc[r] EXCEPT !.sid = issued'] \in Locals
    BY <2>1, LocalsUpdates
  <2> QED
    BY <1>3, <1>0, <2>2 DEF SessionInsert, Stages, Granting
<1>4. ASSUME NEW r \in Requests, updateRefreshCredentials(r) PROVE Goal
  BY <1>4, <1>0, FinishType DEF updateRefreshCredentials
<1>5. ASSUME NEW r \in Requests, RefreshUser(r) PROVE Goal
  BY <1>5, <1>0, LocalsUpdates DEF RefreshUser, Stages, Granting
<1>6. ASSUME NEW r \in Requests, RefreshAcademy(r) PROVE Goal
  BY <1>6, <1>0, GotoType, FinishType DEF RefreshAcademy, Stages, Granting
<1>7. ASSUME NEW r \in Requests, CheckFails(r) PROVE Goal
  BY <1>7, <1>0, GotoType, FinishType DEF CheckFails, Stages, Granting
<1>8. ASSUME NEW r \in Requests, RefreshReject(r) PROVE Goal
  BY <1>8, <1>0, FinishType DEF RefreshReject
<1>9. ASSUME NEW r \in Requests, Rotate(r) PROVE Goal
  BY <1>9, <1>0, GotoType, FinishType DEF Rotate, Stages, Granting
<1>10. ASSUME NEW r \in Requests, LogoutRevoke(r) PROVE Goal
  BY <1>10, <1>0, FinishType DEF LogoutRevoke
<1>11. ASSUME NEW r \in Requests, changePassword(r) PROVE Goal
  <2>1. [loc[r] EXCEPT !.must = user.must] \in Locals
    BY <1>0, LocalsUpdates
  <2> QED
    BY <1>11, <2>1, <1>0, FinishType DEF changePassword, Stages, Granting
<1>12. ASSUME NEW r \in Requests, ChangeWrite(r) PROVE Goal
  BY <1>12, <1>0, GotoType, FinishType DEF ChangeWrite, Stages, Granting
<1>13. ASSUME NEW r \in Requests, resolveCurrentSessionId(r) PROVE Goal
  BY <1>13, <1>0, LocalsUpdates DEF resolveCurrentSessionId, Stages, Granting
<1>14. ASSUME NEW r \in Requests, RevokeOthers(r) PROVE Goal
  BY <1>14, <1>0, FinishType DEF RevokeOthers
<1>15. ASSUME NEW r \in Requests, resetPassword(r) PROVE Goal
  BY <1>15, <1>0, BeginType, LocalsUpdates, EmptyTypes DEF resetPassword, Stages, Granting
<1>16. ASSUME NEW r \in Requests, revokeAll(r) PROVE Goal
  BY <1>16, <1>0, LocalsUpdates, EmptyTypes DEF revokeAll, Stages
<1>17. ASSUME NEW r \in Requests, LinkRetire(r) PROVE Goal
  BY <1>17, <1>0, BeginType, LocalsUpdates, EmptyTypes DEF LinkRetire, Stages, Granting
<1>18. ASSUME NEW r \in Requests, LinkInsert(r) PROVE Goal
  BY <1>18, <1>0, FinishType DEF LinkInsert
<1>19. ASSUME NEW r \in Requests, ConfirmUser(r) PROVE Goal
  BY <1>19, <1>0, GotoType, FinishType DEF ConfirmUser, Stages, Granting
<1>20. ASSUME NEW r \in Requests, markUsed(r) PROVE Goal
  BY <1>20, <1>0, GotoType, FinishType DEF markUsed, Stages, Granting
<1>21. ASSUME NEW r \in Requests, ConfirmWrite(r) PROVE Goal
  BY <1>21, <1>0, GotoType, FinishType DEF ConfirmWrite, Stages, Granting
<1>22. ASSUME NEW r \in Requests, deactivateUser(r) PROVE Goal
  BY <1>22, <1>0, BeginType, LocalsUpdates, EmptyTypes DEF deactivateUser, Stages, Granting
<1>23. ASSUME NEW r \in Requests, suspendAcademy(r) PROVE Goal
  BY <1>23, <1>0, BeginType, LocalsUpdates, EmptyTypes DEF suspendAcademy, Stages, Granting
<1>24. ASSUME NEW r \in Requests, Fail(r) PROVE Goal
  BY <1>24, <1>0, FinishType DEF Fail
<1>25. ASSUME NEW r \in Requests, NEW s \in Ids, performRefresh(r, s) PROVE Goal
  BY <1>25, <1>0, BeginType, LocalsUpdates, EmptyTypes DEF performRefresh, Stages, Granting, Ids
<1>26. ASSUME NEW r \in Requests, NEW s \in Ids, logout(r, s) PROVE Goal
  BY <1>26, <1>0, BeginType, LocalsUpdates, EmptyTypes DEF logout, Stages, Granting, slots, Ids
<1>27. ASSUME NEW r \in Requests, NEW s \in Ids, ChangeAuthenticate(r, s) PROVE Goal
  BY <1>27, <1>0, BeginType, LocalsUpdates, EmptyTypes DEF ChangeAuthenticate, Stages, Granting, Ids
<1>28. ASSUME NEW r \in Requests, NEW l \in LinkIds, confirm(r, l) PROVE Goal
  BY <1>28, <1>0, BeginType, LocalsUpdates, EmptyTypes DEF confirm, Stages, Granting, LinkIds
<1>29. CASE deactivatePlayerUser
  BY <1>29, <1>0 DEF deactivatePlayerUser, slots
<1>30. CASE activateUser
  BY <1>30, <1>0, LocalsUpdates DEF activateUser, Unlocked
<1>31. CASE reactivateAcademy
  BY <1>31, <1>0, LocalsUpdates DEF reactivateAcademy, Unlocked
<1>32. CASE Restart
  BY <1>32, EmptyTypes DEF Restart, Stages
<1>33. ASSUME NEW s \in Ids, SessionAges(s) PROVE Goal
  BY <1>33, <1>0 DEF SessionAges, slots
<1>34. ASSUME NEW s \in Ids, purgeStaleSessions(s) PROVE Goal
  BY <1>34, <1>0 DEF purgeStaleSessions, slots
<1>35. ASSUME NEW l \in LinkIds, LinkExpires(l) PROVE Goal
  BY <1>35, <1>0 DEF LinkExpires, slots
<1>36. CASE UNCHANGED vars
  BY <1>36, <1>0 DEF vars
<1> QED
  BY <1>1, <1>2, <1>3, <1>4, <1>5, <1>6, <1>7, <1>8, <1>9, <1>10, <1>11, <1>12, <1>13, <1>14,
     <1>15, <1>16, <1>17, <1>18, <1>19, <1>20, <1>21, <1>22, <1>23, <1>24, <1>25, <1>26, <1>27,
        <1>28, <1>29, <1>30, <1>31, <1>32, <1>33, <1>34, <1>35, <1>36 DEF Next

\* A row stays well typed column by column.
LEMMA RowUpdates ==
  /\ \A row \in SessionRows :
       /\ [row EXCEPT !.state = "revoked"] \in SessionRows
       /\ [row EXCEPT !.state = "gone"] \in SessionRows
       /\ [row EXCEPT !.fresh = FALSE] \in SessionRows
       /\ \A b \in BOOLEAN :
            [row EXCEPT !.state = "live", !.ready = TRUE, !.spared = b] \in SessionRows
  /\ \A n, m, p \in Nat, b \in BOOLEAN :
       [NoSession EXCEPT !.state = "live", !.stamp = n, !.parent = m, !.proof = p, !.spared = b]
         \in SessionRows
BY DEF SessionRows, NoSession

\* Every step leaves the rows of user_sessions well typed.
LEMMA TablesTyped ==
  ASSUME TypeOK, [Next]_vars
  PROVE  sessions' \in [Ids -> SessionRows] /\ issued' \in 0..MaxSessions /\ lastClosed' \in Nat
<1> DEFINE Goal == sessions' \in [Ids -> SessionRows] /\ issued' \in 0..MaxSessions /\ lastClosed' \in Nat
<1> SUFFICES Goal
  OBVIOUS
<1>0. /\ loc \in [Requests -> Locals] /\ sessions \in [Ids -> SessionRows]
      /\ issued \in 0..MaxSessions /\ lastClosed \in Nat /\ lastReset \in Nat /\ MaxSessions \in Nat
      /\ \A r \in Requests : /\ loc[r].stamp \in Nat /\ loc[r].from \in Nat /\ loc[r].proof \in Nat
                              /\ loc[r].spared \in BOOLEAN
  BY BoundsAssumption DEF TypeOK, Locals, SessionRows
<1>1. ASSUME NEW r \in Requests, login(r) PROVE Goal
  BY <1>1, <1>0 DEF login, tables
<1>2. ASSUME NEW r \in Requests, LoginAcademy(r) PROVE Goal
  BY <1>2, <1>0 DEF LoginAcademy, tables
<1>3. ASSUME NEW r \in Requests, SessionInsert(r) PROVE Goal
  <2>1. issued' \in Ids /\ issued' \in 0..MaxSessions
    BY <1>3, <1>0 DEF SessionInsert, Ids
  <2>2. [NoSession EXCEPT !.state = "live", !.stamp = loc[r].stamp, !.parent = loc[r].from,
                          !.proof = loc[r].proof, !.spared = loc[r].spared] \in SessionRows
    BY <1>0, RowUpdates
  <2> QED
    BY <1>3, <1>0, <2>1, <2>2 DEF SessionInsert
<1>4. ASSUME NEW r \in Requests, updateRefreshCredentials(r) PROVE Goal
  BY <1>4, <1>0, RowUpdates DEF updateRefreshCredentials
<1>5. ASSUME NEW r \in Requests, RefreshUser(r) PROVE Goal
  BY <1>5, <1>0 DEF RefreshUser, tables
<1>6. ASSUME NEW r \in Requests, RefreshAcademy(r) PROVE Goal
  BY <1>6, <1>0 DEF RefreshAcademy, tables
<1>7. ASSUME NEW r \in Requests, CheckFails(r) PROVE Goal
  BY <1>7, <1>0 DEF CheckFails, tables
<1>8. ASSUME NEW r \in Requests, RefreshReject(r) PROVE Goal
  BY <1>8, <1>0, RevokedType DEF RefreshReject
<1>9. ASSUME NEW r \in Requests, Rotate(r) PROVE Goal
  BY <1>9, <1>0, RevokedType DEF Rotate
<1>10. ASSUME NEW r \in Requests, LogoutRevoke(r) PROVE Goal
  BY <1>10, <1>0, RevokedType DEF LogoutRevoke
<1>11. ASSUME NEW r \in Requests, changePassword(r) PROVE Goal
  BY <1>11, <1>0 DEF changePassword, tables
<1>12. ASSUME NEW r \in Requests, ChangeWrite(r) PROVE Goal
  BY <1>12, <1>0 DEF ChangeWrite, tables
<1>13. ASSUME NEW r \in Requests, resolveCurrentSessionId(r) PROVE Goal
  BY <1>13, <1>0 DEF resolveCurrentSessionId, tables
<1>14. ASSUME NEW r \in Requests, RevokeOthers(r) PROVE Goal
  BY <1>14, <1>0, RowUpdates DEF RevokeOthers
<1>15. ASSUME NEW r \in Requests, resetPassword(r) PROVE Goal
  BY <1>15, <1>0 DEF resetPassword, tables
<1>16. ASSUME NEW r \in Requests, revokeAll(r) PROVE Goal
  BY <1>16, <1>0, RowUpdates DEF revokeAll
<1>17. ASSUME NEW r \in Requests, LinkRetire(r) PROVE Goal
  BY <1>17, <1>0 DEF LinkRetire, tables
<1>18. ASSUME NEW r \in Requests, LinkInsert(r) PROVE Goal
  BY <1>18, <1>0 DEF LinkInsert, tables
<1>19. ASSUME NEW r \in Requests, ConfirmUser(r) PROVE Goal
  BY <1>19, <1>0 DEF ConfirmUser, tables
<1>20. ASSUME NEW r \in Requests, markUsed(r) PROVE Goal
  BY <1>20, <1>0 DEF markUsed, tables
<1>21. ASSUME NEW r \in Requests, ConfirmWrite(r) PROVE Goal
  BY <1>21, <1>0 DEF ConfirmWrite, tables
<1>22. ASSUME NEW r \in Requests, deactivateUser(r) PROVE Goal
  BY <1>22, <1>0 DEF deactivateUser, tables
<1>23. ASSUME NEW r \in Requests, suspendAcademy(r) PROVE Goal
  BY <1>23, <1>0 DEF suspendAcademy, tables
<1>24. ASSUME NEW r \in Requests, Fail(r) PROVE Goal
  BY <1>24, <1>0 DEF Fail, tables
<1>25. ASSUME NEW r \in Requests, NEW s \in Ids, performRefresh(r, s) PROVE Goal
  BY <1>25, <1>0 DEF performRefresh, tables
<1>26. ASSUME NEW r \in Requests, NEW s \in Ids, logout(r, s) PROVE Goal
  BY <1>26, <1>0 DEF logout, tables
<1>27. ASSUME NEW r \in Requests, NEW s \in Ids, ChangeAuthenticate(r, s) PROVE Goal
  BY <1>27, <1>0 DEF ChangeAuthenticate, tables
<1>28. ASSUME NEW r \in Requests, NEW l \in LinkIds, confirm(r, l) PROVE Goal
  BY <1>28, <1>0 DEF confirm, tables
<1>29. CASE deactivatePlayerUser
  BY <1>29, <1>0 DEF deactivatePlayerUser, tables
<1>30. CASE activateUser
  BY <1>30, <1>0 DEF activateUser, tables
<1>31. CASE reactivateAcademy
  BY <1>31, <1>0 DEF reactivateAcademy, tables
<1>32. CASE Restart
  BY <1>32, <1>0 DEF Restart, tables
<1>33. ASSUME NEW s \in Ids, SessionAges(s) PROVE Goal
  BY <1>33, <1>0, RowUpdates DEF SessionAges
<1>34. ASSUME NEW s \in Ids, purgeStaleSessions(s) PROVE Goal
  BY <1>34, <1>0, RowUpdates DEF purgeStaleSessions
<1>35. ASSUME NEW l \in LinkIds, LinkExpires(l) PROVE Goal
  BY <1>35, <1>0 DEF LinkExpires, tables
<1>36. CASE UNCHANGED vars
  BY <1>36, <1>0 DEF vars
<1> QED
  BY <1>1, <1>2, <1>3, <1>4, <1>5, <1>6, <1>7, <1>8, <1>9, <1>10, <1>11, <1>12, <1>13, <1>14,
     <1>15, <1>16, <1>17, <1>18, <1>19, <1>20, <1>21, <1>22, <1>23, <1>24, <1>25, <1>26, <1>27,
        <1>28, <1>29, <1>30, <1>31, <1>32, <1>33, <1>34, <1>35, <1>36 DEF Next

\* The session a request acts on is a row of the table.
LEMMA RefsStep ==
  ASSUME TypeOK, Refs, [Next]_vars
  PROVE  Refs'
<1> SUFFICES ASSUME NEW q \in Requests, pc'[q] \in Holding PROVE loc'[q].sid \in Ids
  BY DEF Refs
<1> DEFINE Goal == loc'[q].sid \in Ids
<1>0. /\ pc \in [Requests -> Stages] /\ loc \in [Requests -> Locals]
      /\ pc[q] \in Holding => loc[q].sid \in Ids
  BY DEF TypeOK, Locals, Refs
<1>1. ASSUME NEW r \in Requests, login(r) PROVE Goal
  BY <1>1, <1>0 DEF login, Begin, Goto, Finish, Holding, Locals, NoLocals, slots, Unlocked,
     Stages, Granting
<1>2. ASSUME NEW r \in Requests, LoginAcademy(r) PROVE Goal
  BY <1>2, <1>0 DEF LoginAcademy, Begin, Goto, Finish, Holding, Locals, NoLocals, slots, Unlocked,
     Stages, Granting
<1>3. ASSUME NEW r \in Requests, SessionInsert(r) PROVE Goal
  BY <1>3, <1>0 DEF SessionInsert, Begin, Goto, Finish, Holding, Locals, NoLocals, slots,
     Unlocked, Stages, Granting
<1>4. ASSUME NEW r \in Requests, updateRefreshCredentials(r) PROVE Goal
  BY <1>4, <1>0 DEF updateRefreshCredentials, Begin, Goto, Finish, Holding, Locals, NoLocals,
     slots, Unlocked, Stages, Granting
<1>5. ASSUME NEW r \in Requests, RefreshUser(r) PROVE Goal
  BY <1>5, <1>0 DEF RefreshUser, Begin, Goto, Finish, Holding, Locals, NoLocals, slots, Unlocked,
     Stages, Granting
<1>6. ASSUME NEW r \in Requests, RefreshAcademy(r) PROVE Goal
  BY <1>6, <1>0 DEF RefreshAcademy, Begin, Goto, Finish, Holding, Locals, NoLocals, slots,
     Unlocked, Stages, Granting
<1>7. ASSUME NEW r \in Requests, CheckFails(r) PROVE Goal
  BY <1>7, <1>0 DEF CheckFails, Begin, Goto, Finish, Holding, Locals, NoLocals, slots, Unlocked,
     Stages, Granting
<1>8. ASSUME NEW r \in Requests, RefreshReject(r) PROVE Goal
  BY <1>8, <1>0 DEF RefreshReject, Begin, Goto, Finish, Holding, Locals, NoLocals, slots,
     Unlocked, Stages, Granting
<1>9. ASSUME NEW r \in Requests, Rotate(r) PROVE Goal
  BY <1>9, <1>0 DEF Rotate, Begin, Goto, Finish, Holding, Locals, NoLocals, slots, Unlocked,
     Stages, Granting
<1>10. ASSUME NEW r \in Requests, LogoutRevoke(r) PROVE Goal
  BY <1>10, <1>0 DEF LogoutRevoke, Begin, Goto, Finish, Holding, Locals, NoLocals, slots,
     Unlocked, Stages, Granting
<1>11. ASSUME NEW r \in Requests, changePassword(r) PROVE Goal
  BY <1>11, <1>0 DEF changePassword, Begin, Goto, Finish, Holding, Locals, NoLocals, slots,
     Unlocked, Stages, Granting
<1>12. ASSUME NEW r \in Requests, ChangeWrite(r) PROVE Goal
  BY <1>12, <1>0 DEF ChangeWrite, Begin, Goto, Finish, Holding, Locals, NoLocals, slots, Unlocked,
     Stages, Granting
<1>13. ASSUME NEW r \in Requests, resolveCurrentSessionId(r) PROVE Goal
  BY <1>13, <1>0 DEF resolveCurrentSessionId, Begin, Goto, Finish, Holding, Locals, NoLocals,
     slots, Unlocked, Stages, Granting
<1>14. ASSUME NEW r \in Requests, RevokeOthers(r) PROVE Goal
  BY <1>14, <1>0 DEF RevokeOthers, Begin, Goto, Finish, Holding, Locals, NoLocals, slots,
     Unlocked, Stages, Granting
<1>15. ASSUME NEW r \in Requests, resetPassword(r) PROVE Goal
  BY <1>15, <1>0 DEF resetPassword, Begin, Goto, Finish, Holding, Locals, NoLocals, slots,
     Unlocked, Stages, Granting
<1>16. ASSUME NEW r \in Requests, revokeAll(r) PROVE Goal
  BY <1>16, <1>0 DEF revokeAll, Begin, Goto, Finish, Holding, Locals, NoLocals, slots, Unlocked,
     Stages, Granting
<1>17. ASSUME NEW r \in Requests, LinkRetire(r) PROVE Goal
  BY <1>17, <1>0 DEF LinkRetire, Begin, Goto, Finish, Holding, Locals, NoLocals, slots, Unlocked,
     Stages, Granting
<1>18. ASSUME NEW r \in Requests, LinkInsert(r) PROVE Goal
  BY <1>18, <1>0 DEF LinkInsert, Begin, Goto, Finish, Holding, Locals, NoLocals, slots, Unlocked,
     Stages, Granting
<1>19. ASSUME NEW r \in Requests, ConfirmUser(r) PROVE Goal
  BY <1>19, <1>0 DEF ConfirmUser, Begin, Goto, Finish, Holding, Locals, NoLocals, slots, Unlocked,
     Stages, Granting
<1>20. ASSUME NEW r \in Requests, markUsed(r) PROVE Goal
  BY <1>20, <1>0 DEF markUsed, Begin, Goto, Finish, Holding, Locals, NoLocals, slots, Unlocked,
     Stages, Granting
<1>21. ASSUME NEW r \in Requests, ConfirmWrite(r) PROVE Goal
  BY <1>21, <1>0 DEF ConfirmWrite, Begin, Goto, Finish, Holding, Locals, NoLocals, slots,
     Unlocked, Stages, Granting
<1>22. ASSUME NEW r \in Requests, deactivateUser(r) PROVE Goal
  BY <1>22, <1>0 DEF deactivateUser, Begin, Goto, Finish, Holding, Locals, NoLocals, slots,
     Unlocked, Stages, Granting
<1>23. ASSUME NEW r \in Requests, suspendAcademy(r) PROVE Goal
  BY <1>23, <1>0 DEF suspendAcademy, Begin, Goto, Finish, Holding, Locals, NoLocals, slots,
     Unlocked, Stages, Granting
<1>24. ASSUME NEW r \in Requests, Fail(r) PROVE Goal
  BY <1>24, <1>0 DEF Fail, Begin, Goto, Finish, Holding, Locals, NoLocals, slots, Unlocked,
     Stages, Granting
<1>25. ASSUME NEW r \in Requests, NEW s \in Ids, performRefresh(r, s) PROVE Goal
  BY <1>25, <1>0 DEF performRefresh, Begin, Goto, Finish, Holding, Locals, NoLocals, slots,
     Unlocked, Stages, Granting
<1>26. ASSUME NEW r \in Requests, NEW s \in Ids, logout(r, s) PROVE Goal
  <2>1. CASE UNCHANGED slots
    BY <1>26, <2>1, <1>0 DEF slots
  <2>2. CASE Begin(r, "logout", [NoLocals EXCEPT !.sid = s])
    BY <1>26, <2>2, <1>0 DEF Begin, Locals, NoLocals
  <2> QED
    BY <1>26, <2>1, <2>2 DEF logout
<1>27. ASSUME NEW r \in Requests, NEW s \in Ids, ChangeAuthenticate(r, s) PROVE Goal
  BY <1>27, <1>0 DEF ChangeAuthenticate, Begin, Goto, Finish, Holding, Locals, NoLocals, slots,
     Unlocked, Stages, Granting
<1>28. ASSUME NEW r \in Requests, NEW l \in LinkIds, confirm(r, l) PROVE Goal
  BY <1>28, <1>0 DEF confirm, Begin, Goto, Finish, Holding, Locals, NoLocals, slots, Unlocked,
     Stages, Granting
<1>29. CASE deactivatePlayerUser
  BY <1>29, <1>0 DEF deactivatePlayerUser, Begin, Goto, Finish, Holding, Locals, NoLocals, slots,
     Unlocked, Stages, Granting
<1>30. CASE activateUser
  BY <1>30, <1>0 DEF activateUser, Begin, Goto, Finish, Holding, Locals, NoLocals, slots,
     Unlocked, Stages, Granting
<1>31. CASE reactivateAcademy
  BY <1>31, <1>0 DEF reactivateAcademy, Begin, Goto, Finish, Holding, Locals, NoLocals, slots,
     Unlocked, Stages, Granting
<1>32. CASE Restart
  BY <1>32, <1>0 DEF Restart, Begin, Goto, Finish, Holding, Locals, NoLocals, slots, Unlocked,
     Stages, Granting
<1>33. ASSUME NEW s \in Ids, SessionAges(s) PROVE Goal
  BY <1>33, <1>0 DEF SessionAges, Begin, Goto, Finish, Holding, Locals, NoLocals, slots, Unlocked,
     Stages, Granting
<1>34. ASSUME NEW s \in Ids, purgeStaleSessions(s) PROVE Goal
  BY <1>34, <1>0 DEF purgeStaleSessions, Begin, Goto, Finish, Holding, Locals, NoLocals, slots,
     Unlocked, Stages, Granting
<1>35. ASSUME NEW l \in LinkIds, LinkExpires(l) PROVE Goal
  BY <1>35, <1>0 DEF LinkExpires, Begin, Goto, Finish, Holding, Locals, NoLocals, slots, Unlocked,
     Stages, Granting
<1>36. CASE UNCHANGED vars
  BY <1>36, <1>0 DEF vars
<1> QED
  BY <1>1, <1>2, <1>3, <1>4, <1>5, <1>6, <1>7, <1>8, <1>9, <1>10, <1>11, <1>12, <1>13, <1>14,
     <1>15, <1>16, <1>17, <1>18, <1>19, <1>20, <1>21, <1>22, <1>23, <1>24, <1>25, <1>26, <1>27,
        <1>28, <1>29, <1>30, <1>31, <1>32, <1>33, <1>34, <1>35, <1>36 DEF Next

\* So do the columns of the account ...
LEMMA UserUpdates ==
  ASSUME NEW u \in Users
  PROVE  /\ \A w \in Nat : /\ [u EXCEPT !.password = w, !.must = TRUE, !.stamp = w] \in Users
                          /\ [u EXCEPT !.password = w, !.must = FALSE, !.stamp = w] \in Users
         /\ \A w \in Nat, b \in BOOLEAN :
              [u EXCEPT !.password = w, !.must = @ /\ ~b] \in Users
         /\ [u EXCEPT !.active = TRUE] \in Users /\ [u EXCEPT !.active = FALSE] \in Users
<1>1. \A b \in BOOLEAN : (u.must /\ ~b) \in BOOLEAN
  OBVIOUS
<1> QED
  BY <1>1 DEF Users

\* ... and of a link.
LEMMA LinkUpdates ==
  ASSUME NEW l \in Links
  PROVE  /\ [l EXCEPT !.state = "used"] \in Links
         /\ [l EXCEPT !.state = "open"] \in Links
         /\ [l EXCEPT !.state = "expired"] \in Links
         /\ [l EXCEPT !.redeemed = @ + 1] \in Links
BY DEF Links

\* Every step leaves the rest of the state well typed.
LEMMA RestTyped ==
  ASSUME TypeOK, Refs, [Next]_vars
  PROVE  /\ user' \in Users
         /\ writes' \in Nat /\ lastReset' \in Nat /\ failures' \in Nat
         /\ academy' \in {"active", "suspended"}
         /\ links' \in [LinkIds -> Links] /\ mailed' \in 0..MaxLinks
         /\ blacklist' \subseteq Ids
<1> DEFINE Goal == /\ user' \in Users
                   /\ writes' \in Nat /\ lastReset' \in Nat /\ failures' \in Nat
                   /\ academy' \in {"active", "suspended"}
                   /\ links' \in [LinkIds -> Links] /\ mailed' \in 0..MaxLinks
                   /\ blacklist' \subseteq Ids
<1> SUFFICES Goal
  OBVIOUS
<1>0. /\ user \in Users
      /\ writes \in Nat /\ lastReset \in Nat /\ failures \in Nat
      /\ academy \in {"active", "suspended"}
      /\ links \in [LinkIds -> Links] /\ mailed \in 0..MaxLinks /\ MaxLinks \in Nat
      /\ blacklist \subseteq Ids
      /\ \A r \in Requests : loc[r].must \in BOOLEAN
      /\ \A r \in Requests : pc[r] \in Holding => loc[r].sid \in Ids
  BY BoundsAssumption DEF TypeOK, Users, Links, Refs, Locals
<1>1. ASSUME NEW r \in Requests, login(r) PROVE Goal
  BY <1>1, <1>0 DEF login, account, recovery, memory, Holding
<1>2. ASSUME NEW r \in Requests, LoginAcademy(r) PROVE Goal
  BY <1>2, <1>0 DEF LoginAcademy, account, recovery, memory, Holding
<1>3. ASSUME NEW r \in Requests, SessionInsert(r) PROVE Goal
  BY <1>3, <1>0 DEF SessionInsert, account, recovery, memory, Holding
<1>4. ASSUME NEW r \in Requests, updateRefreshCredentials(r) PROVE Goal
  BY <1>4, <1>0 DEF updateRefreshCredentials, account, recovery, memory, Holding
<1>5. ASSUME NEW r \in Requests, RefreshUser(r) PROVE Goal
  BY <1>5, <1>0 DEF RefreshUser, account, recovery, memory, Holding
<1>6. ASSUME NEW r \in Requests, RefreshAcademy(r) PROVE Goal
  BY <1>6, <1>0 DEF RefreshAcademy, account, recovery, memory, Holding
<1>7. ASSUME NEW r \in Requests, CheckFails(r) PROVE Goal
  BY <1>7, <1>0 DEF CheckFails, account, recovery, memory, Holding
<1>8. ASSUME NEW r \in Requests, RefreshReject(r) PROVE Goal
  BY <1>8, <1>0 DEF RefreshReject, account, recovery, memory, Holding
<1>9. ASSUME NEW r \in Requests, Rotate(r) PROVE Goal
  BY <1>9, <1>0 DEF Rotate, account, recovery, memory, Holding
<1>10. ASSUME NEW r \in Requests, LogoutRevoke(r) PROVE Goal
  BY <1>10, <1>0 DEF LogoutRevoke, account, recovery, memory, Holding
<1>11. ASSUME NEW r \in Requests, changePassword(r) PROVE Goal
  BY <1>11, <1>0 DEF changePassword, account, recovery, memory, Holding
<1>12. ASSUME NEW r \in Requests, ChangeWrite(r) PROVE Goal
  <2>1. writes' \in Nat
    BY <1>12, <1>0 DEF ChangeWrite
  <2>3. user' \in Users
    BY <1>12, <1>0, <2>1, UserUpdates DEF ChangeWrite
  <2> QED
    BY <1>12, <2>1, <2>3, <1>0 DEF ChangeWrite, account, recovery, memory, Holding
<1>13. ASSUME NEW r \in Requests, resolveCurrentSessionId(r) PROVE Goal
  BY <1>13, <1>0 DEF resolveCurrentSessionId, account, recovery, memory, Holding
<1>14. ASSUME NEW r \in Requests, RevokeOthers(r) PROVE Goal
  BY <1>14, <1>0 DEF RevokeOthers, account, recovery, memory, Holding
<1>15. ASSUME NEW r \in Requests, resetPassword(r) PROVE Goal
  <2>1. writes' \in Nat
    BY <1>15, <1>0 DEF resetPassword
  <2>3. user' \in Users
    BY <1>15, <1>0, <2>1, UserUpdates DEF resetPassword
  <2> QED
    BY <1>15, <2>1, <2>3, <1>0 DEF resetPassword, account, recovery, memory, Holding
<1>16. ASSUME NEW r \in Requests, revokeAll(r) PROVE Goal
  BY <1>16, <1>0 DEF revokeAll, account, recovery, memory, Holding
<1>17. ASSUME NEW r \in Requests, LinkRetire(r) PROVE Goal
  BY <1>17, <1>0, LinkUpdates DEF LinkRetire, account, recovery, memory, LinkIds
<1>18. ASSUME NEW r \in Requests, LinkInsert(r) PROVE Goal
  <2>1. mailed' \in 0..MaxLinks
    BY <1>18, <1>0 DEF LinkInsert
  <2>2. links' \in [LinkIds -> Links]
    <3>1. \A l \in LinkIds : [links[l] EXCEPT !.state = "open"] \in Links
      BY <1>0, LinkUpdates
    <3> QED
      BY <1>18, <1>0, <3>1 DEF LinkInsert
  <2> QED
    BY <1>18, <2>1, <2>2, <1>0 DEF LinkInsert, account, memory
<1>19. ASSUME NEW r \in Requests, ConfirmUser(r) PROVE Goal
  BY <1>19, <1>0 DEF ConfirmUser, account, recovery, memory, Holding
<1>20. ASSUME NEW r \in Requests, markUsed(r) PROVE Goal
  <2>1. links' \in [LinkIds -> Links]
    <3>1. \A l \in LinkIds : [links[l] EXCEPT !.state = "used"] \in Links
      BY <1>0, LinkUpdates
    <3> QED
      BY <1>20, <1>0, <3>1 DEF markUsed
  <2> QED
    BY <1>20, <2>1, <1>0 DEF markUsed, account, memory
<1>21. ASSUME NEW r \in Requests, ConfirmWrite(r) PROVE Goal
  <2>1. writes' \in Nat
    BY <1>21, <1>0 DEF ConfirmWrite
  <2>3. user' \in Users
    BY <1>21, <1>0, <2>1, UserUpdates DEF ConfirmWrite
  <2>2. links' \in [LinkIds -> Links]
    BY <1>21, <1>0, LinkUpdates DEF ConfirmWrite
  <2> QED
    BY <1>21, <2>1, <2>3, <2>2, <1>0 DEF ConfirmWrite, account, recovery, memory, Holding
<1>22. ASSUME NEW r \in Requests, deactivateUser(r) PROVE Goal
  BY <1>22, <1>0, UserUpdates DEF deactivateUser, account, recovery, memory
<1>23. ASSUME NEW r \in Requests, suspendAcademy(r) PROVE Goal
  BY <1>23, <1>0 DEF suspendAcademy, account, recovery, memory, Holding
<1>24. ASSUME NEW r \in Requests, Fail(r) PROVE Goal
  BY <1>24, <1>0 DEF Fail, account, recovery, memory, Holding
<1>25. ASSUME NEW r \in Requests, NEW s \in Ids, performRefresh(r, s) PROVE Goal
  BY <1>25, <1>0 DEF performRefresh, account, recovery, memory, Holding
<1>26. ASSUME NEW r \in Requests, NEW s \in Ids, logout(r, s) PROVE Goal
  BY <1>26, <1>0 DEF logout, account, recovery, memory, Holding
<1>27. ASSUME NEW r \in Requests, NEW s \in Ids, ChangeAuthenticate(r, s) PROVE Goal
  BY <1>27, <1>0 DEF ChangeAuthenticate, account, recovery, memory, Holding
<1>28. ASSUME NEW r \in Requests, NEW l \in LinkIds, confirm(r, l) PROVE Goal
  BY <1>28, <1>0 DEF confirm, account, recovery, memory, Holding
<1>29. CASE deactivatePlayerUser
  BY <1>29, <1>0, UserUpdates DEF deactivatePlayerUser, account, recovery, memory
<1>30. CASE activateUser
  BY <1>30, <1>0, UserUpdates DEF activateUser, account, recovery, memory
<1>31. CASE reactivateAcademy
  BY <1>31, <1>0 DEF reactivateAcademy, account, recovery, memory, Holding
<1>32. CASE Restart
  BY <1>32, <1>0 DEF Restart, account, recovery, memory, Holding
<1>33. ASSUME NEW s \in Ids, SessionAges(s) PROVE Goal
  BY <1>33, <1>0 DEF SessionAges, account, recovery, memory, Holding
<1>34. ASSUME NEW s \in Ids, purgeStaleSessions(s) PROVE Goal
  BY <1>34, <1>0 DEF purgeStaleSessions, account, recovery, memory, Holding
<1>35. ASSUME NEW l \in LinkIds, LinkExpires(l) PROVE Goal
  BY <1>35, <1>0, LinkUpdates DEF LinkExpires, account, recovery, memory, LinkIds
<1>36. CASE UNCHANGED vars
  BY <1>36, <1>0 DEF vars
<1> QED
  BY <1>1, <1>2, <1>3, <1>4, <1>5, <1>6, <1>7, <1>8, <1>9, <1>10, <1>11, <1>12, <1>13, <1>14,
     <1>15, <1>16, <1>17, <1>18, <1>19, <1>20, <1>21, <1>22, <1>23, <1>24, <1>25, <1>26, <1>27,
        <1>28, <1>29, <1>30, <1>31, <1>32, <1>33, <1>34, <1>35, <1>36 DEF Next

\* Type correctness holds of every reachable state.
THEOREM TypeCorrect == Spec => [](TypeOK /\ Refs)
<1>1. Init => TypeOK /\ Refs
  <2> SUFFICES ASSUME Init PROVE TypeOK /\ Refs
    OBVIOUS
  <2>1. sessions \in [Ids -> SessionRows] /\ links \in [LinkIds -> Links] /\ loc \in [Requests -> Locals]
    BY EmptyTypes DEF Init
  <2> QED
    BY <2>1, BoundsAssumption DEF Init, TypeOK, Refs, Holding, Stages, Users, SessionRows, Links,
       Locals
<1>2. TypeOK /\ Refs /\ [Next]_vars => (TypeOK /\ Refs)'
  <2> SUFFICES ASSUME TypeOK, Refs, [Next]_vars PROVE TypeOK' /\ Refs'
    OBVIOUS
  <2>1. pc' \in [Requests -> Stages] /\ loc' \in [Requests -> Locals]
    BY SlotsTyped
  <2>2. sessions' \in [Ids -> SessionRows] /\ issued' \in 0..MaxSessions /\ lastClosed' \in Nat
    BY TablesTyped
  <2>3. /\ user' \in Users
        /\ writes' \in Nat /\ lastReset' \in Nat /\ failures' \in Nat
        /\ academy' \in {"active", "suspended"}
        /\ links' \in [LinkIds -> Links] /\ mailed' \in 0..MaxLinks
        /\ blacklist' \subseteq Ids
    BY RestTyped
  <2>4. Refs'
    BY RefsStep
  <2> QED
    BY <2>1, <2>2, <2>3, <2>4 DEF TypeOK, Users, SessionRows, Links, Locals
<1> QED
  BY <1>1, <1>2, PTL DEF Spec
-----------------------------------------------------------------------------
(* What steps do to the sessions and to the slots.                         *)

\* The stages of a refresh, and those in which a request opens a session or
\* comes to revoke the one it refreshes.
Checking == {"refreshUser", "refreshAcademy", "rotate", "reject"}
Busy == Checking \cup {"loginAcademy", "insert", "update"}

\* Sessions are only revoked, aged or deleted.
Demoted ==
  /\ issued' = issued
  /\ \A s \in Ids :
       /\ sessions'[s].parent = sessions[s].parent
       /\ sessions'[s].ready = sessions[s].ready
       /\ sessions'[s].proof = sessions[s].proof
       /\ sessions'[s].stamp = sessions[s].stamp
       /\ sessions'[s].spared = sessions[s].spared
       /\ Live(s)' => Live(s)
       /\ sessions[s] = NoSession => sessions'[s] = NoSession

\* A request stays where it is, ends, or does something that opens no session.
Kept(q) ==
  /\ pc'[q] = pc[q]
  /\ loc'[q].sid = loc[q].sid
  /\ loc'[q].from = loc[q].from
  /\ loc'[q].stamp = loc[q].stamp
  /\ loc'[q].proof = loc[q].proof
  /\ loc[q].spared => loc'[q].spared
Ended(q) == pc'[q] = "idle" /\ loc'[q] = NoLocals
Aside(q) == pc[q] \notin Busy /\ pc'[q] \notin Busy /\ loc'[q].from \in {0, loc[q].from}

Quiet == Demoted /\ \A q \in Requests : Kept(q) \/ Ended(q) \/ Aside(q)

Opens(r) ==
  \/ login(r) \/ LoginAcademy(r) \/ SessionInsert(r) \/ updateRefreshCredentials(r)
  \/ \E s \in Ids : performRefresh(r, s)
  \/ RefreshUser(r) \/ RefreshAcademy(r) \/ CheckFails(r) \/ Rotate(r)

LEMMA NoChange == ASSUME sessions' = sessions, issued' = issued PROVE Demoted
BY DEF Demoted, Live

LEMMA RevokedDemoted ==
  ASSUME TypeOK, NEW s, sessions' = Revoked(s), issued' = issued
  PROVE  Demoted
<1>1. sessions \in [Ids -> SessionRows]
  BY DEF TypeOK, SessionRows
<1>2. \A t \in Ids : Live(t) => sessions[t] # NoSession
  BY DEF Live, NoSession
<1> QED
  BY <1>1, <1>2 DEF Demoted, Revoked, Live, SessionRows

\* Every step does one of the above.
LEMMA StepKinds ==
  ASSUME TypeOK, [Next]_vars
  PROVE  Quiet \/ \E r \in Requests : Opens(r)
<1> DEFINE Goal == Quiet \/ \E r \in Requests : Opens(r)
<1> SUFFICES Goal
  OBVIOUS
<1>0. /\ pc \in [Requests -> Stages] /\ loc \in [Requests -> Locals]
      /\ sessions \in [Ids -> SessionRows]
  BY DEF TypeOK, Locals, SessionRows
<1>1. ASSUME NEW r \in Requests, login(r) PROVE Goal
  BY <1>1 DEF Opens
<1>2. ASSUME NEW r \in Requests, LoginAcademy(r) PROVE Goal
  BY <1>2 DEF Opens
<1>3. ASSUME NEW r \in Requests, SessionInsert(r) PROVE Goal
  BY <1>3 DEF Opens
<1>4. ASSUME NEW r \in Requests, updateRefreshCredentials(r) PROVE Goal
  BY <1>4 DEF Opens
<1>5. ASSUME NEW r \in Requests, RefreshUser(r) PROVE Goal
  BY <1>5 DEF Opens
<1>6. ASSUME NEW r \in Requests, RefreshAcademy(r) PROVE Goal
  BY <1>6 DEF Opens
<1>7. ASSUME NEW r \in Requests, CheckFails(r) PROVE Goal
  BY <1>7 DEF Opens
<1>8. ASSUME NEW r \in Requests, RefreshReject(r) PROVE Goal
  <2>1. Demoted
    BY <1>8, RevokedDemoted DEF RefreshReject
  <2>2. \A q \in Requests : Kept(q) \/ Ended(q) \/ Aside(q)
    BY <1>8, <1>0 DEF RefreshReject, Finish, Kept, Ended
  <2> QED
    BY <2>1, <2>2 DEF Quiet
<1>9. ASSUME NEW r \in Requests, Rotate(r) PROVE Goal
  BY <1>9 DEF Opens
<1>10. ASSUME NEW r \in Requests, LogoutRevoke(r) PROVE Goal
  <2>1. Demoted
    BY <1>10, RevokedDemoted DEF LogoutRevoke
  <2>2. \A q \in Requests : Kept(q) \/ Ended(q) \/ Aside(q)
    BY <1>10, <1>0 DEF LogoutRevoke, Finish, Kept, Ended
  <2> QED
    BY <2>1, <2>2 DEF Quiet
<1>11. ASSUME NEW r \in Requests, changePassword(r) PROVE Goal
  <2>1. Demoted
    BY <1>11, NoChange DEF changePassword, tables
  <2>2. \A q \in Requests : Kept(q) \/ Ended(q) \/ Aside(q)
    <3>1. CASE Finish(r)
      BY <3>1, <1>0 DEF Finish, Kept, Ended
    <3>2. CASE pc' = [pc EXCEPT ![r] = "changeWrite"] /\ loc' = [loc EXCEPT ![r].must = user.must]
      BY <1>11, <3>2, <1>0 DEF changePassword, Kept, Aside, Busy, Checking, Locals
    <3> QED
      BY <1>11, <3>1, <3>2 DEF changePassword
  <2> QED
    BY <2>1, <2>2 DEF Quiet
<1>12. ASSUME NEW r \in Requests, ChangeWrite(r) PROVE Goal
  <2>1. Demoted
    BY <1>12, NoChange DEF ChangeWrite, tables
  <2>2. \A q \in Requests : Kept(q) \/ Ended(q) \/ Aside(q)
    BY <1>12, <1>0 DEF ChangeWrite, Begin, Goto, Finish, Kept, Ended, Aside, Busy, Checking,
       NoLocals
  <2> QED
    BY <2>1, <2>2 DEF Quiet
<1>13. ASSUME NEW r \in Requests, resolveCurrentSessionId(r) PROVE Goal
  <2>1. Demoted
    BY <1>13, NoChange DEF resolveCurrentSessionId, tables
  <2>2. \A q \in Requests : Kept(q) \/ Ended(q) \/ Aside(q)
    BY <1>13, <1>0 DEF resolveCurrentSessionId, Begin, Goto, Finish, Kept, Ended, Aside, Busy,
       Checking, NoLocals
  <2> QED
    BY <2>1, <2>2 DEF Quiet
<1>14. ASSUME NEW r \in Requests, RevokeOthers(r) PROVE Goal
  <2>1. Demoted
    <3>1. \A t \in Ids : sessions[t].state # "none" => sessions[t] # NoSession
      BY DEF NoSession
    <3> QED
      BY <1>14, <3>1, <1>0 DEF RevokeOthers, Demoted, Live, SessionRows, Ids
  <2>2. \A q \in Requests : Kept(q) \/ Ended(q) \/ Aside(q)
    BY <1>14, <1>0 DEF RevokeOthers, Finish, Kept, Ended
  <2> QED
    BY <2>1, <2>2 DEF Quiet
<1>15. ASSUME NEW r \in Requests, resetPassword(r) PROVE Goal
  <2>1. Demoted
    BY <1>15, NoChange DEF resetPassword, tables
  <2>2. \A q \in Requests : Kept(q) \/ Ended(q) \/ Aside(q)
    BY <1>15, <1>0 DEF resetPassword, Begin, Goto, Finish, Kept, Ended, Aside, Busy, Checking,
       NoLocals
  <2> QED
    BY <2>1, <2>2 DEF Quiet
<1>16. ASSUME NEW r \in Requests, revokeAll(r) PROVE Goal
  <2>1. Demoted
    <3>1. \A t \in Ids : sessions[t].state # "none" => sessions[t] # NoSession
      BY DEF NoSession
    <3> QED
      BY <1>16, <3>1, <1>0 DEF revokeAll, Demoted, Live, SessionRows, Ids
  <2>2. \A q \in Requests : Kept(q) \/ Ended(q) \/ Aside(q)
    BY <1>16, <1>0 DEF revokeAll, Kept, Ended, Locals
  <2> QED
    BY <2>1, <2>2 DEF Quiet
<1>17. ASSUME NEW r \in Requests, LinkRetire(r) PROVE Goal
  <2>1. Demoted
    BY <1>17, NoChange DEF LinkRetire, tables
  <2>2. \A q \in Requests : Kept(q) \/ Ended(q) \/ Aside(q)
    BY <1>17, <1>0 DEF LinkRetire, Begin, Goto, Finish, Kept, Ended, Aside, Busy, Checking, NoLocals
  <2> QED
    BY <2>1, <2>2 DEF Quiet
<1>18. ASSUME NEW r \in Requests, LinkInsert(r) PROVE Goal
  <2>1. Demoted
    BY <1>18, NoChange DEF LinkInsert, tables
  <2>2. \A q \in Requests : Kept(q) \/ Ended(q) \/ Aside(q)
    BY <1>18, <1>0 DEF LinkInsert, Finish, Kept, Ended
  <2> QED
    BY <2>1, <2>2 DEF Quiet
<1>19. ASSUME NEW r \in Requests, ConfirmUser(r) PROVE Goal
  <2>1. Demoted
    BY <1>19, NoChange DEF ConfirmUser, tables
  <2>2. \A q \in Requests : Kept(q) \/ Ended(q) \/ Aside(q)
    BY <1>19, <1>0 DEF ConfirmUser, Begin, Goto, Finish, Kept, Ended, Aside, Busy, Checking,
       NoLocals
  <2> QED
    BY <2>1, <2>2 DEF Quiet
<1>20. ASSUME NEW r \in Requests, markUsed(r) PROVE Goal
  <2>1. Demoted
    BY <1>20, NoChange DEF markUsed, tables
  <2>2. \A q \in Requests : Kept(q) \/ Ended(q) \/ Aside(q)
    BY <1>20, <1>0 DEF markUsed, Begin, Goto, Finish, Kept, Ended, Aside, Busy, Checking, NoLocals
  <2> QED
    BY <2>1, <2>2 DEF Quiet
<1>21. ASSUME NEW r \in Requests, ConfirmWrite(r) PROVE Goal
  <2>1. Demoted
    BY <1>21, NoChange DEF ConfirmWrite, tables
  <2>2. \A q \in Requests : Kept(q) \/ Ended(q) \/ Aside(q)
    BY <1>21, <1>0 DEF ConfirmWrite, Begin, Goto, Finish, Kept, Ended, Aside, Busy, Checking,
       NoLocals
  <2> QED
    BY <2>1, <2>2 DEF Quiet
<1>22. ASSUME NEW r \in Requests, deactivateUser(r) PROVE Goal
  <2>1. Demoted
    BY <1>22, NoChange DEF deactivateUser, tables
  <2>2. \A q \in Requests : Kept(q) \/ Ended(q) \/ Aside(q)
    BY <1>22, <1>0 DEF deactivateUser, Begin, Goto, Finish, Kept, Ended, Aside, Busy, Checking,
       NoLocals
  <2> QED
    BY <2>1, <2>2 DEF Quiet
<1>23. ASSUME NEW r \in Requests, suspendAcademy(r) PROVE Goal
  <2>1. Demoted
    BY <1>23, NoChange DEF suspendAcademy, tables
  <2>2. \A q \in Requests : Kept(q) \/ Ended(q) \/ Aside(q)
    BY <1>23, <1>0 DEF suspendAcademy, Begin, Goto, Finish, Kept, Ended, Aside, Busy, Checking,
       NoLocals
  <2> QED
    BY <2>1, <2>2 DEF Quiet
<1>24. ASSUME NEW r \in Requests, Fail(r) PROVE Goal
  <2>1. Demoted
    BY <1>24, NoChange DEF Fail, tables
  <2>2. \A q \in Requests : Kept(q) \/ Ended(q) \/ Aside(q)
    BY <1>24, <1>0 DEF Fail, Finish, Kept, Ended
  <2> QED
    BY <2>1, <2>2 DEF Quiet
<1>25. ASSUME NEW r \in Requests, NEW s \in Ids, performRefresh(r, s) PROVE Goal
  BY <1>25 DEF Opens
<1>26. ASSUME NEW r \in Requests, NEW s \in Ids, logout(r, s) PROVE Goal
  <2>1. Demoted
    BY <1>26, NoChange DEF logout, tables
  <2>2. \A q \in Requests : Kept(q) \/ Ended(q) \/ Aside(q)
    <3>1. CASE UNCHANGED slots
      BY <3>1 DEF slots, Kept
    <3>2. CASE Begin(r, "logout", [NoLocals EXCEPT !.sid = s])
      BY <3>2, <1>0 DEF Begin, Kept, Aside, Busy, Checking, NoLocals
    <3> QED
      BY <1>26, <3>1, <3>2 DEF logout
  <2> QED
    BY <2>1, <2>2 DEF Quiet
<1>27. ASSUME NEW r \in Requests, NEW s \in Ids, ChangeAuthenticate(r, s) PROVE Goal
  <2>1. Demoted
    BY <1>27, NoChange DEF ChangeAuthenticate, tables
  <2>2. \A q \in Requests : Kept(q) \/ Ended(q) \/ Aside(q)
    BY <1>27, <1>0 DEF ChangeAuthenticate, Begin, Goto, Finish, Kept, Ended, Aside, Busy,
       Checking, NoLocals
  <2> QED
    BY <2>1, <2>2 DEF Quiet
<1>28. ASSUME NEW r \in Requests, NEW l \in LinkIds, confirm(r, l) PROVE Goal
  <2>1. Demoted
    BY <1>28, NoChange DEF confirm, tables
  <2>2. \A q \in Requests : Kept(q) \/ Ended(q) \/ Aside(q)
    BY <1>28, <1>0 DEF confirm, Begin, Goto, Finish, Kept, Ended, Aside, Busy, Checking, NoLocals
  <2> QED
    BY <2>1, <2>2 DEF Quiet
<1>29. CASE deactivatePlayerUser
  <2>1. Demoted
    BY <1>29, NoChange DEF deactivatePlayerUser, tables
  <2>2. \A q \in Requests : Kept(q) \/ Ended(q) \/ Aside(q)
    BY <1>29 DEF deactivatePlayerUser, slots, Kept
  <2> QED
    BY <2>1, <2>2 DEF Quiet
<1>30. CASE activateUser
  <2>1. Demoted
    BY <1>30, NoChange DEF activateUser, tables
  <2>2. \A q \in Requests : Kept(q) \/ Ended(q) \/ Aside(q)
    BY <1>30, <1>0 DEF activateUser, Unlocked, Kept, Locals
  <2> QED
    BY <2>1, <2>2 DEF Quiet
<1>31. CASE reactivateAcademy
  <2>1. Demoted
    BY <1>31, NoChange DEF reactivateAcademy, tables
  <2>2. \A q \in Requests : Kept(q) \/ Ended(q) \/ Aside(q)
    BY <1>31, <1>0 DEF reactivateAcademy, Unlocked, Kept, Locals
  <2> QED
    BY <2>1, <2>2 DEF Quiet
<1>32. CASE Restart
  <2>1. Demoted
    BY <1>32, NoChange DEF Restart, tables
  <2>2. \A q \in Requests : Kept(q) \/ Ended(q) \/ Aside(q)
    BY <1>32, <1>0 DEF Restart, Ended
  <2> QED
    BY <2>1, <2>2 DEF Quiet
<1>33. ASSUME NEW s \in Ids, SessionAges(s) PROVE Goal
  <2>1. Demoted
    <3>1. \A t \in Ids : sessions[t].state # "none" => sessions[t] # NoSession
      BY DEF NoSession
    <3> QED
      BY <1>33, <3>1, <1>0 DEF SessionAges, Demoted, Live, SessionRows, Ids
  <2>2. \A q \in Requests : Kept(q) \/ Ended(q) \/ Aside(q)
    BY <1>33 DEF SessionAges, slots, Kept
  <2> QED
    BY <2>1, <2>2 DEF Quiet
<1>34. ASSUME NEW s \in Ids, purgeStaleSessions(s) PROVE Goal
  <2>1. Demoted
    <3>1. \A t \in Ids : sessions[t].state # "none" => sessions[t] # NoSession
      BY DEF NoSession
    <3> QED
      BY <1>34, <3>1, <1>0 DEF purgeStaleSessions, Demoted, Live, SessionRows, Ids
  <2>2. \A q \in Requests : Kept(q) \/ Ended(q) \/ Aside(q)
    BY <1>34 DEF purgeStaleSessions, slots, Kept
  <2> QED
    BY <2>1, <2>2 DEF Quiet
<1>35. ASSUME NEW l \in LinkIds, LinkExpires(l) PROVE Goal
  <2>1. Demoted
    BY <1>35, NoChange DEF LinkExpires, tables
  <2>2. \A q \in Requests : Kept(q) \/ Ended(q) \/ Aside(q)
    BY <1>35 DEF LinkExpires, slots, Kept
  <2> QED
    BY <2>1, <2>2 DEF Quiet
<1>36. CASE UNCHANGED vars
  BY <1>36, NoChange DEF vars, Quiet, Kept
<1> QED
  BY <1>1, <1>2, <1>3, <1>4, <1>5, <1>6, <1>7, <1>8, <1>9, <1>10, <1>11, <1>12, <1>13, <1>14,
     <1>15, <1>16, <1>17, <1>18, <1>19, <1>20, <1>21, <1>22, <1>23, <1>24, <1>25, <1>26, <1>27,
        <1>28, <1>29, <1>30, <1>31, <1>32, <1>33, <1>34, <1>35, <1>36 DEF Next
-----------------------------------------------------------------------------
(* A login holds one session.                                              *)

Delivered(s) == s \in Ids /\ sessions[s].ready

\* The rows: those to come are empty, and a session that was refreshed is over
\* and has one successor.
Rows ==
  /\ \A s \in Ids : s > issued => sessions[s] = NoSession
  /\ \A s \in Ids : sessions[s].parent # 0 =>
       Delivered(sessions[s].parent) /\ ~Live(sessions[s].parent)
  /\ UsedOnce

\* The requests: a refresh holds a session that nobody else is refreshing and
\* that has no successor, until it has inserted one itself.
Flight(r) ==
  /\ loc[r].from # 0 => pc[r] \in Busy \ {"loginAcademy"} /\ Delivered(loc[r].from)
  /\ pc[r] \in Checking => loc[r].from # 0 /\ loc[r].sid = loc[r].from
  /\ loc[r].from # 0 /\ pc[r] # "update" => \A s \in Ids : sessions[s].parent # loc[r].from
  /\ loc[r].from # 0 /\ pc[r] \in {"insert", "update"} => ~Live(loc[r].from)
  /\ pc[r] = "update" => /\ loc[r].sid \in Ids /\ loc[r].sid <= issued
                         /\ ~sessions[loc[r].sid].ready
                         /\ sessions[loc[r].sid].parent = loc[r].from
                         /\ sessions[loc[r].sid].proof = loc[r].proof
                         /\ sessions[loc[r].sid].stamp = loc[r].stamp

\* No two of them hold the same session.
Apart(r, q) ==
  /\ loc[r].from # 0 => loc[r].from # loc[q].from
  /\ pc[r] = "update" /\ pc[q] = "update" => loc[r].sid # loc[q].sid

Chain ==
  /\ Rows
  /\ \A r \in Requests : Flight(r)
  /\ \A r, q \in Requests : r # q => Apart(r, q)

\* A slot that has ended, or holds no session to refresh.
LEMMA IdleFlight ==
  ASSUME NEW q \in Requests, loc'[q].from = 0, pc'[q] \notin Checking, pc'[q] # "update"
  PROVE  Flight(q)'
BY DEF Flight

\* Quiet steps preserve it all.
LEMMA QuietChain ==
  ASSUME TypeOK, Chain, Quiet
  PROVE  Chain'
<1>1. Rows'
  BY DEF Chain, Rows, Quiet, Demoted, UsedOnce, Delivered, Live
<1>2. ASSUME NEW q \in Requests PROVE Flight(q)'
  <2>1. CASE Kept(q)
    BY <2>1 DEF Quiet, Demoted, Kept, Chain, Flight, Delivered, Live, Busy, Checking
  <2>2. CASE Ended(q)
    BY <2>2, IdleFlight DEF Ended, NoLocals, Checking
  <2>3. CASE Aside(q)
    <3>1. loc[q].from = 0
      BY <2>3 DEF Aside, Chain, Flight
    <3> QED
      BY <2>3, <3>1, IdleFlight DEF Aside, Busy, Checking
  <2> QED
    BY <2>1, <2>2, <2>3 DEF Quiet
<1>3. ASSUME NEW q \in Requests
      PROVE  /\ loc'[q].from # 0 => loc'[q].from = loc[q].from
             /\ pc'[q] = "update" => pc[q] = "update" /\ loc'[q].sid = loc[q].sid
  BY DEF Quiet, Kept, Ended, Aside, NoLocals, Busy
<1>4. ASSUME NEW r \in Requests, NEW q \in Requests, r # q PROVE Apart(r, q)'
  BY <1>3, <1>4 DEF Chain, Apart
<1> QED
  BY <1>1, <1>2, <1>4 DEF Chain

\* Nothing happens to the other slots.
Alone(r) == \A q \in Requests \ {r} : pc'[q] = pc[q] /\ loc'[q] = loc[q]

\* A step of one request that leaves the rows alone.
LEMMA SameRows ==
  ASSUME TypeOK, Chain, NEW r \in Requests, Alone(r), sessions' = sessions, issued' = issued,
         Flight(r)', pc'[r] # "update",
         loc'[r].from # 0 => \A q \in Requests \ {r} : loc'[r].from # loc[q].from
  PROVE  Chain'
<1>1. Rows'
  BY DEF Chain, Rows, UsedOnce, Delivered, Live
<1>2. \A q \in Requests : Flight(q)'
  BY DEF Chain, Flight, Alone, Delivered, Live
<1>3. ASSUME NEW q \in Requests, NEW p \in Requests, q # p PROVE Apart(q, p)'
  BY <1>3 DEF Chain, Apart, Alone
<1> QED
  BY <1>1, <1>2, <1>3 DEF Chain

\* The steps of login and refresh preserve it: those that only look, ...
LEMMA LookingChain ==
  ASSUME TypeOK, Chain, NEW r \in Requests,
         \/ login(r) \/ LoginAcademy(r) \/ RefreshUser(r) \/ RefreshAcademy(r) \/ CheckFails(r)
         \/ \E s \in Ids : performRefresh(r, s)
  PROVE  Chain'
<1>0. /\ pc \in [Requests -> Stages] /\ loc \in [Requests -> Locals] /\ Flight(r)
      /\ \A q \in Requests \ {r} : Apart(r, q)
  BY DEF TypeOK, Locals, Chain
<1>1. CASE login(r)
  <2>1. Alone(r) /\ loc'[r].from = 0 /\ pc'[r] = "loginAcademy"
    BY <1>1, <1>0 DEF login, Begin, Alone, NoLocals
  <2> QED
    BY <1>1, <2>1, SameRows, IdleFlight DEF login, tables, Checking
<1>2. CASE LoginAcademy(r)
  <2>1. loc[r].from = 0 \/ loc[r].from # 0
    OBVIOUS
  <2>2. Alone(r) /\ loc'[r].from \in {0, loc[r].from} /\ pc'[r] \in {"idle", "insert"}
    BY <1>2, <1>0 DEF LoginAcademy, Goto, Finish, Alone, NoLocals
  <2>3. sessions' = sessions /\ issued' = issued
    BY <1>2 DEF LoginAcademy, tables
  <2>4. pc[r] = "loginAcademy" /\ (pc'[r] = "insert" => loc' = loc) /\ (pc'[r] = "idle" => loc'[r].from = 0)
    BY <1>2, <1>0 DEF LoginAcademy, Goto, Finish, NoLocals
  <2> QED
    BY <2>2, <2>3, <2>4, <1>0, SameRows, IdleFlight
       DEF Flight, Apart, Busy, Checking, Delivered, Live
<1>3. CASE RefreshUser(r) \/ RefreshAcademy(r) \/ CheckFails(r)
  <2>1. /\ Alone(r) /\ loc'[r].from = loc[r].from /\ loc'[r].sid = loc[r].sid
        /\ pc[r] \in Checking /\ pc'[r] \in Checking
        /\ sessions' = sessions /\ issued' = issued
    <3>1. CASE RefreshUser(r)
      BY <3>1, <1>0 DEF RefreshUser, Alone, Checking, tables
    <3>2. CASE RefreshAcademy(r)
      BY <3>2, <1>0 DEF RefreshAcademy, Goto, Alone, Checking, tables
    <3>3. CASE CheckFails(r)
      BY <3>3, <1>0 DEF CheckFails, Goto, Alone, Checking, tables
    <3> QED
      BY <1>3, <3>1, <3>2, <3>3
  <2>2. Flight(r)'
    BY <2>1, <1>0 DEF Flight, Checking, Busy, Delivered, Live
  <2> QED
    BY <2>1, <2>2, <1>0, SameRows DEF Apart, Checking
<1>4. ASSUME NEW s \in Ids, performRefresh(r, s) PROVE Chain'
  <2>1. /\ Alone(r) /\ loc'[r].from = s /\ loc'[r].sid = s /\ pc'[r] \in Checking
        /\ sessions' = sessions /\ issued' = issued
    BY <1>4, <1>0 DEF performRefresh, Begin, Alone, NoLocals, Checking, tables
  <2>2. s # 0 /\ Live(s) /\ Delivered(s) /\ \A q \in Requests : loc[q].from # s
    <3>1. s # 0
      BY DEF Ids
    <3>2. s \notin Inflight /\ Live(s) /\ sessions[s].ready
      BY <1>4 DEF performRefresh
    <3>3. \A q \in Requests : loc[q].from # s
      BY <3>1, <3>2 DEF Inflight
    <3> QED
      BY <3>1, <3>2, <3>3 DEF Delivered
  <2>3. \A t \in Ids : sessions[t].parent # s
    BY <2>2 DEF Chain, Rows
  <2>4. Flight(r)'
    BY <2>1, <2>2, <2>3 DEF Flight, Checking, Busy, Delivered, Live
  <2> QED
    BY <2>1, <2>2, <2>4, SameRows DEF Checking
<1> QED
  BY <1>1, <1>2, <1>3, <1>4

\* ... the one that revokes the old session, ...
LEMMA RotateChain ==
  ASSUME TypeOK, Chain, NEW r \in Requests, Rotate(r)
  PROVE  Chain'
<1>0. /\ pc \in [Requests -> Stages] /\ loc \in [Requests -> Locals]
      /\ sessions \in [Ids -> SessionRows] /\ Flight(r)
  BY DEF TypeOK, Locals, SessionRows, Chain
<1>1. /\ Alone(r) /\ pc[r] = "rotate" /\ pc'[r] = "insert" /\ loc' = loc
      /\ sessions' = Revoked(loc[r].sid) /\ issued' = issued
  BY <1>0 DEF Rotate, Goto, Alone
<1>2. Demoted
  BY <1>1, RevokedDemoted
<1>3. loc[r].from # 0 /\ Delivered(loc[r].from) /\ loc[r].sid = loc[r].from
  BY <1>0, <1>1 DEF Flight, Checking
<1>4. ~Live(loc[r].from)'
  BY <1>0, <1>1, <1>3 DEF Revoked, Live, Delivered
<1>5. Rows'
  BY <1>2 DEF Chain, Rows, Demoted, UsedOnce, Delivered, Live
<1>6. \A q \in Requests : Flight(q)'
  <2>1. ASSUME NEW q \in Requests \ {r} PROVE Flight(q)'
    BY <1>1, <1>2 DEF Demoted, Alone, Chain, Flight, Delivered, Live, Busy, Checking
  <2>2. Flight(r)'
    BY <1>0, <1>1, <1>2, <1>3, <1>4 DEF Demoted, Flight, Delivered, Busy, Checking
  <2> QED
    BY <2>1, <2>2
<1>7. ASSUME NEW q \in Requests, NEW p \in Requests, q # p PROVE Apart(q, p)'
  BY <1>1, <1>7 DEF Chain, Apart, Alone
<1> QED
  BY <1>5, <1>6, <1>7 DEF Chain

\* ... the insertion of the new one, ...
LEMMA InsertChain ==
  ASSUME TypeOK, Chain, NEW r \in Requests, SessionInsert(r)
  PROVE  Chain'
<1> DEFINE new == issued + 1
           row == [NoSession EXCEPT !.state = "live", !.stamp = loc[r].stamp,
              !.parent = loc[r].from,
                                    !.proof = loc[r].proof, !.spared = loc[r].spared]
<1>0. /\ pc \in [Requests -> Stages] /\ loc \in [Requests -> Locals]
      /\ sessions \in [Ids -> SessionRows] /\ issued \in Nat /\ new \in Ids /\ Flight(r)
  <2>1. issued < MaxSessions /\ issued \in 0..MaxSessions
    BY DEF SessionInsert, TypeOK
  <2>2. new \in Ids /\ issued \in Nat
    BY <2>1, BoundsAssumption DEF Ids
  <2> QED
    BY <2>2 DEF TypeOK, Locals, SessionRows, Chain
<1>1. /\ Alone(r) /\ pc[r] = "insert" /\ pc'[r] = "update" /\ issued' = new
      /\ loc'[r].sid = new /\ loc'[r].from = loc[r].from /\ loc'[r].stamp = loc[r].stamp
      /\ loc'[r].proof = loc[r].proof
      /\ sessions' = [sessions EXCEPT ![new] = row]
  BY <1>0 DEF SessionInsert, Alone, Locals
<1>2. /\ row.parent = loc[r].from /\ row.ready = FALSE /\ row.stamp = loc[r].stamp
      /\ row.proof = loc[r].proof
  BY DEF NoSession
<1>3. sessions[new] = NoSession /\ ~sessions[new].ready /\ sessions[new].parent = 0
  <2>1. sessions[new] = NoSession
    BY <1>0 DEF Chain, Rows
  <2> QED
    BY <2>1 DEF NoSession
<1>4. \A s \in Ids : /\ s # new => sessions'[s] = sessions[s]
                     /\ sessions'[s].ready = sessions[s].ready
                     /\ s # new => (Live(s)' <=> Live(s))
  BY <1>0, <1>1, <1>2, <1>3 DEF Live
<1>5. sessions'[new] = row
  BY <1>0, <1>1
<1>6. /\ \A s \in Ids : sessions[s].parent # new
      /\ \A q \in Requests : loc[q].from # new
  BY <1>0, <1>3 DEF Chain, Rows, Flight, Delivered, Ids
<1>7. loc[r].from # 0 => /\ Delivered(loc[r].from) /\ ~Live(loc[r].from) /\ loc[r].from # new
                         /\ \A s \in Ids : sessions[s].parent # loc[r].from
  BY <1>0, <1>1, <1>6 DEF Flight
<1>8. Rows'
  <2>1. \A s \in Ids : s > issued' => sessions'[s] = NoSession
    BY <1>0, <1>1, <1>4 DEF Chain, Rows, Ids
  <2>2. ASSUME NEW s \in Ids, sessions'[s].parent # 0
        PROVE  (Delivered(sessions[s].parent) /\ ~Live(sessions[s].parent))'
    <3>1. CASE s = new
      BY <2>2, <3>1, <1>2, <1>4, <1>5, <1>7 DEF Delivered
    <3>2. CASE s # new
      <4>1. /\ sessions'[s] = sessions[s] /\ sessions[s].parent # new
            /\ Delivered(sessions[s].parent) /\ ~Live(sessions[s].parent)
        BY <2>2, <3>2, <1>4, <1>6 DEF Chain, Rows
      <4> QED
        BY <4>1, <1>4 DEF Delivered
    <3> QED
      BY <3>1, <3>2
  <2>3. UsedOnce'
    <3> SUFFICES ASSUME NEW s \in Ids, NEW t \in Ids, s # t, sessions'[s].parent # 0
                 PROVE  sessions'[s].parent # sessions'[t].parent
      BY DEF UsedOnce
    <3>1. CASE s # new /\ t # new
      BY <3>1, <1>4 DEF Chain, Rows, UsedOnce
    <3>2. CASE s = new
      BY <3>2, <1>2, <1>4, <1>5, <1>7
    <3>3. CASE t = new
      BY <3>3, <1>2, <1>4, <1>5, <1>7
    <3> QED
      BY <3>1, <3>2, <3>3
  <2> QED
    BY <2>1, <2>2, <2>3 DEF Rows
<1>9. \A q \in Requests : Flight(q)'
  <2>1. ASSUME NEW q \in Requests \ {r} PROVE Flight(q)'
    <3>1. Flight(q) /\ pc'[q] = pc[q] /\ loc'[q] = loc[q] /\ loc[q].from # new
      BY <1>1, <1>6 DEF Chain, Alone
    <3>2. pc[q] = "update" => loc[q].sid # new
      BY <3>1, <1>0 DEF Flight, Ids
    <3>3. loc[r].from # 0 => loc[r].from # loc[q].from
      BY DEF Chain, Apart
    <3>4. loc[q].from # 0 => Delivered(loc[q].from) /\ Delivered(loc[q].from)'
      BY <3>1, <1>4 DEF Flight, Delivered
    <3>5. loc[q].from # 0 /\ pc[q] \in {"insert", "update"} => ~Live(loc[q].from)'
      BY <3>1, <3>4, <1>4 DEF Flight, Delivered
    <3>6. loc[q].from # 0 /\ pc[q] # "update" => \A s \in Ids : sessions'[s].parent # loc[q].from
      <4>1. ASSUME loc[q].from # 0, pc[q] # "update", NEW s \in Ids
            PROVE  sessions'[s].parent # loc[q].from
        <5>1. sessions[s].parent # loc[q].from
          BY <3>1, <4>1 DEF Flight
        <5>2. sessions'[s] = sessions[s] \/ sessions'[s].parent = loc[r].from
          BY <1>2, <1>4, <1>5
        <5> QED
          BY <5>1, <5>2, <4>1, <3>3
      <4> QED
        BY <4>1
    <3>7. pc[q] = "update" => sessions'[loc[q].sid] = sessions[loc[q].sid]
      BY <3>1, <3>2, <1>4 DEF Flight
    <3> QED
      <4>1. pc[q] = "update" => loc[q].sid <= issued'
        BY <3>1, <1>0, <1>1 DEF Flight, Ids
      <4> QED
        BY <3>1, <3>4, <3>5, <3>6, <3>7, <4>1 DEF Flight
  <2>2. Flight(r)'
    BY <1>0, <1>1, <1>2, <1>4, <1>5, <1>7 DEF Flight, Delivered, Busy, Checking
  <2> QED
    BY <2>1, <2>2
<1>10. ASSUME NEW q \in Requests, NEW p \in Requests, q # p PROVE Apart(q, p)'
  <2>1. \A t \in Requests \ {r} : pc[t] = "update" => loc[t].sid # new
    BY <1>0 DEF Chain, Flight, Ids
  <2> QED
    BY <1>1, <1>10, <2>1 DEF Chain, Apart, Alone
<1> QED
  BY <1>8, <1>9, <1>10 DEF Chain

\* ... and the update that hands it out.
LEMMA UpdateChain ==
  ASSUME TypeOK, Chain, NEW r \in Requests, updateRefreshCredentials(r)
  PROVE  Chain'
<1> DEFINE sid == loc[r].sid
<1>0. /\ pc \in [Requests -> Stages] /\ loc \in [Requests -> Locals]
      /\ sessions \in [Ids -> SessionRows] /\ Flight(r)
  BY DEF TypeOK, Locals, SessionRows, Chain
<1>1. /\ Alone(r) /\ pc[r] = "update" /\ pc'[r] = "idle" /\ loc'[r] = NoLocals /\ issued' = issued
      /\ sessions' = [sessions EXCEPT ![sid].state = "live", ![sid].ready = TRUE,
                                      ![sid].spared = loc[r].spared]
  BY <1>0 DEF updateRefreshCredentials, Finish, Alone
<1>2. sid \in Ids /\ ~sessions[sid].ready
  BY <1>0, <1>1 DEF Flight
<1>3. /\ \A s \in Ids \ {sid} : sessions'[s] = sessions[s]
      /\ \A s \in Ids : /\ sessions'[s].parent = sessions[s].parent
                        /\ sessions'[s].proof = sessions[s].proof
                        /\ sessions'[s].stamp = sessions[s].stamp
                        /\ sessions[s].ready => sessions'[s].ready
                        /\ s # sid => (Live(s)' <=> Live(s))
  BY <1>0, <1>1, <1>2 DEF SessionRows, Live
<1>4. sid <= issued /\ issued \in Nat
  BY <1>0, <1>1 DEF Flight, TypeOK
<1>5. Rows'
  <2>1. \A s \in Ids : s > issued' => sessions'[s] = NoSession
    <3>1. ASSUME NEW s \in Ids, s > issued PROVE sessions'[s] = NoSession
      <4>1. s # sid
        BY <1>4, <3>1, <1>2 DEF Ids
      <4>2. sessions[s] = NoSession
        BY <3>1 DEF Chain, Rows
      <4> QED
        BY <4>1, <4>2, <1>3
    <3> QED
      BY <1>1, <3>1
  <2>2. ASSUME NEW s \in Ids, sessions'[s].parent # 0
        PROVE  (Delivered(sessions[s].parent) /\ ~Live(sessions[s].parent))'
    <3>1. Delivered(sessions[s].parent) /\ ~Live(sessions[s].parent) /\ sessions[s].parent # sid
      BY <2>2, <1>2, <1>3 DEF Chain, Rows, Delivered
    <3> QED
      BY <3>1, <1>3 DEF Delivered
  <2>3. UsedOnce'
    BY <1>3 DEF Chain, Rows, UsedOnce
  <2> QED
    BY <2>1, <2>2, <2>3 DEF Rows
<1>6. \A q \in Requests : Flight(q)'
  <2>1. ASSUME NEW q \in Requests \ {r} PROVE Flight(q)'
    <3>1. Flight(q) /\ pc'[q] = pc[q] /\ loc'[q] = loc[q] /\ Apart(r, q)
      BY <1>1 DEF Chain, Alone
    <3> QED
      <4>1. loc[q].from # 0 => Delivered(loc[q].from)' /\ loc[q].from # sid
        BY <3>1, <1>2, <1>3 DEF Flight, Delivered
      <4>2. loc[q].from # 0 /\ pc[q] \in {"insert", "update"} => ~Live(loc[q].from)'
        BY <3>1, <4>1, <1>3 DEF Flight, Delivered
      <4>3. pc[q] = "update" => sessions'[loc[q].sid] = sessions[loc[q].sid]
        BY <3>1, <1>1, <1>3 DEF Flight, Apart
      <4> QED
        <5>1. loc[q].from # 0 /\ pc[q] # "update" => \A s \in Ids : sessions'[s].parent # loc[q].from
          BY <3>1, <1>3 DEF Flight
        <5> QED
          BY <3>1, <4>1, <4>2, <4>3, <5>1, <1>1 DEF Flight
  <2>2. Flight(r)'
    BY <1>1, IdleFlight DEF NoLocals, Checking
  <2> QED
    BY <2>1, <2>2
<1>7. ASSUME NEW q \in Requests, NEW p \in Requests, q # p PROVE Apart(q, p)'
  BY <1>1, <1>7 DEF Chain, Apart, Alone, NoLocals
<1> QED
  BY <1>5, <1>6, <1>7 DEF Chain

LEMMA ChainStep == TypeOK /\ Chain /\ [Next]_vars => Chain'
BY StepKinds, QuietChain, LookingChain, RotateChain, InsertChain, UpdateChain DEF Opens

LEMMA ChainInit == Init => Chain
<1> SUFFICES ASSUME Init PROVE Chain
  OBVIOUS
<1>1. Rows
  BY DEF Init, Rows, UsedOnce, NoSession
<1>2. \A r \in Requests : loc[r].from = 0 /\ pc[r] = "idle"
  BY DEF Init, NoLocals
<1> QED
  BY <1>1, <1>2 DEF Chain, Flight, Apart, Checking

LEMMA ChainInvariance == Spec => []Chain
BY TypeCorrect, ChainInit, ChainStep, PTL DEF Spec

\* A refresh token is used once: for any number of requests, with failures and
\* restarts anywhere.
THEOREM TokensServeOnce == Spec => []UsedOnce
<1>1. Chain => UsedOnce
  BY DEF Chain, Rows
<1> QED
  BY <1>1, ChainInvariance, PTL

\* A login never holds two sessions: performRefresh revokes the old one before the
\* new one is there, whatever fails in between.
THEOREM OneSessionPerLogin == Spec => []ParentIsOver
<1>1. Chain => ParentIsOver
  BY DEF Chain, Rows, ParentIsOver
<1> QED
  BY <1>1, ChainInvariance, PTL

\* Revocation is final: no interleaving makes updateRefreshCredentials, which
\* clears revoked_at, hit a session whose tokens are out.
THEOREM RevokedForGood == Spec => RevocationIsFinal
<1> DEFINE Final == \A s \in Ids : sessions[s].ready /\ ~Live(s) => ~Live(s)'
<1>1. ASSUME TypeOK, Chain, [Next]_vars PROVE Final
  <2>1. CASE Quiet
    BY <2>1 DEF Quiet, Demoted
  <2>2. ASSUME NEW r \in Requests, Opens(r) PROVE Final
    <3>0. sessions \in [Ids -> SessionRows] /\ Flight(r) /\ issued \in 0..MaxSessions
      BY <1>1 DEF TypeOK, SessionRows, Chain
    <3>1. CASE SessionInsert(r)
      <4>1. issued + 1 \in Ids /\ sessions[issued + 1] = NoSession
        BY <3>0, <3>1, <1>1, BoundsAssumption DEF SessionInsert, Ids, Chain, Rows
      <4>2. \A s \in Ids : s # issued + 1 => sessions'[s] = sessions[s]
        BY <3>0, <3>1 DEF SessionInsert
      <4>3. ~sessions[issued + 1].ready
        BY <4>1 DEF NoSession
      <4> QED
        BY <4>2, <4>3 DEF Live
    <3>2. CASE updateRefreshCredentials(r)
      BY <3>0, <3>2 DEF updateRefreshCredentials, Flight, Live
    <3>3. CASE Rotate(r)
      BY <3>0, <3>3, <1>1, RevokedDemoted DEF Rotate, Demoted
    <3>4. CASE ~(SessionInsert(r) \/ updateRefreshCredentials(r) \/ Rotate(r))
      <4>1. sessions' = sessions
        BY <2>2, <3>4 DEF Opens, login, LoginAcademy, performRefresh, RefreshUser, RefreshAcademy,
                          CheckFails, tables
      <4> QED
        BY <4>1 DEF Live
    <3> QED
      BY <3>1, <3>2, <3>3, <3>4
  <2> QED
    BY <1>1, <2>1, <2>2, StepKinds
<1>2. TypeOK /\ Chain /\ [Next]_vars => [Final]_vars
  BY <1>1
<1> QED
  BY <1>2, TypeCorrect, ChainInit, ChainStep, PTL DEF Spec, RevocationIsFinal

-----------------------------------------------------------------------------
(* What a reset or a recovery puts an end to.                              *)

Account ==
  /\ user.stamp = lastReset
  /\ user.password = writes
  /\ lastReset <= writes
  /\ lastClosed <= lastReset

\* The stamp and the password of a login are read together, and only what was
\* under way when the sessions were closed carries an older password.
OldRow(row) == row.proof < lastClosed => row.spared
Passwords ==
  /\ \A s \in Ids : /\ sessions[s].parent = 0 => sessions[s].stamp <= sessions[s].proof
                    /\ Live(s) /\ sessions[s].ready => OldRow(sessions[s])
  /\ \A r \in Requests : pc[r] \in Granting =>
       /\ loc[r].from = 0 => loc[r].stamp <= loc[r].proof
       /\ OldRow(loc[r])

\* The account after every step.
LEMMA AccountStep ==
  ASSUME TypeOK, Account, [Next]_vars
  PROVE  Account' /\ (lastClosed' = lastClosed \/ \E r \in Requests : revokeAll(r))
<1> DEFINE Goal == Account' /\ (lastClosed' = lastClosed \/ \E r \in Requests : revokeAll(r))
<1> SUFFICES Goal
  OBVIOUS
<1>0. /\ writes \in Nat /\ lastReset \in Nat /\ lastClosed \in Nat /\ user \in Users
  BY DEF TypeOK, Users
<1>1. ASSUME NEW r \in Requests, login(r) PROVE Goal
  BY <1>1 DEF Account, login, account, tables
<1>2. ASSUME NEW r \in Requests, LoginAcademy(r) PROVE Goal
  BY <1>2 DEF Account, LoginAcademy, account, tables
<1>3. ASSUME NEW r \in Requests, SessionInsert(r) PROVE Goal
  BY <1>3 DEF Account, SessionInsert, account, tables
<1>4. ASSUME NEW r \in Requests, updateRefreshCredentials(r) PROVE Goal
  BY <1>4 DEF Account, updateRefreshCredentials, account, tables
<1>5. ASSUME NEW r \in Requests, RefreshUser(r) PROVE Goal
  BY <1>5 DEF Account, RefreshUser, account, tables
<1>6. ASSUME NEW r \in Requests, RefreshAcademy(r) PROVE Goal
  BY <1>6 DEF Account, RefreshAcademy, account, tables
<1>7. ASSUME NEW r \in Requests, CheckFails(r) PROVE Goal
  BY <1>7 DEF Account, CheckFails, account, tables
<1>8. ASSUME NEW r \in Requests, RefreshReject(r) PROVE Goal
  BY <1>8 DEF Account, RefreshReject, account, tables
<1>9. ASSUME NEW r \in Requests, Rotate(r) PROVE Goal
  BY <1>9 DEF Account, Rotate, account, tables
<1>10. ASSUME NEW r \in Requests, LogoutRevoke(r) PROVE Goal
  BY <1>10 DEF Account, LogoutRevoke, account, tables
<1>11. ASSUME NEW r \in Requests, changePassword(r) PROVE Goal
  BY <1>11 DEF Account, changePassword, account, tables
<1>12. ASSUME NEW r \in Requests, ChangeWrite(r) PROVE Goal
  BY <1>12, <1>0 DEF Account, ChangeWrite, account, tables, Users
<1>13. ASSUME NEW r \in Requests, resolveCurrentSessionId(r) PROVE Goal
  BY <1>13 DEF Account, resolveCurrentSessionId, account, tables
<1>14. ASSUME NEW r \in Requests, RevokeOthers(r) PROVE Goal
  BY <1>14 DEF Account, RevokeOthers, account, tables
<1>15. ASSUME NEW r \in Requests, resetPassword(r) PROVE Goal
  BY <1>15, <1>0 DEF Account, resetPassword, account, tables, Users
<1>16. ASSUME NEW r \in Requests, revokeAll(r) PROVE Goal
  <2>1. Account'
    BY <1>16, <1>0 DEF Account, revokeAll, account
  <2> QED
    BY <1>16, <2>1
<1>17. ASSUME NEW r \in Requests, LinkRetire(r) PROVE Goal
  BY <1>17 DEF Account, LinkRetire, account, tables
<1>18. ASSUME NEW r \in Requests, LinkInsert(r) PROVE Goal
  BY <1>18 DEF Account, LinkInsert, account, tables
<1>19. ASSUME NEW r \in Requests, ConfirmUser(r) PROVE Goal
  BY <1>19 DEF Account, ConfirmUser, account, tables
<1>20. ASSUME NEW r \in Requests, markUsed(r) PROVE Goal
  BY <1>20 DEF Account, markUsed, account, tables
<1>21. ASSUME NEW r \in Requests, ConfirmWrite(r) PROVE Goal
  BY <1>21, <1>0 DEF Account, ConfirmWrite, account, tables, Users
<1>22. ASSUME NEW r \in Requests, deactivateUser(r) PROVE Goal
  BY <1>22, <1>0 DEF Account, deactivateUser, account, tables, Users
<1>23. ASSUME NEW r \in Requests, suspendAcademy(r) PROVE Goal
  BY <1>23, <1>0 DEF Account, suspendAcademy, account, tables, Users
<1>24. ASSUME NEW r \in Requests, Fail(r) PROVE Goal
  BY <1>24 DEF Account, Fail, account, tables
<1>25. ASSUME NEW r \in Requests, NEW s \in Ids, performRefresh(r, s) PROVE Goal
  BY <1>25 DEF Account, performRefresh, account, tables
<1>26. ASSUME NEW r \in Requests, NEW s \in Ids, logout(r, s) PROVE Goal
  BY <1>26 DEF Account, logout, account, tables
<1>27. ASSUME NEW r \in Requests, NEW s \in Ids, ChangeAuthenticate(r, s) PROVE Goal
  BY <1>27 DEF Account, ChangeAuthenticate, account, tables
<1>28. ASSUME NEW r \in Requests, NEW l \in LinkIds, confirm(r, l) PROVE Goal
  BY <1>28 DEF Account, confirm, account, tables
<1>29. CASE deactivatePlayerUser
  BY <1>29, <1>0 DEF Account, deactivatePlayerUser, account, tables, Users
<1>30. CASE activateUser
  BY <1>30, <1>0 DEF Account, activateUser, account, tables, Users
<1>31. CASE reactivateAcademy
  BY <1>31, <1>0 DEF Account, reactivateAcademy, account, tables, Users
<1>32. CASE Restart
  BY <1>32 DEF Account, Restart, account, tables
<1>33. ASSUME NEW s \in Ids, SessionAges(s) PROVE Goal
  BY <1>33 DEF Account, SessionAges, account, tables
<1>34. ASSUME NEW s \in Ids, purgeStaleSessions(s) PROVE Goal
  BY <1>34 DEF Account, purgeStaleSessions, account, tables
<1>35. ASSUME NEW l \in LinkIds, LinkExpires(l) PROVE Goal
  BY <1>35 DEF Account, LinkExpires, account, tables
<1>36. CASE UNCHANGED vars
  BY <1>36 DEF Account, vars
<1> QED
  BY <1>1, <1>2, <1>3, <1>4, <1>5, <1>6, <1>7, <1>8, <1>9, <1>10, <1>11, <1>12, <1>13, <1>14,
     <1>15, <1>16, <1>17, <1>18, <1>19, <1>20, <1>21, <1>22, <1>23, <1>24, <1>25, <1>26, <1>27,
        <1>28, <1>29, <1>30, <1>31, <1>32, <1>33, <1>34, <1>35, <1>36 DEF Next

LEMMA PasswordsStep ==
  ASSUME TypeOK, Chain, Account, Passwords, [Next]_vars
  PROVE  Passwords'
<1>0. /\ pc \in [Requests -> Stages] /\ loc \in [Requests -> Locals]
      /\ sessions \in [Ids -> SessionRows] /\ lastClosed \in Nat /\ lastReset \in Nat
      /\ user.stamp \in Nat /\ user.password \in Nat /\ writes \in Nat
  BY DEF TypeOK, Locals, SessionRows
<1>1. ASSUME NEW r \in Requests, revokeAll(r) PROVE Passwords'
  <2>1. \A s \in Ids : ~Live(s)' /\ sessions'[s].parent = sessions[s].parent
                       /\ sessions'[s].stamp = sessions[s].stamp /\ sessions'[s].proof = sessions[s].proof
    BY <1>0, <1>1 DEF revokeAll, Live, SessionRows
  <2>2. \A q \in Requests : pc'[q] \in Granting =>
          /\ pc[q] = pc'[q] /\ loc'[q].from = loc[q].from /\ loc'[q].stamp = loc[q].stamp
          /\ loc'[q].proof = loc[q].proof /\ loc'[q].spared
    BY <1>0, <1>1 DEF revokeAll, Granting, Locals
  <2> QED
    BY <2>1, <2>2 DEF Passwords, OldRow
<1>2. CASE Quiet /\ lastClosed' = lastClosed
  <2>1. ASSUME NEW s \in Ids
        PROVE  /\ sessions'[s].parent = 0 => sessions'[s].stamp <= sessions'[s].proof
               /\ (Live(s) /\ sessions[s].ready => OldRow(sessions[s]))'
    BY <1>2 DEF Quiet, Demoted, Passwords, OldRow
  <2>2. ASSUME NEW q \in Requests, pc'[q] \in Granting
        PROVE  /\ loc'[q].from = 0 => loc'[q].stamp <= loc'[q].proof
               /\ OldRow(loc[q])'
    <3>1. Kept(q)
      BY <1>2, <2>2 DEF Quiet, Ended, Aside, Granting, Busy, Checking
    <3> QED
      BY <1>2, <2>2, <3>1 DEF Kept, Passwords, OldRow
  <2> QED
    BY <2>1, <2>2 DEF Passwords
<1>3. ASSUME NEW r \in Requests, Opens(r), lastClosed' = lastClosed PROVE Passwords'
  <2> DEFINE RowsKept == \A s \in Ids :
                /\ sessions'[s].parent = 0 => sessions'[s].stamp <= sessions'[s].proof
                /\ (Live(s) /\ sessions[s].ready => OldRow(sessions[s]))'
             SlotFine(q) == pc'[q] \in Granting =>
                /\ loc'[q].from = 0 => loc'[q].stamp <= loc'[q].proof
                /\ OldRow(loc[q])'
  <2>0. Flight(r)
    BY DEF Chain
  <2>1. ASSUME sessions' = sessions PROVE RowsKept
    BY <2>1, <1>3 DEF Passwords, OldRow, Live
  <2>2. ASSUME NEW q \in Requests, pc'[q] = pc[q], loc'[q] = loc[q] PROVE SlotFine(q)
    BY <2>2, <1>3 DEF Passwords, OldRow
  <2>3. ASSUME RowsKept, Alone(r), SlotFine(r) PROVE Passwords'
    BY <2>2, <2>3 DEF Alone, Passwords
  <2>4. CASE login(r)
    <3>1. sessions' = sessions /\ Alone(r)
      BY <2>4, <1>0 DEF login, Begin, tables, Alone
    <3>2. loc'[r].stamp = user.stamp /\ loc'[r].proof = user.password
      BY <2>4, <1>0 DEF login, Begin, NoLocals
    <3>3. SlotFine(r)
      BY <3>2, <1>0, <1>3 DEF Account, OldRow
    <3> QED
      BY <3>1, <3>3, <2>1, <2>3
  <2>5. ASSUME NEW s \in Ids, performRefresh(r, s) PROVE Passwords'
    <3>1. sessions' = sessions /\ Alone(r) /\ Live(s) /\ sessions[s].ready /\ s # 0
      BY <2>5, <1>0 DEF performRefresh, Begin, tables, Alone, Ids
    <3>2. loc'[r].from = s /\ loc'[r].proof = sessions[s].proof /\ loc'[r].spared = sessions[s].spared
      BY <2>5, <1>0 DEF performRefresh, Begin, NoLocals
    <3>3. SlotFine(r)
      BY <3>1, <3>2, <1>3 DEF Passwords, OldRow
    <3> QED
      BY <3>1, <3>3, <2>1, <2>3
  <2>6. CASE LoginAcademy(r) \/ RefreshAcademy(r) \/ CheckFails(r)
    <3>1. sessions' = sessions /\ Alone(r) /\ pc[r] \in Granting
          /\ (loc'[r] = loc[r] \/ pc'[r] = "idle")
      BY <2>6, <1>0 DEF LoginAcademy, RefreshAcademy, CheckFails, Goto, Finish, tables, Alone,
         Granting
    <3>2. SlotFine(r)
      BY <3>1, <1>3 DEF Passwords, OldRow, Granting
    <3> QED
      BY <3>1, <3>2, <2>1, <2>3
  <2>7. CASE RefreshUser(r)
    <3>1. /\ sessions' = sessions /\ Alone(r) /\ pc[r] = "refreshUser"
          /\ loc'[r].from = loc[r].from /\ loc'[r].proof = loc[r].proof /\ loc'[r].spared = loc[r].spared
      BY <2>7, <1>0 DEF RefreshUser, tables, Alone
    <3>2. loc[r].from # 0
      BY <3>1, <2>0 DEF Flight, Checking
    <3>3. SlotFine(r)
      BY <3>1, <3>2, <1>3 DEF Passwords, OldRow, Granting
    <3> QED
      BY <3>1, <3>3, <2>1, <2>3
  <2>8. CASE Rotate(r)
    <3>1. Alone(r) /\ pc[r] = "rotate" /\ loc' = loc /\ Demoted
      BY <2>8, <1>0, RevokedDemoted DEF Rotate, Goto, Alone
    <3>2. RowsKept
      BY <3>1, <1>3 DEF Demoted, Passwords, OldRow
    <3>3. SlotFine(r)
      BY <3>1, <1>3 DEF Passwords, OldRow, Granting
    <3> QED
      BY <3>1, <3>2, <3>3, <2>3
  <2>9. CASE SessionInsert(r)
    <3> DEFINE row == [NoSession EXCEPT !.state = "live", !.stamp = loc[r].stamp,
       !.parent = loc[r].from,
                                        !.proof = loc[r].proof, !.spared = loc[r].spared]
    <3>1. /\ Alone(r) /\ pc[r] = "insert" /\ pc'[r] = "update" /\ issued + 1 \in Ids
          /\ loc'[r].from = loc[r].from /\ loc'[r].stamp = loc[r].stamp
          /\ loc'[r].proof = loc[r].proof /\ loc'[r].spared = loc[r].spared
          /\ sessions' = [sessions EXCEPT ![issued + 1] = row]
      <4>1. Alone(r) /\ pc[r] = "insert" /\ pc'[r] = "update"
        BY <2>9, <1>0 DEF SessionInsert, Alone, TypeOK
      <4>2. issued + 1 \in Ids
        <5>1. issued \in Nat /\ issued < MaxSessions
          BY <2>9, <1>0 DEF SessionInsert, TypeOK
        <5> QED
          BY <5>1, BoundsAssumption DEF Ids
      <4>3. /\ loc'[r].from = loc[r].from /\ loc'[r].stamp = loc[r].stamp
            /\ loc'[r].proof = loc[r].proof /\ loc'[r].spared = loc[r].spared
        BY <2>9, <1>0 DEF SessionInsert, TypeOK
      <4>4. sessions' = [sessions EXCEPT ![issued + 1] = row]
        BY <2>9 DEF SessionInsert
      <4> QED
        BY <4>1, <4>2, <4>3, <4>4
    <3>2. SlotFine(r)
      BY <3>1, <1>3 DEF Passwords, OldRow, Granting
    <3>3. row.parent = loc[r].from /\ row.stamp = loc[r].stamp /\ row.proof = loc[r].proof /\ ~row.ready
      BY DEF NoSession
    <3>4. \A s \in Ids : sessions'[s] = IF s = issued + 1 THEN row ELSE sessions[s]
      BY <3>1, <1>0
    <3>5. loc[r].from = 0 => loc[r].stamp <= loc[r].proof
      BY <3>1 DEF Passwords, Granting
    <3>6. RowsKept
      BY <3>3, <3>4, <3>5, <1>3 DEF Passwords, OldRow, Live
    <3> QED
      BY <3>1, <3>2, <3>6, <2>3
  <2>10. CASE updateRefreshCredentials(r)
    <3> DEFINE sid == loc[r].sid
    <3>1. /\ Alone(r) /\ pc[r] = "update" /\ pc'[r] = "idle"
          /\ sessions' = [sessions EXCEPT ![sid].state = "live", ![sid].ready = TRUE,
                                          ![sid].spared = loc[r].spared]
      BY <2>10, <1>0 DEF updateRefreshCredentials, Finish, Alone
    <3>2. sid \in Ids /\ sessions[sid].proof = loc[r].proof /\ OldRow(loc[r])
      BY <2>0, <3>1 DEF Flight, Passwords, Granting
    <3>3. /\ \A s \in Ids \ {sid} : sessions'[s] = sessions[s]
          /\ sessions'[sid].parent = sessions[sid].parent /\ sessions'[sid].stamp = sessions[sid].stamp
          /\ sessions'[sid].proof = sessions[sid].proof /\ sessions'[sid].spared = loc[r].spared
      BY <3>1, <3>2, <1>0 DEF SessionRows
    <3>4. RowsKept
      BY <3>2, <3>3, <1>3 DEF Passwords, OldRow, Live
    <3> QED
      BY <3>1, <3>4, <2>3 DEF Granting
  <2> QED
    BY <1>3, <2>4, <2>5, <2>6, <2>7, <2>8, <2>9, <2>10 DEF Opens
<1> QED
  BY <1>1, <1>2, <1>3, AccountStep, StepKinds

LEMMA PasswordsInit == Init => Account /\ Passwords
BY DEF Init, Account, Passwords, OldRow, NoSession, NoLocals, Granting, Live

\* What serves of an older password.
LEMMA PasswordsSuffice == TypeOK /\ Account /\ Passwords => OldPasswordNeverServes /\ OldSessionsClosed
<1> SUFFICES ASSUME TypeOK, Account, Passwords PROVE OldPasswordNeverServes /\ OldSessionsClosed
  OBVIOUS
<1>1. sessions \in [Ids -> SessionRows]
  BY DEF TypeOK, SessionRows
<1>2. \A s \in Ids : sessions[s].proof \in Nat /\ sessions[s].stamp \in Nat
  BY <1>1 DEF SessionRows
<1>3. lastReset \in Nat /\ user.stamp = lastReset
  BY DEF TypeOK, Account
<1>4. OldPasswordNeverServes
  BY <1>2, <1>3 DEF OldPasswordNeverServes, Accepts, Passwords
<1>5. OldSessionsClosed
  BY DEF OldSessionsClosed, Passwords, OldRow
<1> QED
  BY <1>4, <1>5

LEMMA PasswordsInvariance == Spec => [](Account /\ Passwords)
<1>1. TypeOK /\ Chain /\ Account /\ Passwords /\ [Next]_vars => (Account /\ Passwords)'
  BY AccountStep, PasswordsStep
<1> QED
  BY <1>1, TypeCorrect, ChainInit, ChainStep, PasswordsInit, PTL DEF Spec

\* After a reset or a recovery no access token of an older login is taken, whether or
\* not the sessions get closed (the claim passwordResetAt is compared with the user).
THEOREM OldPasswordsGone == Spec => []OldPasswordNeverServes
BY PasswordsSuffice, PasswordsInvariance, TypeCorrect, PTL

\* Once the sessions are closed after a reset or a recovery, only a login or a refresh
\* that was under way then leaves one of an older password (revokeAllForUser).
THEOREM OldSessionsEnd == Spec => []OldSessionsClosed
BY PasswordsSuffice, PasswordsInvariance, TypeCorrect, PTL

-----------------------------------------------------------------------------
(* Recovery links.                                                         *)

Confirming == {"confirmUser", "claim", "confirmWrite"}
LinkInv ==
  /\ \A l \in LinkIds : /\ l > mailed => links[l].state = "none"
                        /\ links[l].redeemed <= 1
                        /\ links[l].redeemed # 0 => links[l].state = "used"
  /\ \A r \in Requests : pc[r] \in Confirming =>
       /\ loc[r].link \in LinkIds /\ loc[r].link <= mailed
       /\ pc[r] = "confirmWrite" =>
            links[loc[r].link].state = "used" /\ links[loc[r].link].redeemed = 0
  /\ \A r, q \in Requests : r # q /\ pc[r] = "confirmWrite" /\ pc[q] = "confirmWrite"
                            => loc[r].link # loc[q].link

\* A request that redeems no link, or goes on with its own.
Aloof(q) == pc'[q] \notin Confirming \/ (pc'[q] = pc[q] /\ loc'[q].link = loc[q].link)

OnLinks(r) ==
  \/ LinkRetire(r) \/ LinkInsert(r) \/ ConfirmUser(r) \/ markUsed(r) \/ ConfirmWrite(r)
  \/ \E l \in LinkIds : confirm(r, l)

\* All other steps leave the links alone.
LEMMA OffLinks ==
  ASSUME TypeOK, [Next]_vars
  PROVE  \/ UNCHANGED recovery /\ \A q \in Requests : Aloof(q)
         \/ \E r \in Requests : OnLinks(r)
         \/ \E l \in LinkIds : LinkExpires(l)
<1> DEFINE Goal == \/ UNCHANGED recovery /\ \A q \in Requests : Aloof(q)
                   \/ \E r \in Requests : OnLinks(r)
                   \/ \E l \in LinkIds : LinkExpires(l)
<1> SUFFICES Goal
  OBVIOUS
<1>0. /\ pc \in [Requests -> Stages] /\ loc \in [Requests -> Locals]
  BY DEF TypeOK, Locals
<1>1. ASSUME NEW r \in Requests, login(r) PROVE Goal
  BY <1>1, <1>0 DEF login, Aloof, Confirming, Begin, Goto, Finish
<1>2. ASSUME NEW r \in Requests, LoginAcademy(r) PROVE Goal
  BY <1>2, <1>0 DEF LoginAcademy, Aloof, Confirming, Begin, Goto, Finish
<1>3. ASSUME NEW r \in Requests, SessionInsert(r) PROVE Goal
  BY <1>3, <1>0 DEF SessionInsert, Aloof, Confirming, Begin, Goto, Finish
<1>4. ASSUME NEW r \in Requests, updateRefreshCredentials(r) PROVE Goal
  BY <1>4, <1>0 DEF updateRefreshCredentials, Aloof, Confirming, Begin, Goto, Finish
<1>5. ASSUME NEW r \in Requests, RefreshUser(r) PROVE Goal
  BY <1>5, <1>0 DEF RefreshUser, Aloof, Confirming, Begin, Goto, Finish
<1>6. ASSUME NEW r \in Requests, RefreshAcademy(r) PROVE Goal
  BY <1>6, <1>0 DEF RefreshAcademy, Aloof, Confirming, Begin, Goto, Finish
<1>7. ASSUME NEW r \in Requests, CheckFails(r) PROVE Goal
  BY <1>7, <1>0 DEF CheckFails, Aloof, Confirming, Begin, Goto, Finish
<1>8. ASSUME NEW r \in Requests, RefreshReject(r) PROVE Goal
  BY <1>8, <1>0 DEF RefreshReject, Aloof, Confirming, Begin, Goto, Finish
<1>9. ASSUME NEW r \in Requests, Rotate(r) PROVE Goal
  BY <1>9, <1>0 DEF Rotate, Aloof, Confirming, Begin, Goto, Finish
<1>10. ASSUME NEW r \in Requests, LogoutRevoke(r) PROVE Goal
  BY <1>10, <1>0 DEF LogoutRevoke, Aloof, Confirming, Begin, Goto, Finish
<1>11. ASSUME NEW r \in Requests, changePassword(r) PROVE Goal
  BY <1>11, <1>0 DEF changePassword, Aloof, Confirming, Begin, Goto, Finish
<1>12. ASSUME NEW r \in Requests, ChangeWrite(r) PROVE Goal
  BY <1>12, <1>0 DEF ChangeWrite, Aloof, Confirming, Begin, Goto, Finish
<1>13. ASSUME NEW r \in Requests, resolveCurrentSessionId(r) PROVE Goal
  BY <1>13, <1>0 DEF resolveCurrentSessionId, Aloof, Confirming, Begin, Goto, Finish
<1>14. ASSUME NEW r \in Requests, RevokeOthers(r) PROVE Goal
  BY <1>14, <1>0 DEF RevokeOthers, Aloof, Confirming, Begin, Goto, Finish
<1>15. ASSUME NEW r \in Requests, resetPassword(r) PROVE Goal
  BY <1>15, <1>0 DEF resetPassword, Aloof, Confirming, Begin, Goto, Finish
<1>16. ASSUME NEW r \in Requests, revokeAll(r) PROVE Goal
  BY <1>16, <1>0 DEF revokeAll, Aloof, Confirming, Locals
<1>17. ASSUME NEW r \in Requests, LinkRetire(r) PROVE Goal
  BY <1>17 DEF OnLinks
<1>18. ASSUME NEW r \in Requests, LinkInsert(r) PROVE Goal
  BY <1>18 DEF OnLinks
<1>19. ASSUME NEW r \in Requests, ConfirmUser(r) PROVE Goal
  BY <1>19 DEF OnLinks
<1>20. ASSUME NEW r \in Requests, markUsed(r) PROVE Goal
  BY <1>20 DEF OnLinks
<1>21. ASSUME NEW r \in Requests, ConfirmWrite(r) PROVE Goal
  BY <1>21 DEF OnLinks
<1>22. ASSUME NEW r \in Requests, deactivateUser(r) PROVE Goal
  BY <1>22, <1>0 DEF deactivateUser, Aloof, Confirming, Begin, Goto, Finish
<1>23. ASSUME NEW r \in Requests, suspendAcademy(r) PROVE Goal
  BY <1>23, <1>0 DEF suspendAcademy, Aloof, Confirming, Begin, Goto, Finish
<1>24. ASSUME NEW r \in Requests, Fail(r) PROVE Goal
  BY <1>24, <1>0 DEF Fail, Aloof, Confirming, Begin, Goto, Finish
<1>25. ASSUME NEW r \in Requests, NEW s \in Ids, performRefresh(r, s) PROVE Goal
  BY <1>25, <1>0 DEF performRefresh, Aloof, Confirming, Begin, Goto, Finish
<1>26. ASSUME NEW r \in Requests, NEW s \in Ids, logout(r, s) PROVE Goal
  <2>1. CASE UNCHANGED slots
    BY <1>26, <2>1 DEF logout, slots, Aloof
  <2>2. CASE Begin(r, "logout", [NoLocals EXCEPT !.sid = s])
    BY <1>26, <2>2, <1>0 DEF logout, Begin, Aloof, Confirming
  <2> QED
    BY <1>26, <2>1, <2>2 DEF logout
<1>27. ASSUME NEW r \in Requests, NEW s \in Ids, ChangeAuthenticate(r, s) PROVE Goal
  BY <1>27, <1>0 DEF ChangeAuthenticate, Aloof, Confirming, Begin, Goto, Finish
<1>28. ASSUME NEW r \in Requests, NEW l \in LinkIds, confirm(r, l) PROVE Goal
  BY <1>28 DEF OnLinks
<1>29. CASE deactivatePlayerUser
  BY <1>29 DEF deactivatePlayerUser, Aloof, Confirming, slots
<1>30. CASE activateUser
  BY <1>30, <1>0 DEF activateUser, Aloof, Confirming, Unlocked, Locals
<1>31. CASE reactivateAcademy
  BY <1>31, <1>0 DEF reactivateAcademy, Aloof, Confirming, Unlocked, Locals
<1>32. CASE Restart
  BY <1>32, <1>0 DEF Restart, Aloof, Confirming, Begin, Goto, Finish
<1>33. ASSUME NEW s \in Ids, SessionAges(s) PROVE Goal
  BY <1>33 DEF SessionAges, Aloof, Confirming, slots
<1>34. ASSUME NEW s \in Ids, purgeStaleSessions(s) PROVE Goal
  BY <1>34 DEF purgeStaleSessions, Aloof, Confirming, slots
<1>35. ASSUME NEW l \in LinkIds, LinkExpires(l) PROVE Goal
  BY <1>35
<1>36. CASE UNCHANGED vars
  BY <1>36 DEF vars, recovery, Aloof
<1> QED
  BY <1>1, <1>2, <1>3, <1>4, <1>5, <1>6, <1>7, <1>8, <1>9, <1>10, <1>11, <1>12, <1>13, <1>14,
     <1>15, <1>16, <1>17, <1>18, <1>19, <1>20, <1>21, <1>22, <1>23, <1>24, <1>25, <1>26, <1>27,
        <1>28, <1>29, <1>30, <1>31, <1>32, <1>33, <1>34, <1>35, <1>36 DEF Next

LEMMA LinksStep ==
  ASSUME TypeOK, LinkInv, [Next]_vars
  PROVE  LinkInv'
<1>0. /\ pc \in [Requests -> Stages] /\ loc \in [Requests -> Locals]
      /\ links \in [LinkIds -> Links] /\ mailed \in 0..MaxLinks /\ MaxLinks \in Nat
      /\ \A l \in LinkIds : l \in Nat
  BY BoundsAssumption DEF TypeOK, Locals, Links, LinkIds
<1>1. CASE UNCHANGED recovery /\ \A q \in Requests : Aloof(q)
  BY <1>1 DEF recovery, Aloof, LinkInv, Confirming
<1>2. ASSUME NEW r \in Requests, LinkRetire(r) PROVE LinkInv'
  <2>1. /\ \A l \in LinkIds : /\ links'[l].redeemed = links[l].redeemed
                              /\ links[l].state \in {"none", "used"} => links'[l] = links[l]
                              /\ links'[l].state \in {links[l].state, "used"}
        /\ mailed' = mailed
    BY <1>0, <1>2 DEF LinkRetire, Unused, Links
  <2>2. \A q \in Requests : Aloof(q)
    BY <1>0, <1>2 DEF LinkRetire, Begin, Aloof, Confirming
  <2> QED
    BY <2>1, <2>2 DEF Aloof, LinkInv, Confirming
<1>3. ASSUME NEW r \in Requests, LinkInsert(r) PROVE LinkInv'
  <2>1. /\ mailed' = mailed + 1 /\ mailed + 1 \in LinkIds
        /\ links' = [links EXCEPT ![mailed + 1].state = "open"]
    BY <1>0, <1>3 DEF LinkInsert, LinkIds
  <2>2. /\ links[mailed + 1].state = "none" /\ links[mailed + 1].redeemed = 0
        /\ links'[mailed + 1].redeemed = 0
        /\ \A l \in LinkIds : l # mailed + 1 => links'[l] = links[l]
    BY <1>0, <2>1 DEF LinkInv, Links
  <2>3. \A q \in Requests : Aloof(q)
    BY <1>0, <1>3 DEF LinkInsert, Finish, Aloof, Confirming
  <2>4. \A q \in Requests : pc'[q] \in Confirming =>
          /\ pc'[q] = pc[q] /\ loc'[q].link = loc[q].link /\ loc[q].link # mailed + 1
          /\ loc[q].link \in LinkIds
    BY <1>0, <2>3 DEF Aloof, LinkInv
  <2>5. \A l \in LinkIds : /\ l > mailed' => links'[l].state = "none"
                           /\ links'[l].redeemed <= 1
                           /\ links'[l].redeemed # 0 => links'[l].state = "used"
    BY <1>0, <2>1, <2>2 DEF LinkInv
  <2> QED
    BY <1>0, <2>1, <2>2, <2>4, <2>5 DEF LinkInv, Confirming
<1>4. ASSUME NEW l \in LinkIds, LinkExpires(l) PROVE LinkInv'
  <2>1. /\ mailed' = mailed /\ pc' = pc /\ loc' = loc /\ links[l].state = "open"
        /\ \A k \in LinkIds : /\ k # l => links'[k] = links[k]
                              /\ links'[k].redeemed = links[k].redeemed
        /\ links'[l].state = "expired"
    BY <1>0, <1>4 DEF LinkExpires, Redeemable, slots, Links
  <2> QED
    BY <2>1 DEF LinkInv, Confirming
<1>5. ASSUME NEW r \in Requests, NEW l \in LinkIds, confirm(r, l) PROVE LinkInv'
  <2>1. /\ links' = links /\ mailed' = mailed /\ Alone(r)
        /\ pc'[r] = "confirmUser" /\ loc'[r].link = l /\ links[l].state = "open"
    BY <1>0, <1>5 DEF confirm, Begin, Redeemable, recovery, Alone, NoLocals
  <2>2. l <= mailed
    BY <1>0, <2>1 DEF LinkInv
  <2> QED
    BY <2>1, <2>2 DEF LinkInv, Alone, Confirming
<1>6. ASSUME NEW r \in Requests, ConfirmUser(r) PROVE LinkInv'
  <2>1. /\ links' = links /\ mailed' = mailed /\ Alone(r) /\ pc[r] = "confirmUser"
        /\ (pc'[r] = "claim" /\ loc'[r] = loc[r]) \/ pc'[r] = "idle"
    BY <1>0, <1>6 DEF ConfirmUser, Goto, Finish, recovery, Alone
  <2> QED
    BY <2>1 DEF LinkInv, Alone, Confirming
<1>7. ASSUME NEW r \in Requests, markUsed(r) PROVE LinkInv'
  <2> DEFINE l == loc[r].link
  <2>0. l \in LinkIds /\ l <= mailed
    BY <1>7 DEF markUsed, LinkInv, Confirming
  <2>1. CASE Unused(l)
    <3>1. /\ mailed' = mailed /\ Alone(r) /\ pc'[r] = "confirmWrite" /\ loc'[r] = loc[r]
          /\ links' = [links EXCEPT ![l].state = "used"]
      BY <1>0, <1>7, <2>1 DEF markUsed, Goto, Alone
    <3>2. links[l].redeemed = 0 /\ links[l].state # "used"
      BY <2>0, <2>1 DEF LinkInv, Unused
    <3>3. /\ \A k \in LinkIds : k # l => links'[k] = links[k]
          /\ links'[l].state = "used" /\ links'[l].redeemed = 0
      BY <1>0, <2>0, <3>1, <3>2 DEF Links
    <3>4. \A q \in Requests \ {r} : pc[q] = "confirmWrite" => loc[q].link # l
      BY <3>2 DEF LinkInv, Confirming
    <3> QED
      BY <1>0, <2>0, <3>1, <3>3, <3>4 DEF LinkInv, Alone, Confirming
  <2>2. CASE ~Unused(l)
    <3>1. links' = links /\ mailed' = mailed /\ Alone(r) /\ pc'[r] = "idle"
      BY <1>0, <1>7, <2>2 DEF markUsed, Finish, Alone
    <3> QED
      BY <3>1 DEF LinkInv, Alone, Confirming
  <2> QED
    BY <2>1, <2>2
<1>8. ASSUME NEW r \in Requests, ConfirmWrite(r) PROVE LinkInv'
  <2> DEFINE l == loc[r].link
  <2>1. /\ mailed' = mailed /\ Alone(r) /\ pc[r] = "confirmWrite" /\ pc'[r] = "revokeAll"
        /\ links' = [links EXCEPT ![l].redeemed = @ + 1]
    BY <1>0, <1>8 DEF ConfirmWrite, Goto, Alone
  <2>2. l \in LinkIds /\ links[l].state = "used" /\ links[l].redeemed = 0
    BY <2>1 DEF LinkInv, Confirming
  <2>3. /\ \A k \in LinkIds : k # l => links'[k] = links[k]
        /\ links'[l].state = "used" /\ links'[l].redeemed = 1
    BY <1>0, <2>1, <2>2 DEF Links
  <2>4. \A q \in Requests \ {r} : pc[q] = "confirmWrite" => loc[q].link # l
    BY <2>1 DEF LinkInv
  <2> QED
    BY <1>0, <2>1, <2>2, <2>3, <2>4 DEF LinkInv, Alone, Confirming
<1> QED
  BY <1>1, <1>2, <1>3, <1>4, <1>5, <1>6, <1>7, <1>8, OffLinks DEF OnLinks

\* However many redemptions of a link overlap, one of them at most gets to
\* change the password.
THEOREM OneRedemptionPerLink == Spec => []LinkRedeemedOnce
<1>1. Init => LinkInv
  BY DEF Init, LinkInv, NoLink, Confirming
<1>2. TypeOK /\ LinkInv /\ [Next]_vars => LinkInv'
  BY LinksStep
<1>3. LinkInv => LinkRedeemedOnce
  BY DEF LinkInv, LinkRedeemedOnce
<1> QED
  BY <1>1, <1>2, <1>3, TypeCorrect, PTL DEF Spec

-----------------------------------------------------------------------------
(* Locks.                                                                  *)

\* What a request has seen: the locks it holds for closed are closed, and none
\* is that it has found open.
Seen(q) ==
  /\ "user" \in loc[q].shut => ~user.active
  /\ "academy" \in loc[q].shut => academy # "active"
  /\ pc[q] \in {"loginAcademy", "refreshAcademy"} => "user" \notin loc[q].shut
  /\ pc[q] \in Cleared => loc[q].shut = {}
LockInv == \A q \in Requests : Seen(q)

LEMMA LocksStep ==
  ASSUME TypeOK, LockInv, [Next]_vars
  PROVE  LockInv'
<1> SUFFICES ASSUME NEW q \in Requests PROVE Seen(q)'
  BY DEF LockInv
<1> DEFINE Goal == Seen(q)'
<1>0. /\ pc \in [Requests -> Stages] /\ loc \in [Requests -> Locals] /\ Seen(q)
      /\ loc[q].shut \in SUBSET {"user", "academy"} /\ user \in Users
  BY DEF TypeOK, Locals, LockInv, Users
<1>1. ASSUME NEW r \in Requests, login(r) PROVE Goal
  BY <1>1, <1>0 DEF login, Seen, Cleared, Begin, Goto, Finish, Shut, NoLocals, account, Users
<1>2. ASSUME NEW r \in Requests, LoginAcademy(r) PROVE Goal
  BY <1>2, <1>0 DEF LoginAcademy, Seen, Cleared, Begin, Goto, Finish, Shut, NoLocals, account, Users
<1>3. ASSUME NEW r \in Requests, SessionInsert(r) PROVE Goal
  BY <1>3, <1>0 DEF SessionInsert, Seen, Cleared, Begin, Goto, Finish, Shut, NoLocals, account,
     Users
<1>4. ASSUME NEW r \in Requests, updateRefreshCredentials(r) PROVE Goal
  BY <1>4, <1>0 DEF updateRefreshCredentials, Seen, Cleared, Begin, Goto, Finish, Shut, NoLocals,
     account, Users
<1>5. ASSUME NEW r \in Requests, RefreshUser(r) PROVE Goal
  BY <1>5, <1>0 DEF RefreshUser, Seen, Cleared, Begin, Goto, Finish, Shut, NoLocals, account, Users
<1>6. ASSUME NEW r \in Requests, RefreshAcademy(r) PROVE Goal
  BY <1>6, <1>0 DEF RefreshAcademy, Seen, Cleared, Begin, Goto, Finish, Shut, NoLocals, account,
     Users
<1>7. ASSUME NEW r \in Requests, CheckFails(r) PROVE Goal
  BY <1>7, <1>0 DEF CheckFails, Seen, Cleared, Begin, Goto, Finish, Shut, NoLocals, account, Users
<1>8. ASSUME NEW r \in Requests, RefreshReject(r) PROVE Goal
  BY <1>8, <1>0 DEF RefreshReject, Seen, Cleared, Begin, Goto, Finish, Shut, NoLocals, account,
     Users
<1>9. ASSUME NEW r \in Requests, Rotate(r) PROVE Goal
  BY <1>9, <1>0 DEF Rotate, Seen, Cleared, Begin, Goto, Finish, Shut, NoLocals, account, Users
<1>10. ASSUME NEW r \in Requests, LogoutRevoke(r) PROVE Goal
  BY <1>10, <1>0 DEF LogoutRevoke, Seen, Cleared, Begin, Goto, Finish, Shut, NoLocals, account,
     Users
<1>11. ASSUME NEW r \in Requests, changePassword(r) PROVE Goal
  <2>1. CASE Finish(r)
    BY <1>11, <2>1, <1>0 DEF changePassword, Finish, Seen, Cleared, NoLocals, account
  <2>2. CASE pc' = [pc EXCEPT ![r] = "changeWrite"] /\ loc' = [loc EXCEPT ![r].must = user.must]
    BY <1>11, <2>2, <1>0 DEF changePassword, Seen, Cleared, Locals, account
  <2> QED
    BY <1>11, <2>1, <2>2 DEF changePassword
<1>12. ASSUME NEW r \in Requests, ChangeWrite(r) PROVE Goal
  BY <1>12, <1>0 DEF ChangeWrite, Seen, Cleared, Begin, Goto, Finish, Shut, NoLocals, account, Users
<1>13. ASSUME NEW r \in Requests, resolveCurrentSessionId(r) PROVE Goal
  BY <1>13, <1>0 DEF resolveCurrentSessionId, Seen, Cleared, Begin, Goto, Finish, Shut, NoLocals,
     account, Users
<1>14. ASSUME NEW r \in Requests, RevokeOthers(r) PROVE Goal
  BY <1>14, <1>0 DEF RevokeOthers, Seen, Cleared, Begin, Goto, Finish, Shut, NoLocals, account,
     Users
<1>15. ASSUME NEW r \in Requests, resetPassword(r) PROVE Goal
  BY <1>15, <1>0 DEF resetPassword, Seen, Cleared, Begin, Goto, Finish, Shut, NoLocals, account,
     Users
<1>16. ASSUME NEW r \in Requests, revokeAll(r) PROVE Goal
  BY <1>16, <1>0 DEF revokeAll, Seen, Cleared, Locals, account, NoLocals
<1>17. ASSUME NEW r \in Requests, LinkRetire(r) PROVE Goal
  BY <1>17, <1>0 DEF LinkRetire, Seen, Cleared, Begin, Goto, Finish, Shut, NoLocals, account, Users
<1>18. ASSUME NEW r \in Requests, LinkInsert(r) PROVE Goal
  BY <1>18, <1>0 DEF LinkInsert, Seen, Cleared, Begin, Goto, Finish, Shut, NoLocals, account, Users
<1>19. ASSUME NEW r \in Requests, ConfirmUser(r) PROVE Goal
  BY <1>19, <1>0 DEF ConfirmUser, Seen, Cleared, Begin, Goto, Finish, Shut, NoLocals, account, Users
<1>20. ASSUME NEW r \in Requests, markUsed(r) PROVE Goal
  BY <1>20, <1>0 DEF markUsed, Seen, Cleared, Begin, Goto, Finish, Shut, NoLocals, account, Users
<1>21. ASSUME NEW r \in Requests, ConfirmWrite(r) PROVE Goal
  BY <1>21, <1>0 DEF ConfirmWrite, Seen, Cleared, Begin, Goto, Finish, Shut, NoLocals, account,
     Users
<1>22. ASSUME NEW r \in Requests, deactivateUser(r) PROVE Goal
  BY <1>22, <1>0 DEF deactivateUser, Seen, Cleared, Begin, Goto, Finish, Shut, NoLocals, account,
     Users
<1>23. ASSUME NEW r \in Requests, suspendAcademy(r) PROVE Goal
  BY <1>23, <1>0 DEF suspendAcademy, Seen, Cleared, Begin, Goto, Finish, Shut, NoLocals, account,
     Users
<1>24. ASSUME NEW r \in Requests, Fail(r) PROVE Goal
  BY <1>24, <1>0 DEF Fail, Seen, Cleared, Begin, Goto, Finish, Shut, NoLocals, account, Users
<1>25. ASSUME NEW r \in Requests, NEW s \in Ids, performRefresh(r, s) PROVE Goal
  BY <1>25, <1>0 DEF performRefresh, Seen, Cleared, Begin, Goto, Finish, Shut, NoLocals, account,
     Users
<1>26. ASSUME NEW r \in Requests, NEW s \in Ids, logout(r, s) PROVE Goal
  <2>1. CASE UNCHANGED slots
    BY <1>26, <2>1, <1>0 DEF logout, slots, Seen, account, Cleared
  <2>2. CASE Begin(r, "logout", [NoLocals EXCEPT !.sid = s])
    BY <1>26, <2>2, <1>0 DEF logout, Begin, Seen, Shut, account, Cleared, NoLocals
  <2> QED
    BY <1>26, <2>1, <2>2 DEF logout
<1>27. ASSUME NEW r \in Requests, NEW s \in Ids, ChangeAuthenticate(r, s) PROVE Goal
  BY <1>27, <1>0 DEF ChangeAuthenticate, Seen, Cleared, Begin, Goto, Finish, Shut, NoLocals,
     account, Users
<1>28. ASSUME NEW r \in Requests, NEW l \in LinkIds, confirm(r, l) PROVE Goal
  BY <1>28, <1>0 DEF confirm, Seen, Cleared, Begin, Goto, Finish, Shut, NoLocals, account, Users
<1>29. CASE deactivatePlayerUser
  BY <1>29, <1>0 DEF deactivatePlayerUser, Seen, Cleared, slots, Users
<1>30. CASE activateUser
  BY <1>30, <1>0 DEF activateUser, Seen, Cleared, Unlocked, Locals, Users
<1>31. CASE reactivateAcademy
  BY <1>31, <1>0 DEF reactivateAcademy, Seen, Cleared, Unlocked, Locals, Users
<1>32. CASE Restart
  BY <1>32, <1>0 DEF Restart, Seen, Cleared, NoLocals
<1>33. ASSUME NEW s \in Ids, SessionAges(s) PROVE Goal
  BY <1>33, <1>0 DEF SessionAges, Seen, Cleared, slots, account
<1>34. ASSUME NEW s \in Ids, purgeStaleSessions(s) PROVE Goal
  BY <1>34, <1>0 DEF purgeStaleSessions, Seen, Cleared, slots, account
<1>35. ASSUME NEW l \in LinkIds, LinkExpires(l) PROVE Goal
  BY <1>35, <1>0 DEF LinkExpires, Seen, Cleared, slots, account
<1>36. CASE UNCHANGED vars
  BY <1>36, <1>0 DEF vars, Seen
<1> QED
  BY <1>1, <1>2, <1>3, <1>4, <1>5, <1>6, <1>7, <1>8, <1>9, <1>10, <1>11, <1>12, <1>13, <1>14,
     <1>15, <1>16, <1>17, <1>18, <1>19, <1>20, <1>21, <1>22, <1>23, <1>24, <1>25, <1>26, <1>27,
        <1>28, <1>29, <1>30, <1>31, <1>32, <1>33, <1>34, <1>35, <1>36 DEF Next

\* A request that finds a lock closed from beginning to end opens no session.
THEOREM LockedOut == Spec => []LockedOutStaysOut
<1>1. Init => LockInv
  BY DEF Init, LockInv, Seen, NoLocals, Cleared
<1>2. TypeOK /\ LockInv /\ [Next]_vars => LockInv'
  BY LocksStep
<1>3. LockInv => LockedOutStaysOut
  BY DEF LockInv, Seen, LockedOutStaysOut
<1> QED
  BY <1>1, <1>2, <1>3, TypeCorrect, PTL DEF Spec
=============================================================================
