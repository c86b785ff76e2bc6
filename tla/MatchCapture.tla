---------------------------- MODULE MatchCapture ----------------------------
(***************************************************************************)
(* Live capture of one match by the backend: the life cycle of the match,  *)
(* its attendance sheet, the game actions the coach records, undoes or     *)
(* voids, the notifications sent to parents and the audit trail.           *)
(*                                                                         *)
(* Every service operation is a sequence of SQL statements on a pool of    *)
(* autocommit connections; no operation of these services opens a          *)
(* transaction.  A step of this module is one statement, so that two       *)
(* requests interleave at every `await`, and Fail(r) is a request that     *)
(* dies between two statements (a lost connection, a restarted server).    *)
(*                                                                         *)
(* A request that a check turns down before it has written anything leaves *)
(* no trace, so turning one down at its first read is not a step at all.   *)
(***************************************************************************)
EXTENDS Naturals, FiniteSets

CONSTANTS
  Requests,       \* slots for requests being served at the same time
  Operations,     \* Operations[r]: the operations slot r may serve
  Coaches,        \* users assigned to every category here
  Admins,         \* users with role academy_admin
  Categories,     \* active categories of the academy
  Players,        \* its active players
  CategoryOf,     \* CategoryOf[p]: the category of player p
  Jerseys,        \* shirt numbers
  DefaultJersey,  \* DefaultJersey[p]: the number on the player's file
  Captures,       \* clientActionId of the captures a client may send
  PlayerOf,       \* PlayerOf[c]: the player of capture c
  Notifiable,     \* captures whose catalogue action is notifiable
  Parents,        \* viewers of the players with the in-app channel on
  MaxActionId,    \* bound: rows ever inserted in game_actions
  MaxFailures,    \* bound: requests that die half-way
  NoJersey,       \* attended without a number (match_jersey_number NULL)
  Absent,         \* attended = 0
  NoRow,          \* no row of match_attendance
  Untouched,      \* a player the save does not mention
  Keep,           \* matchJerseyNumber left out of an entry of a save
  NoUser,
  NoCapture,
  NoCategory

OperationNames == {"register", "undo", "void", "status", "save", "update"}

ASSUME OperationsAssumption == Operations \in [Requests -> SUBSET OperationNames]
ASSUME PlayersAssumption ==
  /\ PlayerOf \in [Captures -> Players]
  /\ DefaultJersey \in [Players -> Jerseys]
  /\ CategoryOf \in [Players -> Categories]
  /\ Notifiable \subseteq Captures
ASSUME BoundAssumption == MaxActionId \in Nat /\ MaxFailures \in Nat
ASSUME SentinelAssumption ==
  /\ {NoJersey, Absent, NoRow, Untouched, Keep} \cap Jerseys = {}
  /\ NoJersey \notin {Absent, NoRow, Untouched, Keep}
  /\ Absent \notin {NoRow, Untouched, Keep}
  /\ NoRow \notin {Untouched, Keep}
  /\ Untouched # Keep
  /\ NoUser \notin Coaches \cup Admins
  /\ NoCapture \notin Captures
  /\ NoCategory \notin Categories

Users == Coaches \cup Admins
ActionIds == 1..MaxActionId

MatchStatus == {"scheduled", "in_progress", "finished", "cancelled"}
MATCH_STATUS_TRANSITIONS ==
  [s \in MatchStatus |->
     CASE s = "scheduled"   -> {"in_progress", "cancelled"}
       [] s = "in_progress" -> {"finished", "cancelled"}
       [] OTHER             -> {}]
EDITABLE_STATUSES == {"scheduled", "in_progress"}

AuditKinds == {"create", "post_match_correction_create", "void",
               "post_match_correction_void", "immediate_undo",
               "status_change", "attendance_update", "match_update"}

VARIABLES
  status,      \* matches.status
  windowOpen,  \* finished_at is set and less than the correction window ago
  category,    \* matches.category_id
  attendance,  \* attendance[p]: number of p if present, NoJersey, Absent or NoRow
  action,      \* action[a]: the row of game_actions with id a
  nextId,      \* AUTO_INCREMENT of game_actions
  fresh,       \* actions younger than the immediate-undo window
  notified,    \* rows of notifications: <<action, parent>>
  voidedNotif, \* the rows of notifications with voided_at set
  audit,       \* audit rows: <<action, kind>>, action 0 for those of the match
  pc,          \* pc[r]: the next statement of the request in slot r
  loc,         \* loc[r]: what that request holds in local variables
  failed       \* requests that have died half-way

vars == <<status, windowOpen, category, attendance, action, nextId, fresh, notified,
          voidedNotif, audit, pc, loc, failed>>

match == <<status, windowOpen, category>>
actions == <<action, nextId, fresh>>
notifications == <<notified, voidedNotif>>

NoAction == [status |-> "none", capture |-> NoCapture, jersey |-> NoJersey,
             createdBy |-> NoUser, post |-> FALSE]
NoLocals == [user |-> NoUser, capture |-> NoCapture, mode |-> "none", id |-> 0,
             jersey |-> NoJersey, target |-> "scheduled", category |-> NoCategory,
             patch |-> [p \in Players |-> Untouched], pending |-> {}]

\* A row that was deleted keeps its other fields here, as a record of what it was.
Exists(a) == action[a].status \in {"active", "voided"}
Active(a) == action[a].status = "active"
HasCapture(c) == \E a \in ActionIds : Exists(a) /\ action[a].capture = c

Sheet == Jerseys \cup {NoJersey, Absent, NoRow}

\* validateJerseyCollisions, of a whole sheet.
JerseyCollision(sheet) ==
  \E p, q \in Players : p # q /\ sheet[p] = sheet[q] /\ sheet[p] \in Jerseys

-----------------------------------------------------------------------------
\* A match just scheduled, whose sheet may have been filled in already.
Init ==
  /\ status = "scheduled"
  /\ windowOpen = FALSE
  /\ category \in Categories
  /\ attendance \in [Players -> Sheet]
  /\ \A p \in Players : CategoryOf[p] # category => attendance[p] = NoRow
  /\ ~JerseyCollision(attendance)
  /\ action = [a \in ActionIds |-> NoAction]
  /\ nextId = 1
  /\ fresh = {}
  /\ notified = {}
  /\ voidedNotif = {}
  /\ audit = {}
  /\ pc = [r \in Requests |-> "idle"]
  /\ loc = [r \in Requests |-> NoLocals]
  /\ failed = 0

Serve(r, op, label, locals) ==
  /\ pc[r] = "idle"
  /\ op \in Operations[r]
  /\ pc' = [pc EXCEPT ![r] = label]
  /\ loc' = [loc EXCEPT ![r] = locals]

At(r, label) == pc[r] = label

Goto(r, label) ==
  /\ pc' = [pc EXCEPT ![r] = label]
  /\ UNCHANGED loc

Done(r) ==
  /\ pc' = [pc EXCEPT ![r] = "idle"]
  /\ loc' = [loc EXCEPT ![r] = NoLocals]

\* resolveWriteAccessMode: what user u may write given the match row just read.
MayWrite(u, mode) ==
  \/ mode = "live" /\ status = "in_progress" /\ u \in Coaches
  \/ mode = "correction" /\ status = "finished" /\ windowOpen

-----------------------------------------------------------------------------
(* updateMatchStatus (and cancelMatch): the transition is checked on the    *)
(* row as read, the UPDATE carries no condition on the status.              *)

updateMatchStatus(r) ==
  /\ \E u \in Users, next \in MATCH_STATUS_TRANSITIONS[status] :
       Serve(r, "status", "status.update", [NoLocals EXCEPT !.user = u, !.target = next])
  /\ UNCHANGED <<match, attendance, actions, notifications, audit, failed>>

StatusUpdate(r) ==
  /\ At(r, "status.update")
  /\ status' = loc[r].target
  /\ windowOpen' = CASE status' = "finished"    -> TRUE
                     [] status' = "in_progress" -> FALSE
                     [] OTHER                   -> windowOpen
  /\ UNCHANGED category
  /\ IF status' = "cancelled" THEN Goto(r, "status.void") ELSE Goto(r, "status.audit")
  /\ UNCHANGED <<attendance, actions, notifications, audit, failed>>

StatusVoidActions(r) ==
  /\ At(r, "status.void")
  /\ action' = [a \in ActionIds |->
                  IF Active(a) THEN [action[a] EXCEPT !.status = "voided"] ELSE action[a]]
  /\ Goto(r, "status.notify")
  /\ UNCHANGED <<match, attendance, nextId, fresh, notifications, audit, failed>>

StatusVoidNotifications(r) ==
  /\ At(r, "status.notify")
  /\ voidedNotif' = notified
  /\ Goto(r, "status.audit")
  /\ UNCHANGED <<match, attendance, actions, notified, audit, failed>>

StatusAudit(r) ==
  /\ At(r, "status.audit")
  /\ audit' = audit \cup {<<0, "status_change">>}
  /\ Done(r)
  /\ UNCHANGED <<match, attendance, actions, notifications, failed>>

\* The correction window of a finished match runs out.
CorrectionWindowCloses ==
  /\ status = "finished" /\ windowOpen
  /\ windowOpen' = FALSE
  /\ UNCHANGED <<status, category, attendance, actions, notifications, audit, pc, loc, failed>>

-----------------------------------------------------------------------------
(* updateMatch: the category is locked once there is attendance; the other  *)
(* columns it edits are not modelled here (the periods are, in MatchClock). *)

updateMatch(r) ==
  /\ status \in EDITABLE_STATUSES
  /\ \E u \in Users, c \in Categories :
       /\ c # category => status = "scheduled"
       /\ Serve(r, "update", IF c = category THEN "update.write" ELSE "update.attendance",
                [NoLocals EXCEPT !.user = u, !.category = c])
  /\ UNCHANGED <<match, attendance, actions, notifications, audit, failed>>

\* Mutant: the attendance is not looked up.
MutUpdateFindNothing(r) ==
  /\ At(r, "update.attendance")
  /\ Goto(r, "update.write")
  /\ UNCHANGED <<match, attendance, actions, notifications, audit, failed>>

UpdateFindAttendance(r) ==
  /\ At(r, "update.attendance")
  /\ IF \E p \in Players : attendance[p] # NoRow THEN Done(r) ELSE Goto(r, "update.write")
  /\ UNCHANGED <<match, attendance, actions, notifications, audit, failed>>

\* UPDATE matches SET category_id = ?, whatever has been saved meanwhile.
UpdateWrite(r) ==
  /\ At(r, "update.write")
  /\ category' = loc[r].category
  /\ Goto(r, "update.audit")
  /\ UNCHANGED <<status, windowOpen, attendance, actions, notifications, audit, failed>>

UpdateAudit(r) ==
  /\ At(r, "update.audit")
  /\ audit' = audit \cup {<<0, "match_update">>}
  /\ Done(r)
  /\ UNCHANGED <<match, attendance, actions, notifications, failed>>

-----------------------------------------------------------------------------
(* registerAction *)

registerAction(r) ==
  /\ nextId + Cardinality({q \in Requests : pc[q] \in {"register.existing",
       "register.attendance", "register.insert"}}) <= MaxActionId    \* bound
  /\ \E u \in Users, c \in Captures, mode \in {"live", "correction"} :
       /\ MayWrite(u, mode)
       /\ Serve(r, "register", "register.existing",
                [NoLocals EXCEPT !.user = u, !.capture = c, !.mode = mode])
  /\ UNCHANGED <<match, attendance, actions, notifications, audit, failed>>

\* A capture that is already there is answered with its row: nothing is written.
RegisterFindExisting(r) ==
  /\ At(r, "register.existing")
  /\ IF HasCapture(loc[r].capture) THEN Done(r) ELSE Goto(r, "register.attendance")
  /\ UNCHANGED <<match, attendance, actions, notifications, audit, failed>>

\* resolvePresentAttendance: the player attends and has a number.
RegisterReadAttendance(r) ==
  LET number == attendance[PlayerOf[loc[r].capture]] IN
  /\ At(r, "register.attendance")
  /\ \/ /\ number \in Jerseys
        /\ pc' = [pc EXCEPT ![r] = "register.insert"]
        /\ loc' = [loc EXCEPT ![r].jersey = number]
     \/ number \notin Jerseys /\ Done(r)
  /\ UNCHANGED <<match, attendance, actions, notifications, audit, failed>>

\* Mutant: no unique key behind the lookup.
MutRegisterInsertAgain(r) ==
  /\ At(r, "register.insert")
  /\ nextId \in ActionIds
  /\ action' = [action EXCEPT ![nextId] =
                  [status |-> "active", capture |-> loc[r].capture, jersey |-> loc[r].jersey,
                   createdBy |-> loc[r].user, post |-> loc[r].mode = "correction"]]
  /\ nextId' = nextId + 1
  /\ fresh' = fresh \cup {nextId}
  /\ pc' = [pc EXCEPT ![r] = "register.reread"]
  /\ loc' = [loc EXCEPT ![r].id = nextId]
  /\ UNCHANGED <<match, attendance, notifications, audit, failed>>

\* Mutant: ON DUPLICATE KEY UPDATE, a late duplicate rewrites the row.
MutRegisterInsertUpserts(r) ==
  /\ At(r, "register.insert")
  /\ \/ MutRegisterInsertAgain(r) /\ ~HasCapture(loc[r].capture)
     \/ /\ HasCapture(loc[r].capture)
        /\ action' = [a \in ActionIds |->
                        IF Exists(a) /\ action[a].capture = loc[r].capture
                          THEN [action[a] EXCEPT !.post = (loc[r].mode = "correction")]
                          ELSE action[a]]
        /\ Done(r)
        /\ UNCHANGED <<nextId, fresh, match, attendance, notifications, audit, failed>>

\* The unique key (tenant_id, client_action_id) turns a second row down.
RegisterInsert(r) ==
  /\ At(r, "register.insert")
  /\ \/ /\ ~HasCapture(loc[r].capture)
        /\ nextId \in ActionIds
        /\ action' = [action EXCEPT ![nextId] =
                        [status |-> "active", capture |-> loc[r].capture,
                         jersey |-> loc[r].jersey, createdBy |-> loc[r].user,
                         post |-> loc[r].mode = "correction"]]
        /\ nextId' = nextId + 1
        /\ fresh' = fresh \cup {nextId}
        /\ pc' = [pc EXCEPT ![r] = "register.reread"]
        /\ loc' = [loc EXCEPT ![r].id = nextId]
     \/ HasCapture(loc[r].capture) /\ Done(r) /\ UNCHANGED actions
  /\ UNCHANGED <<match, attendance, notifications, audit, failed>>

RegisterReread(r) ==
  /\ At(r, "register.reread")
  /\ IF Exists(loc[r].id) THEN Goto(r, "register.audit") ELSE Done(r)
  /\ UNCHANGED <<match, attendance, actions, notifications, audit, failed>>

\* Mutant: the audit entry looks at the match as it is now, not as it was let in.
MutRegisterAuditStatusNow(r) ==
  /\ At(r, "register.audit")
  /\ audit' = audit \cup {<<loc[r].id, IF status = "finished"
                                         THEN "post_match_correction_create" ELSE "create">>}
  /\ Done(r)
  /\ UNCHANGED <<match, attendance, actions, notifications, failed>>

\* Mutant: corrections are announced too.
MutRegisterAuditAnnouncesAll(r) ==
  /\ At(r, "register.audit")
  /\ UNCHANGED audit
  /\ IF loc[r].capture \in Notifiable /\ Parents # {}
       THEN /\ pc' = [pc EXCEPT ![r] = "register.notify"]
            /\ loc' = [loc EXCEPT ![r].pending = Parents]
       ELSE Done(r)
  /\ UNCHANGED <<match, attendance, actions, notifications, failed>>

\* The parents of the player are read once, before the first notification.
RegisterAudit(r) ==
  /\ At(r, "register.audit")
  /\ audit' = audit \cup {<<loc[r].id, IF loc[r].mode = "correction"
                                         THEN "post_match_correction_create" ELSE "create">>}
  /\ IF loc[r].capture \in Notifiable /\ loc[r].mode = "live" /\ Parents # {}
       THEN /\ pc' = [pc EXCEPT ![r] = "register.notify"]
            /\ loc' = [loc EXCEPT ![r].pending = Parents]
       ELSE Done(r)
  /\ UNCHANGED <<match, attendance, actions, notifications, failed>>

\* Mutant: only the first parent is told.
MutRegisterNotifyOne(r) ==
  /\ At(r, "register.notify")
  /\ \E f \in loc[r].pending :
       notified' = IF Exists(loc[r].id) THEN notified \cup {<<loc[r].id, f>>} ELSE notified
  /\ Done(r)
  /\ UNCHANGED <<match, attendance, actions, voidedNotif, audit, failed>>

\* One INSERT per parent; the foreign key to game_actions fails it, and with it
\* the request, when the action is no longer there.
RegisterNotify(r) ==
  /\ At(r, "register.notify")
  /\ \/ /\ Exists(loc[r].id)
        /\ \E f \in loc[r].pending :
             /\ notified' = notified \cup {<<loc[r].id, f>>}
             /\ IF loc[r].pending = {f}
                  THEN Done(r)
                  ELSE loc' = [loc EXCEPT ![r].pending = @ \ {f}] /\ UNCHANGED pc
     \/ ~Exists(loc[r].id) /\ Done(r) /\ UNCHANGED notified
  /\ UNCHANGED <<match, attendance, actions, voidedNotif, audit, failed>>

-----------------------------------------------------------------------------
(* immediateUndo: removes the row, for a few seconds and for its author.    *)

immediateUndo(r) ==
  /\ \E u \in Users, a \in ActionIds :
       /\ MayWrite(u, "live")
       /\ a < nextId
       /\ Serve(r, "undo", "undo.find",
                [NoLocals EXCEPT !.user = u, !.id = a, !.mode = "live"])
  /\ UNCHANGED <<match, attendance, actions, notifications, audit, failed>>

\* Mutant: an action already voided may be undone.
MutUndoFindAnyStatus(r) ==
  /\ At(r, "undo.find")
  /\ IF Exists(loc[r].id) /\ action[loc[r].id].createdBy = loc[r].user /\ loc[r].id \in fresh
       THEN Goto(r, "undo.delete")
       ELSE Done(r)
  /\ UNCHANGED <<match, attendance, actions, notifications, audit, failed>>

UndoFind(r) ==
  /\ At(r, "undo.find")
  /\ IF Active(loc[r].id) /\ action[loc[r].id].createdBy = loc[r].user /\ loc[r].id \in fresh
       THEN Goto(r, "undo.delete")
       ELSE Done(r)
  /\ UNCHANGED <<match, attendance, actions, notifications, audit, failed>>

\* DELETE by id alone, whatever the status of the row is by now.
UndoDelete(r) ==
  /\ At(r, "undo.delete")
  /\ IF Exists(loc[r].id)
       THEN /\ action' = [action EXCEPT ![loc[r].id].status = "deleted"]
            /\ Goto(r, "undo.notify")
       ELSE Done(r) /\ UNCHANGED action
  /\ UNCHANGED <<match, attendance, nextId, fresh, notifications, audit, failed>>

\* UPDATE notifications ... WHERE game_action_id = a.  Deleting the action has
\* set that column to NULL in its notifications (ON DELETE SET NULL).
VoidNotificationsOf(a) ==
  voidedNotif' = voidedNotif \cup {n \in notified : n[1] = a /\ Exists(a)}

UndoVoidNotifications(r) ==
  /\ At(r, "undo.notify")
  /\ VoidNotificationsOf(loc[r].id)
  /\ Goto(r, "undo.audit")
  /\ UNCHANGED <<match, attendance, actions, notified, audit, failed>>

UndoAudit(r) ==
  /\ At(r, "undo.audit")
  /\ audit' = audit \cup {<<loc[r].id, "immediate_undo">>}
  /\ Done(r)
  /\ UNCHANGED <<match, attendance, actions, notifications, failed>>

\* The immediate-undo window of an action runs out.
UndoWindowCloses ==
  /\ \E a \in fresh : fresh' = fresh \ {a}
  /\ UNCHANGED <<match, attendance, action, nextId, notifications, audit, pc, loc, failed>>

-----------------------------------------------------------------------------
(* voidAction: keeps the row, with the trace of who voided it and why.      *)

voidAction(r) ==
  /\ \E u \in Users, a \in ActionIds, mode \in {"live", "correction"} :
       /\ MayWrite(u, mode)
       /\ a < nextId
       /\ Serve(r, "void", "void.find",
                [NoLocals EXCEPT !.user = u, !.id = a, !.mode = mode])
  /\ UNCHANGED <<match, attendance, actions, notifications, audit, failed>>

VoidFind(r) ==
  /\ At(r, "void.find")
  /\ IF Active(loc[r].id) THEN Goto(r, "void.update") ELSE Done(r)
  /\ UNCHANGED <<match, attendance, actions, notifications, audit, failed>>

\* UPDATE ... WHERE id = a AND status = 'active'.
VoidUpdate(r) ==
  /\ At(r, "void.update")
  /\ IF Active(loc[r].id)
       THEN /\ action' = [action EXCEPT ![loc[r].id].status = "voided"]
            /\ Goto(r, "void.audit")
       ELSE Done(r) /\ UNCHANGED action
  /\ UNCHANGED <<match, attendance, nextId, fresh, notifications, audit, failed>>

VoidAudit(r) ==
  /\ At(r, "void.audit")
  /\ audit' = audit \cup {<<loc[r].id, IF loc[r].mode = "correction"
                                         THEN "post_match_correction_void" ELSE "void">>}
  /\ Goto(r, "void.reread")
  /\ UNCHANGED <<match, attendance, actions, notifications, failed>>

\* Mutant: the request ends once the voided row has been read back.
MutVoidRereadLast(r) ==
  /\ At(r, "void.reread")
  /\ Done(r)
  /\ UNCHANGED <<match, attendance, actions, notifications, audit, failed>>

VoidReread(r) ==
  /\ At(r, "void.reread")
  /\ IF Exists(loc[r].id) THEN Goto(r, "void.notify") ELSE Done(r)
  /\ UNCHANGED <<match, attendance, actions, notifications, audit, failed>>

VoidNotifications(r) ==
  /\ At(r, "void.notify")
  /\ VoidNotificationsOf(loc[r].id)
  /\ Done(r)
  /\ UNCHANGED <<match, attendance, actions, notified, audit, failed>>

-----------------------------------------------------------------------------
(* saveAttendance: the sheet is read, checked as a whole and written back   *)
(* one row at a time.                                                       *)

saveAttendance(r) ==
  /\ status \notin {"finished", "cancelled"}
  /\ \E u \in Coaches :
       Serve(r, "save", "save.match", [NoLocals EXCEPT !.user = u])
  /\ UNCHANGED <<match, attendance, actions, notifications, audit, failed>>

\* getAttendance reads the match again: the sheet is that of its category.
SaveReadMatch(r) ==
  /\ At(r, "save.match")
  /\ pc' = [pc EXCEPT ![r] = "save.sheet"]
  /\ loc' = [loc EXCEPT ![r].category = category]
  /\ UNCHANGED <<match, attendance, actions, notifications, audit, failed>>

\* The players of a category with their rows, other players left out.
SheetOf(c) == [p \in Players |-> IF CategoryOf[p] = c THEN attendance[p] ELSE NoRow]

\* What an entry of the request becomes, given the sheet as read.
Normalized(entries, sheet) ==
  [p \in Players |-> IF entries[p] # Keep THEN entries[p]
                     ELSE IF sheet[p] \in Jerseys THEN sheet[p] ELSE DefaultJersey[p]]

Patched(sheet, patch) ==
  [p \in Players |-> IF patch[p] = Untouched THEN sheet[p] ELSE patch[p]]

\* Only players of the sheet may be mentioned, and one at least.
Entries(c) ==
  LET of == {p \in Players : CategoryOf[p] = c} IN
  {[p \in Players |-> IF p \in of THEN e[p] ELSE Untouched] :
     e \in [of -> Jerseys \cup {NoJersey, Absent, Keep, Untouched}]}
    \ {[p \in Players |-> Untouched]}

\* Mutant: numbers are compared among the entries sent, not with the saved sheet.
MutSaveReadSheetEntriesOnly(r) ==
  /\ At(r, "save.sheet")
  /\ \E entries \in Entries(loc[r].category) :
       LET patch == Normalized(entries, SheetOf(loc[r].category)) IN
       IF JerseyCollision(patch)
         THEN Done(r)
         ELSE /\ pc' = [pc EXCEPT ![r] = "save.actions"]
              /\ loc' = [loc EXCEPT ![r].patch = patch]
  /\ UNCHANGED <<match, attendance, actions, notifications, audit, failed>>

\* Both validations end in the same refusal, so the collision check, which needs
\* this read alone, is made here; the one on actions follows its own query.
SaveReadSheet(r) ==
  /\ At(r, "save.sheet")
  /\ \E entries \in Entries(loc[r].category) :
       LET sheet == SheetOf(loc[r].category)
           patch == Normalized(entries, sheet)
       IN IF JerseyCollision(Patched(sheet, patch))
            THEN Done(r)
            ELSE /\ pc' = [pc EXCEPT ![r] = "save.actions"]
                 /\ loc' = [loc EXCEPT ![r].patch = patch]
  /\ UNCHANGED <<match, attendance, actions, notifications, audit, failed>>

\* Mutant: the active actions are not looked up.
MutSaveCheckNothing(r) ==
  /\ At(r, "save.actions")
  /\ Goto(r, "save.upsert")
  /\ UNCHANGED <<match, attendance, actions, notifications, audit, failed>>

\* RN-07: nobody with active actions may be marked absent.
SaveCheckActions(r) ==
  /\ At(r, "save.actions")
  /\ IF \E a \in ActionIds : Active(a) /\ loc[r].patch[PlayerOf[action[a].capture]] = Absent
       THEN Done(r)
       ELSE Goto(r, "save.upsert")
  /\ UNCHANGED <<match, attendance, actions, notifications, audit, failed>>

\* The order of the rows is that of the players' names; here it is any order.
SaveUpsertRow(r) ==
  LET left == {p \in Players : loc[r].patch[p] # Untouched} IN
  /\ At(r, "save.upsert")
  /\ \E p \in left :
       /\ attendance' = [attendance EXCEPT ![p] = loc[r].patch[p]]
       /\ loc' = [loc EXCEPT ![r].patch = [@ EXCEPT ![p] = Untouched]]
       /\ pc' = [pc EXCEPT ![r] = IF left = {p} THEN "save.audit" ELSE @]
  /\ UNCHANGED <<match, actions, notifications, audit, failed>>

SaveAudit(r) ==
  /\ At(r, "save.audit")
  /\ audit' = audit \cup {<<0, "attendance_update">>}
  /\ Done(r)
  /\ UNCHANGED <<match, attendance, actions, notifications, failed>>

-----------------------------------------------------------------------------
\* The request dies: what it has written stays, the rest is never written.
Fail(r) ==
  /\ failed < MaxFailures    \* bound
  /\ pc[r] # "idle"
  /\ failed' = failed + 1
  /\ Done(r)
  /\ UNCHANGED <<match, attendance, actions, notifications, audit>>

StatusStep(r) ==
  \/ updateMatchStatus(r) \/ StatusUpdate(r) \/ StatusVoidActions(r)
  \/ StatusVoidNotifications(r) \/ StatusAudit(r)
UpdateStep(r) ==
  updateMatch(r) \/ UpdateFindAttendance(r) \/ UpdateWrite(r) \/ UpdateAudit(r)
RegisterStep(r) ==
  \/ registerAction(r) \/ RegisterFindExisting(r) \/ RegisterReadAttendance(r)
  \/ RegisterInsert(r) \/ RegisterReread(r) \/ RegisterAudit(r) \/ RegisterNotify(r)
UndoStep(r) ==
  \/ immediateUndo(r) \/ UndoFind(r) \/ UndoDelete(r)
  \/ UndoVoidNotifications(r) \/ UndoAudit(r)
VoidStep(r) ==
  \/ voidAction(r) \/ VoidFind(r) \/ VoidUpdate(r)
  \/ VoidAudit(r) \/ VoidReread(r) \/ VoidNotifications(r)
SaveStep(r) ==
  \/ saveAttendance(r) \/ SaveReadMatch(r) \/ SaveReadSheet(r)
  \/ SaveCheckActions(r) \/ SaveUpsertRow(r) \/ SaveAudit(r)

Next ==
  \/ \E r \in Requests :
       \/ StatusStep(r) \/ UpdateStep(r) \/ RegisterStep(r) \/ UndoStep(r) \/ VoidStep(r)
       \/ SaveStep(r) \/ Fail(r)
  \/ CorrectionWindowCloses
  \/ UndoWindowCloses

Spec == Init /\ [][Next]_vars

-----------------------------------------------------------------------------
(* What has to hold.                                                        *)

Labels == {"idle", "status.update", "status.void", "status.notify", "status.audit",
           "register.existing", "register.attendance", "register.insert",
           "register.reread", "register.audit", "register.notify",
           "undo.find", "undo.delete", "undo.notify", "undo.audit",
           "void.find", "void.update", "void.audit", "void.reread", "void.notify",
           "update.attendance", "update.write", "update.audit",
           "save.match", "save.sheet", "save.actions", "save.upsert", "save.audit"}

ActionRows == [status : {"none", "active", "voided", "deleted"},
               capture : Captures \cup {NoCapture}, jersey : Jerseys \cup {NoJersey},
               createdBy : Users \cup {NoUser}, post : BOOLEAN]

Locals == [user : Users \cup {NoUser}, capture : Captures \cup {NoCapture},
           mode : {"none", "live", "correction"}, id : 0..MaxActionId,
           jersey : Jerseys \cup {NoJersey}, target : MatchStatus,
           category : Categories \cup {NoCategory},
           patch : [Players -> Jerseys \cup {NoJersey, Absent, Untouched}],
           pending : SUBSET Parents]

\* Type correctness of every variable.
TypeOK ==
  /\ status \in MatchStatus
  /\ windowOpen \in BOOLEAN
  /\ category \in Categories
  /\ attendance \in [Players -> Sheet]
  /\ action \in [ActionIds -> ActionRows]
  /\ nextId \in 1..(MaxActionId + 1)
  /\ fresh \subseteq ActionIds
  /\ notified \subseteq ActionIds \X Parents
  /\ voidedNotif \subseteq notified
  /\ audit \subseteq (0..MaxActionId) \X AuditKinds
  /\ pc \in [Requests -> Labels]
  /\ loc \in [Requests -> Locals]
  /\ failed \in 0..MaxFailures

\* Idempotency of capture: however many times and however concurrently a
\* clientActionId is sent, the match holds at most one action for it
\* (registerAction's lookup and the unique key behind it).
OneActionPerCapture ==
  \A a, b \in ActionIds :
    Exists(a) /\ Exists(b) /\ action[a].capture = action[b].capture => a = b

\* RN-08, the part no interleaving breaks: a match that never kicked off has no
\* actions, and none on the way (resolveAccessMode refuses scheduled matches).
NoActionBeforeKickoff ==
  status = "scheduled" => \A a \in ActionIds : action[a].status = "none"

\* The audit trail (RN-12) claims nothing that did not happen: each entry of an
\* action is backed by the row as it is now, whatever ran in between.
AuditIsTrue ==
  \A a \in ActionIds :
    /\ <<a, "create">> \in audit => action[a].status # "none" /\ ~action[a].post
    /\ <<a, "post_match_correction_create">> \in audit =>
         action[a].status # "none" /\ action[a].post
    /\ \A k \in {"void", "post_match_correction_void"} :
         <<a, k>> \in audit => action[a].status \in {"voided", "deleted"}
    /\ <<a, "immediate_undo">> \in audit => action[a].status = "deleted"

\* Parents hear only of live captures of notifiable actions, never of a
\* correction made after the match (the guard at the end of registerAction).
OnlyLiveActionsNotified ==
  \A n \in notified :
    action[n[1]].status # "none" /\ action[n[1]].capture \in Notifiable /\ ~action[n[1]].post

\* RN-13: the history of an action only moves forward - active, then voided or
\* removed - and what it recorded (who, whose, which number) is never rewritten.
ActionHistoryMovesForward ==
  [][\A a \in ActionIds :
       action[a].status # "none" =>
         /\ [action'[a] EXCEPT !.status = action[a].status] = action[a]
         /\ action'[a].status # "none"
         /\ action'[a].status = "active" => action[a].status = "active"
         /\ action[a].status = "deleted" => action'[a].status = "deleted"]_action

Registering == {"register.existing", "register.attendance", "register.insert",
                "register.reread", "register.audit", "register.notify"}
Registered == {"register.reread", "register.audit", "register.notify"}
Voiding == {"void.find", "void.update", "void.audit", "void.reread", "void.notify"}
Undoing == {"undo.find", "undo.delete", "undo.notify", "undo.audit"}

\* Rows are numbered without gaps, and a row there is records some capture.
IdsInOrder ==
  \A a \in ActionIds :
    /\ action[a].status # "none" <=> a < nextId
    /\ action[a].status # "none" => action[a].capture \in Captures

ReliesOnFacts(r) ==
  /\ At(r, "status.update") => loc[r].target # "scheduled"
  /\ pc[r] \in {"update.attendance", "update.write"} => loc[r].category \in Categories
  /\ pc[r] \in Registering =>
       /\ status # "scheduled" /\ loc[r].capture \in Captures
       /\ loc[r].mode \in {"live", "correction"}
  /\ pc[r] \in Registered \cup Voiding \cup Undoing =>
       loc[r].id \in ActionIds /\ loc[r].id < nextId
  /\ pc[r] \in Registered =>
       /\ action[loc[r].id].capture = loc[r].capture
       /\ action[loc[r].id].post = (loc[r].mode = "correction")
  /\ At(r, "register.notify") => loc[r].mode = "live" /\ loc[r].capture \in Notifiable
  /\ pc[r] \in {"void.audit", "void.reread", "void.notify"} =>
       action[loc[r].id].status \in {"voided", "deleted"}
  /\ pc[r] \in {"undo.notify", "undo.audit"} => action[loc[r].id].status = "deleted"

\* What a request read or wrote earlier and relies on in its later statements
\* is still so, however many other requests ran meanwhile: the row it inserted
\* is that capture with that flag, the row it voided or removed has not come
\* back, and the match it found started has started.
RequestsRelyOnFacts == IdsInOrder /\ \A r \in Requests : ReliesOnFacts(r)

\* No request is in progress and none has died.
Finished == failed = 0 /\ \A r \in Requests : pc[r] = "idle"

\* RN-09: with no request in progress and none that died, every live notifiable
\* action in force has been announced to every parent.
EveryParentNotified ==
  Finished =>
    \A a \in ActionIds :
      Active(a) /\ ~action[a].post /\ action[a].capture \in Notifiable =>
        \A f \in Parents : <<a, f>> \in notified

\* Voiding an action reaches the parents: with no request in progress and none
\* that died, the notifications of a voided action are marked as voided.
VoidedActionsDisowned ==
  Finished =>
    \A n \in notified : action[n[1]].status = "voided" => n \in voidedNotif

\* A cancelled match does not count: nothing in force, nothing announced
\* (the statements updateMatchStatus runs after the status change).
CancelledMatchIsClean ==
  Finished /\ status = "cancelled" =>
    /\ \A a \in ActionIds : ~Active(a)
    /\ notified = voidedNotif

\* RN-07: whoever has an action in force attends the match.
OnlyPresentPlayersHaveActions ==
  \A a \in ActionIds : Active(a) => attendance[PlayerOf[action[a].capture]] \notin {Absent, NoRow}

\* The attendance and the actions of a match are of players of its category, in
\* whatever order sheets are saved and the match is moved (updateMatch moves only
\* a match without attendance, saveAttendance takes only players of the category).
\* It is stated of requests served one at a time: a sheet being saved while the
\* match is moved ends up with players of the former category.
PlayersAreOfTheCategory ==
  /\ \A p \in Players : attendance[p] # NoRow => CategoryOf[p] = category
  /\ \A a \in ActionIds : Exists(a) => CategoryOf[PlayerOf[action[a].capture]] = category

\* Two players present never wear the same number once the sheet is saved.
JerseysAreDistinct == Finished => ~JerseyCollision(attendance)

\* A match moves only along MATCH_STATUS_TRANSITIONS.
StatusFollowsTransitions ==
  [][status' \in MATCH_STATUS_TRANSITIONS[status]]_status

\* RN-13: an action voided with its trace is never removed.  Requests served one
\* at a time keep it (it follows from ImplementsLedger); two at once do not.
VoidedActionsKept ==
  [][\A a \in ActionIds : action[a].status = "voided" => action'[a].status = "voided"]_action

\* RN-08/RN-16: an action not flagged as a correction enters a match in progress.
LiveActionsOnlyInProgress ==
  [][\A a \in ActionIds :
       action[a].status = "none" /\ action'[a].status = "active" /\ ~action'[a].post
         => status = "in_progress"]_action

\* An action removed by its author within seconds is disowned as well.
UndoneActionsDisowned ==
  Finished =>
    \A n \in notified : action[n[1]].status = "deleted" => n \in voidedNotif

-----------------------------------------------------------------------------
(* The ledger that the tables stand for.  An action of a cancelled match    *)
(* counts as voided from the moment the match is cancelled, and the         *)
(* correction window stays open for a correction that was let in.           *)

EntryOf(c) ==
  LET rows == {a \in ActionIds : Exists(a) /\ action[a].capture = c}
      row  == action[CHOOSE a \in rows : TRUE]
  IN IF rows = {} THEN "none"
     ELSE IF row.status = "voided" \/ status = "cancelled" THEN "voided"
     ELSE IF row.post THEN "corrected" ELSE "live"

Ledger == INSTANCE MatchLedger WITH
  phase <- status,
  window <- windowOpen \/ \E r \in Requests : loc[r].mode = "correction",
  entry <- [c \in Captures |-> EntryOf(c)]

\* Requests served one at a time, even if some die half-way, keep the promises
\* of MatchLedger, each operation taking effect in a single step.
ImplementsLedger == Ledger!LedgerSpec
=============================================================================
