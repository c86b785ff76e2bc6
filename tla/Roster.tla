------------------------------- MODULE Roster -------------------------------
(***************************************************************************)
(* The players and the categories of one academy, and the requests that    *)
(* write them: administrators create, edit, approve, reject and delete     *)
(* players and open and close categories, parents enrol their children and *)
(* choose their category, coaches save attendance.                         *)
(*                                                                         *)
(* A step is one SQL statement with the code up to the next await; only    *)
(* the deletion of a player is a transaction.  What a request has read may *)
(* be false when it writes: 'stale' records that, and 'exposed' the active *)
(* players that such a write, half a request or an approval with a         *)
(* category of NULL has left behind.                                       *)
(* Names, numbers, photos, the accounts of players, the links with their   *)
(* parents, open matches, e-mails and the audit log are left out.          *)
(***************************************************************************)
EXTENDS Integers, FiniteSets

CONSTANTS
  Requests,       \* slots of concurrent requests
  Players,        \* ids of players, used once
  Categories,     \* ids of categories
  NoCategory,     \* NULL
  MaxPlayers,     \* max_players of the plan
  MaxCategories,  \* max_categories of the plan
  MaxBegun,       \* bound: requests begun
  MaxFailures     \* bound: failed statements

ASSUME RosterAssumption ==
  /\ IsFiniteSet(Requests) /\ Requests # {}
  /\ IsFiniteSet(Players)
  /\ NoCategory \notin Categories
  /\ MaxPlayers \in Nat /\ MaxCategories \in Nat
  /\ MaxBegun \in Nat /\ MaxFailures \in Nat

VARIABLES
  player,    \* the rows of players
  category,  \* the status of each category
  history,   \* players with attendance or actions
  pc, loc,   \* where each request is, and what it holds
  begun,     \* requests so far
  failures,  \* statements failed so far
  exposed    \* history: active players written by a request that was stale or died

vars == <<player, category, history, pc, loc, begun, failures, exposed>>

\* "injured" stands also for "retired"; "gone" is a deleted row.
Settable == {"active", "inactive", "injured", "pending"}
Existing == {p \in Players : player[p].status \in Settable}
Active == {p \in Players : player[p].status = "active"}
ActiveIn(c) == {p \in Active : player[p].category = c}
Open(c) == c \in Categories /\ category[c] = "active"
NoPlayer == [status |-> "none", category |-> NoCategory, rejected |-> FALSE]

\* id: the player; from, to: the category read and the one that is checked; writes,
\* sets: whether the category is written, and what; before, next: the status read and
\* the one asked for.
NoLocals == [id |-> {}, from |-> NoCategory, to |-> NoCategory, writes |-> FALSE,
             sets |-> NoCategory, before |-> "none", next |-> "none", count |-> 0,
             stale |-> FALSE]

Init ==
  /\ player = [p \in Players |-> NoPlayer]
  /\ category \in [Categories -> {"none", "active"}]
  /\ history = {}
  /\ pc = [r \in Requests |-> "idle"]
  /\ loc = [r \in Requests |-> NoLocals]
  /\ begun = 0
  /\ failures = 0
  /\ exposed = {}

Begin(r, stage, locals) ==
  /\ pc[r] = "idle"
  /\ begun < MaxBegun
  /\ begun' = begun + 1
  /\ pc' = [pc EXCEPT ![r] = stage]
  /\ loc' = [loc EXCEPT ![r] = locals]
  /\ UNCHANGED <<player, category, history, failures, exposed>>

\* A read: the request goes on, or is refused and ends.
Read(r, passes, stage) ==
  /\ pc' = [pc EXCEPT ![r] = IF passes THEN stage ELSE "idle"]
  /\ loc' = IF passes THEN loc ELSE [loc EXCEPT ![r] = NoLocals]
  /\ UNCHANGED <<player, category, history, begun, failures, exposed>>

\* The requests that read player p, or counted the active players of its category.
ReliesOn(q, p, row) ==
  \/ p \in loc[q].id
  \/ pc[q] = "setCategory" /\ loc[q].next = "inactive" /\ row.status = "active"
                           /\ loc[q].to = row.category

ApprovesWithNull(r) == pc[r] = "approve" /\ loc[r].writes /\ loc[r].sets = NoCategory

\* Request r writes row over player p and goes on to stage.
Write(r, p, row, stage) ==
  /\ player' = [player EXCEPT ![p] = row]
  /\ exposed' = IF row.status # "active" THEN exposed \ {p}
                ELSE IF loc[r].stale \/ ApprovesWithNull(r) THEN exposed \cup {p} ELSE exposed
  /\ pc' = [pc EXCEPT ![r] = stage]
  /\ loc' = [q \in Requests |->
       IF q = r THEN IF stage = "idle" THEN NoLocals ELSE loc[r]
       ELSE IF ReliesOn(q, p, row) THEN [loc[q] EXCEPT !.stale = TRUE]
       ELSE loc[q]]
  /\ UNCHANGED <<category, history, begun, failures>>

-----------------------------------------------------------------------------
(* New players                                                             *)

\* createPlayer, and createLinkedPlayerForParent: the plan has room ...
createPlayer(r, c) ==
  /\ Cardinality(Active) < MaxPlayers
  /\ Begin(r, "newCategory", [NoLocals EXCEPT !.to = c])

\* ... the category is active (assertCategoryForActivePlayer) ...
NewCategory(r) ==
  /\ pc[r] = "newCategory"
  /\ Read(r, Open(loc[r].to), "insert")

\* ... and the player is there.
InsertPlayer(r) ==
  /\ pc[r] = "insert"
  /\ \E p \in Players :
       /\ player[p].status = "none"
       /\ Write(r, p, [NoPlayer EXCEPT !.status = "active", !.category = loc[r].to], "idle")

\* enrollChild: the category is active, then the player is inserted for review.
enrollChild(r, c) ==
  /\ Open(c)
  /\ Begin(r, "enroll", [NoLocals EXCEPT !.to = c])

InsertPending(r) ==
  /\ pc[r] = "enroll"
  /\ \E p \in Players :
       /\ player[p].status = "none"
       /\ Write(r, p, [NoPlayer EXCEPT !.status = "pending", !.category = loc[r].to], "idle")

-----------------------------------------------------------------------------
(* Status and category of a player                                         *)

\* What follows the checks of updatePlayer.
AfterAssign(l) ==
  IF l.next = "active" /\ l.before = "active" /\ l.from # l.to THEN "eligible"
  ELSE IF l.next = l.before THEN "columns"
  ELSE IF l.next = "active" THEN "count"
  ELSE "status"

\* assertManualStatusChange
ManualChange(before, next) == before = next \/ (before # "pending" /\ next # "pending")

Edit(p, next, writes, c) ==
  [NoLocals EXCEPT !.id = {p}, !.before = player[p].status, !.next = next, !.writes = writes,
                   !.from = player[p].category, !.sets = c,
                   !.to = IF writes THEN c ELSE player[p].category]

\* updatePlayer, and updatePlayerStatus, which sets no category.
updatePlayer(r, p, next, writes, c) ==
  /\ p \in Existing
  /\ ManualChange(player[p].status, next)
  /\ writes \/ next # player[p].status
  /\ LET l == Edit(p, next, writes, c)
     IN  Begin(r, IF writes /\ c # NoCategory THEN "assign" ELSE AfterAssign(l), l)

\* assertAssignableCategory
AssignCategory(r) ==
  /\ pc[r] = "assign"
  /\ Read(r, Open(loc[r].to) \/ loc[r].to = loc[r].from, AfterAssign(loc[r]))

\* Mutant: NULL is let through, as an absent field would be.
MutEligibleIfGiven(r) ==
  /\ pc[r] = "eligible"
  /\ Read(r, loc[r].to = NoCategory \/ Open(loc[r].to), "columns")

\* An active player moves to an active category (assertCategoryForActivePlayer).
EligibleCategory(r) ==
  /\ pc[r] = "eligible"
  /\ Read(r, Open(loc[r].to), "columns")

\* getLimits counts the active players, ...
CountActive(r) ==
  /\ pc[r] = "count"
  /\ pc' = [pc EXCEPT ![r] = "discount"]
  /\ loc' = [loc EXCEPT ![r].count = Cardinality(Active)]
  /\ UNCHANGED <<player, category, history, begun, failures, exposed>>

\* Mutant: the player is left out of the count whether or not it is active.
MutDiscountAnyway(r) ==
  /\ pc[r] = "discount"
  /\ Read(r, loc[r].count - 1 < MaxPlayers, "category")

\* ... assertMaxActivePlayers leaves this one out if it is active by now ...
DiscountPlayer(r) ==
  /\ pc[r] = "discount"
  /\ LET others == loc[r].count - (IF loc[r].id \subseteq Active THEN 1 ELSE 0)
     IN  Read(r, others < MaxPlayers, "category")

\* ... and its category must be active (assertCategoryForActivePlayer).
ActiveCategory(r) ==
  /\ pc[r] = "category"
  /\ Read(r, Open(loc[r].to), IF loc[r].before = "pending" THEN "approve" ELSE "activate")

\* An UPDATE of a deleted player writes nothing, and reading it back fails.
Rewrite(r, p, row, stage) ==
  IF p \in Existing THEN Write(r, p, row, stage) ELSE Read(r, FALSE, "idle")

Rest(r) == IF loc[r].writes THEN "columns" ELSE "idle"

\* Mutant: activation leaves the reason of the rejection.
MutActivateKeepsReason(r) ==
  /\ pc[r] = "activate"
  /\ \E p \in loc[r].id : Rewrite(r, p, [player[p] EXCEPT !.status = "active"], Rest(r))

\* activate
ActivatePlayer(r) ==
  /\ pc[r] = "activate"
  /\ \E p \in loc[r].id :
       Rewrite(r, p, [player[p] EXCEPT !.status = "active", !.rejected = FALSE], Rest(r))

\* deactivate clears the reason of a rejection, updateStatus leaves it.
SetStatus(r) ==
  /\ pc[r] = "status"
  /\ \E p \in loc[r].id :
       Rewrite(r, p, [player[p] EXCEPT !.status = loc[r].next,
                                       !.rejected = @ /\ loc[r].next # "inactive"], Rest(r))

\* playerRepository.update
WriteColumns(r) ==
  /\ pc[r] = "columns"
  /\ \E p \in loc[r].id : Rewrite(r, p, [player[p] EXCEPT !.category = loc[r].sets], "idle")

\* updateChild: a parent chooses the category of a player who is pending.
updateChild(r, p, c) ==
  /\ player[p].status = "pending"
  /\ c = NoCategory \/ Open(c)
  /\ Begin(r, "columns", Edit(p, "pending", TRUE, c))

\* approvePlayer: pending when it is read; then the checks of an activation, for
\* which a category of NULL means the player's own ...
approvePlayer(r, p, writes, c) ==
  /\ player[p].status = "pending"
  /\ Begin(r, "count", [Edit(p, "active", writes, c) EXCEPT
                          !.to = IF c = NoCategory THEN player[p].category ELSE c])

\* ... whereas the UPDATE writes the NULL.
Approve(r) ==
  /\ pc[r] = "approve"
  /\ \E p \in loc[r].id :
       Rewrite(r, p, [status |-> "active", rejected |-> FALSE,
                      category |-> IF loc[r].writes THEN loc[r].sets ELSE player[p].category], "idle")

\* rejectPlayer: pending when it is read; then the status and, apart, the reason.
rejectPlayer(r, p) ==
  /\ player[p].status = "pending"
  /\ Begin(r, "reject", Edit(p, "inactive", FALSE, NoCategory))

Reject(r) ==
  /\ pc[r] = "reject"
  /\ \E p \in loc[r].id : Rewrite(r, p, [player[p] EXCEPT !.status = "inactive"], "reason")

SetReason(r) ==
  /\ pc[r] = "reason"
  /\ \E p \in loc[r].id : Rewrite(r, p, [player[p] EXCEPT !.rejected = TRUE], "idle")

-----------------------------------------------------------------------------
(* History and deletion                                                    *)

\* saveAttendance: the player is active when the sheet is read ...
saveAttendance(r, p) ==
  /\ p \in Active
  /\ Begin(r, "attend", [NoLocals EXCEPT !.id = {p}])

\* ... and gets a row, which the foreign key refuses once the player is deleted.
Attend(r) ==
  /\ pc[r] = "attend"
  /\ history' = history \cup (loc[r].id \cap Existing)
  /\ pc' = [pc EXCEPT ![r] = "idle"]
  /\ loc' = [q \in Requests |->
       IF q = r THEN NoLocals
       ELSE IF pc[q] = "delete" /\ loc[q].id = loc[r].id THEN [loc[q] EXCEPT !.stale = TRUE]
       ELSE loc[q]]
  /\ UNCHANGED <<player, category, begun, failures, exposed>>

\* Mutant: the history is not looked at.
MutDeleteUnchecked(r, p) ==
  /\ p \in Existing
  /\ Begin(r, "delete", [NoLocals EXCEPT !.id = {p}])

\* deletePlayer: the player has no history when it is read ...
deletePlayer(r, p) ==
  /\ p \in Existing \ history
  /\ Begin(r, "delete", [NoLocals EXCEPT !.id = {p}])

\* ... and is deleted, with the history it may have (ON DELETE CASCADE).
Delete(r) ==
  /\ pc[r] = "delete"
  /\ player' = [p \in Players |->
       IF p \in loc[r].id THEN [NoPlayer EXCEPT !.status = "gone"] ELSE player[p]]
  /\ history' = history \ loc[r].id
  /\ exposed' = exposed \ loc[r].id
  /\ pc' = [pc EXCEPT ![r] = "idle"]
  /\ loc' = [loc EXCEPT ![r] = NoLocals]
  /\ UNCHANGED <<category, begun, failures>>

-----------------------------------------------------------------------------
(* Categories                                                              *)

\* createCategory: the plan has room, closed categories counted ...
createCategory(r) ==
  /\ Cardinality({c \in Categories : category[c] # "none"}) < MaxCategories
  /\ Begin(r, "insertCategory", NoLocals)

\* ... and the category is there, active.
InsertCategory(r) ==
  /\ pc[r] = "insertCategory"
  /\ \E c \in Categories : category[c] = "none" /\ category' = [category EXCEPT ![c] = "active"]
  /\ pc' = [pc EXCEPT ![r] = "idle"]
  /\ loc' = [loc EXCEPT ![r] = NoLocals]
  /\ UNCHANGED <<player, history, begun, failures, exposed>>

\* updateCategoryStatus reads the category ...
updateCategoryStatus(r, c, status) ==
  /\ category[c] # "none"
  /\ Begin(r, IF status = "inactive" /\ category[c] = "active" THEN "usage" ELSE "setCategory",
           [NoLocals EXCEPT !.to = c, !.next = status])

\* ... which closes only without active players (countUsage) ...
CategoryUsage(r) ==
  /\ pc[r] = "usage"
  /\ Read(r, ActiveIn(loc[r].to) = {}, "setCategory")

\* ... and sets its status.
SetCategory(r) ==
  /\ pc[r] = "setCategory"
  /\ category' = [category EXCEPT ![loc[r].to] = loc[r].next]
  /\ exposed' = IF loc[r].stale /\ loc[r].next = "inactive"
                THEN exposed \cup ActiveIn(loc[r].to) ELSE exposed
  /\ pc' = [pc EXCEPT ![r] = "idle"]
  /\ loc' = [q \in Requests |->
       IF q = r THEN NoLocals
       ELSE IF loc[q].to = loc[r].to /\ loc[q].to # NoCategory
            THEN [loc[q] EXCEPT !.stale = TRUE] ELSE loc[q]]
  /\ UNCHANGED <<player, history, begun, failures>>

-----------------------------------------------------------------------------
\* A statement fails or the instance dies: an edit that has activated the player
\* and not yet moved it leaves it in its old category.
Fail(r) ==
  /\ pc[r] # "idle"
  /\ failures < MaxFailures
  /\ failures' = failures + 1
  /\ exposed' = IF pc[r] = "columns" THEN exposed \cup (loc[r].id \cap Active) ELSE exposed
  /\ pc' = [pc EXCEPT ![r] = "idle"]
  /\ loc' = [loc EXCEPT ![r] = NoLocals]
  /\ UNCHANGED <<player, category, history, begun>>

Next ==
  \E r \in Requests :
    \/ \E c \in Categories : createPlayer(r, c) \/ enrollChild(r, c)
    \/ NewCategory(r) \/ InsertPlayer(r) \/ InsertPending(r)
    \/ \E p \in Players, next \in Settable :
         \/ updatePlayer(r, p, next, FALSE, NoCategory)
         \/ \E c \in Categories \cup {NoCategory} : updatePlayer(r, p, next, TRUE, c)
    \/ AssignCategory(r) \/ EligibleCategory(r)
    \/ CountActive(r) \/ DiscountPlayer(r) \/ ActiveCategory(r)
    \/ ActivatePlayer(r) \/ SetStatus(r) \/ WriteColumns(r)
    \/ \E p \in Players :
         \/ \E c \in Categories \cup {NoCategory} : updateChild(r, p, c)
         \/ approvePlayer(r, p, FALSE, NoCategory)
         \/ \E c \in Categories \cup {NoCategory} : approvePlayer(r, p, TRUE, c)
         \/ rejectPlayer(r, p) \/ saveAttendance(r, p) \/ deletePlayer(r, p)
    \/ Approve(r) \/ Reject(r) \/ SetReason(r) \/ Attend(r) \/ Delete(r)
    \/ createCategory(r) \/ InsertCategory(r)
    \/ \E c \in Categories, s \in {"active", "inactive"} : updateCategoryStatus(r, c, s)
    \/ CategoryUsage(r) \/ SetCategory(r)
    \/ Fail(r)

Spec == Init /\ [][Next]_vars

-----------------------------------------------------------------------------
(* Properties                                                              *)

Stages == {"idle", "newCategory", "insert", "enroll", "assign", "eligible", "count", "discount",
           "category", "activate", "status", "columns", "approve", "reject", "reason",
           "attend", "delete", "insertCategory", "usage", "setCategory"}

Row == [status : Settable \cup {"none", "gone"}, category : Categories \cup {NoCategory},
        rejected : BOOLEAN]

Local == [id : SUBSET Players, from : Categories \cup {NoCategory},
          to : Categories \cup {NoCategory}, writes : BOOLEAN,
          sets : Categories \cup {NoCategory}, before : Settable \cup {"none"},
          next : Settable \cup {"none"}, count : Int, stale : BOOLEAN]

\* The types of the state; only rows that exist have history.
TypeOK ==
  /\ player \in [Players -> Row]
  /\ category \in [Categories -> {"none", "active", "inactive"}]
  /\ history \subseteq Existing
  /\ pc \in [Requests -> Stages]
  /\ loc \in [Requests -> Local]
  /\ begun \in 0 .. MaxBegun /\ failures \in 0 .. MaxFailures
  /\ exposed \subseteq Active

\* The count of the plan and the write are statements apart, but whoever passes the
\* count leaves room for one: the plan is exceeded at most by the requests that were
\* under way together, less one, however long it goes on
\* (plan-limit.service.ts assertMaxActivePlayers).
PlanHoldsButForRaces == Cardinality(Active) <= MaxPlayers + Cardinality(Requests) - 1

\* The players that an edit has activated and is about to move to another category.
Moves(r) == pc[r] = "columns" /\ loc[r].before # "active" /\ loc[r].next = "active"
Moving == UNION {loc[r].id : r \in {q \in Requests : Moves(q)}}

\* RN-05: an active player has an active category, unless a request wrote on what had
\* become false, died half-way, or approved the player with a category of NULL.
ActiveNeedsCategory ==
  \A p \in Active \ (exposed \cup Moving) :
    Open(player[p].category)

\* A player whose enrolment was rejected does not play: approval and rejection of one
\* enrolment both go through only when they overlap (parent.service.ts rejectPlayer
\* writes the status and the reason apart).
RejectedStaysOut == \A p \in Active : player[p].rejected => p \in exposed

\* Attendance and actions outlive an attempt to delete their player, unless they were
\* written between its check and its DELETE, which takes them along.
HistoryIsKept ==
  [][\A p \in history \ history' :
       \E r \in Requests : pc[r] = "delete" /\ p \in loc[r].id /\ loc[r].stale]_vars
=============================================================================
