# VeloceSports: formal specification

VeloceSports is a platform for youth football academies. A coach records what
happens in a match, live, from a phone at the side of the pitch; parents are
notified of their children's actions; academies are billed by the month. This
directory holds TLA+ modules translated from the code, the TLC configurations
that check them on small instances, and proofs that TLAPS checks for instances
of any size.

    tlc -workers 2 -config MCConcurrent.cfg MCMatchCapture      # any run of section 3
    tlapm MatchCaptureProofs.tla                                # any *Proofs.tla

## 1. The system

Three programs and a database: an Express backend (`src/apps/backend`, services
over repositories over MySQL), an Astro/React web application (`src/apps/web`)
whose server keeps the tokens and forwards the browser's requests, and a package
of rules shared by both (`src/packages/shared`). The backend serves requests
concurrently over a pool of autocommit connections. **Of the operations modelled
here only two are transactions** (the deletion of a player and the creation of a
player together with its parent): of all others, whatever an operation has read
may be stale at its next statement, and an operation that dies leaves what it
has written.

| Component | State | Operations | What makes it correct |
|---|---|---|---|
| Live capture (`game-action.service.ts`) | `game_actions`, unique on (tenant, clientActionId) | register, immediate undo, void | one action per capture, only in a match that accepts it (RN-08, RN-16), history kept (RN-12, RN-13) |
| Match life cycle (`match.service.ts`) | `matches.status`, `finished_at` | create, edit, status change, cancel | moves along `MATCH_STATUS_TRANSITIONS`; cancelling voids everything |
| Attendance (`match-attendance.service.ts`) | `match_attendance` | save a sheet | no two players with one number; nobody with actions is absent (RN-07) |
| Parent notifications (`game-action-notification.service.ts`) | `notifications`, unique on (action, user) | create, mark as voided | every parent, once, of live notifiable actions; disowned when the action is |
| Match clock (`match-clock.service.ts`) | five `clock_*` columns | pause, resume, next period, adjust; kick-off and full time | columns coherent, time neither invented nor lost |
| Capture board (`useCaptureQueue.ts`, `capture-storage.ts`) | history on screen, submissions in flight, local storage | capture, retry, undo, void, reload, reconnect, load | no capture lost, nothing claimed that the backend has not done |
| Sessions (`user-session.service.ts`, `auth.service.ts`), password recovery (`password-recovery.service.ts`) | `users`, `user_sessions`, `password_recovery_tokens`, blacklist and single flight in memory | log in, refresh, log out, change, reset, recover, lock, purge | a token serves once; closing wins; an old password opens nothing |
| Token refresh in the web server (`token-refresh.ts` and the routes that use it) | two cookies per browser, refreshes in flight | page, proxied request, renewal, login, logout | the browser keeps its session, and an exchanged token never returns |
| Invoices (`invoice.service.ts`, `invoice-generation.service.ts`, `billing-period.ts`) | `invoices`, unique on (tenant, period, type) | generate, pay, undo a payment, cancel, process overdue | no day billed twice, the annual fee with its month |
| Dunning (`billing-dunning.service.ts`) | `overdue_warning_sent_at`, `suspension_scheduled_for`, academy status | warn, suspend after the grace, clear | who owes is warned and suspended, once; who has paid is not |
| Players and categories (`player.service.ts`, `parent.service.ts`, `category.service.ts`), plan limits (`plan-limit.service.ts`) | `players`, `player_categories` | create, enrol, edit, approve, reject, delete; open, close | the plan is respected, active players have an active category, history is kept |
| Users' roles and parents' links (`user-role-management.service.ts`, `player.repository.ts`, `player-viewer.repository.ts`) | `users.role` and `user_roles`; `parent_players` and `player_viewers` | assign, remove, replace; link from either side | both copies agree with what was asked |
| Account approval, sign-up, photos, catalogue, observations | records | mostly one check and one statement each | references valid |
| Analytics, reports, email, voice, interface | none or caches | reads, formatting, calls out | - |

How they interact: the board sends captures to the backend through the web
server; register and void call the notification service and the audit log, a
cancellation sweeps actions and notifications; kick-off and full time write the
clock; capture reads attendance, and saving attendance reads the actions; the
status of the match decides who may write. Every request carries a token of a
session, which the web server renews on its way; suspending an academy, by hand
or by the daily job, closes the sessions of its users, and no login or refresh
passes while it is closed. Players, their categories and their parents decide
who is captured and who is notified. `PROJECT.json` lists every component with
its files, and every hazard at its line.

**What is hard.** Requests interleaving between statements (two status changes,
an undo and a void, a capture and a cancellation, a refresh and the closing of
all sessions, an approval and a rejection, two generations of one invoice);
operations of several statements that fail in the middle (a cancellation, a
suspension, the replacement of links in two tables); requests that are served
but whose answer is lost, so that they are sent again, and requests given up on
that are served later; responses that reach the browser in another order and
rewrite its cookies; pages closed with work in flight; a daily job that races
payments and may die after claiming what it was to do; a clock that is a
computation over columns written by requests that read them some time ago.

## 2. The modules

| Module | Role |
|---|---|
| `MatchCapture` | one match in the backend: status, sheet, actions, notifications, audit; the requests, statement by statement |
| `MatchLedger` | what the backend promises about the actions of a match, an operation per step; the abstraction of `MatchCapture` and the backend of `CaptureQueue` |
| `MatchClock` | the clock columns and the requests that write them |
| `MatchStopwatch` | what the clock promises: a stopwatch |
| `CaptureQueue` | the board in the browser, composed with `MatchLedger` |
| `Sessions` | one account, its sessions and recovery links in the backend |
| `WebSession` | one browser and the web server in front of the backend |
| `Billing` | the invoices of an academy, its status, administrators and the daily job |
| `BillingPeriod` | the calendar of billing periods, as operators |
| `InvoiceGeneration` | the generation of invoices over `BillingPeriod` |
| `Roster` | players, categories and the limits of the plan |
| `FamilyAccess` | roles of users and links of parents with players, each kept twice |
| `MC*` | instances for TLC: symmetry, constraints, which operations a slot serves |
| `*Proofs` | invariants and theorems of the module they are named after; `InvoiceGenerationProofs` has those of `BillingPeriod` as well, and `BrowserProofs` those of `CaptureQueue` and `WebSession` |

In every module of the backend a request occupies a slot `r \in Requests`;
`pc[r]` names its next SQL statement and `loc[r]` is what the handler holds in
local variables. A step is one statement with the code up to the next `await`,
so that any two requests interleave exactly where the code lets them. `Fail(r)`
ends a request between two statements and keeps what it has written. A request
that its first read turns down has no effect, and is no step.

### MatchCapture

* `updateMatchStatus`, `StatusUpdate`, `StatusVoidActions`,
  `StatusVoidNotifications`, `StatusAudit`: the status change and, for a
  cancellation, its sweep. `cancelMatch` is the same path.
* `updateMatch` to `UpdateAudit`: the match is moved to another category, if it is
  scheduled and found without attendance. An edit that keeps the category goes
  straight to the write.
* `registerAction` to `RegisterNotify`: access, lookup by clientActionId,
  attendance, insert under the unique key, reread, audit, one notification per
  parent.
* `immediateUndo` to `UndoAudit`, `voidAction` to `VoidNotifications`,
  `saveAttendance` to `SaveAudit`: likewise. A save reads the match twice, by itself
  and in `getAttendance`; the second reading says of which category the sheet is.
* `CorrectionWindowCloses` and `UndoWindowCloses` stand for the passing of the
  48 hours after full time and of the seconds after a capture.

A deleted row keeps its other fields with status `"deleted"`: a history
variable, seen by no guard except through `Exists`. A notification is the pair
(action, parent); that its `game_action_id` becomes NULL when the action is
deleted (`ON DELETE SET NULL`) is the condition `Exists(a)` in
`VoidNotificationsOf`.

`MatchLedger` is the same match with every operation one step. In the refinement
mapping (`EntryOf`) the actions of a cancelled match are voided from the moment
the status changes, since the sweep follows in the same request, and the window
for corrections stays open while a correction that was let in is under way.

### MatchClock

`applyCommand` reads the row, `Compute` takes the time and works out the new
columns from the row as read (the `build...ClockState` functions of
`packages/shared`), `PersistState` writes all five under no condition.
`StatusUpdate` starts the clock at kick-off and stops it at full time. The UPDATE
at full time assigns `clock_running` before the CASE that reads it, and MySQL
evaluates from left to right: `Stopped` says what results. Times are whole
seconds, and a minute has `SecondsPerMinute` of them so that its boundaries are
reached in small instances. `MatchStopwatch` has a reading that ticks; a command
takes effect when it takes the time (`InForce`). The abstraction allows full
time to lose seconds, because the code does (section 4). `updateMatch` and
`MatchUpdate` change the number of periods while the match is not over, also to
fewer than have been played; `applyCommand` keeps the number it read.

### CaptureQueue

`history` is the list on screen, `stored` the pending captures in local storage,
`post[c]` the submission of c (waiting for a retry, on its way, answered, or
failed and being copied to IndexedDB), `tries[c]` its retries, `late[c]` the
attempts the browser has given up on and that may still arrive, `command[c]` an
undo or void, `list` the loading of the match. Since an effect stores the
history after each change, `Show` writes both. The backend is
`INSTANCE MatchLedger`, where other users kick off, end, cancel and void at any
time; rows of one capture are numbered, because after an undo the same
clientActionId may be inserted again as another row.

A connection may fail before the request leaves, after it has been served, or in
a way that it is served later. `Restorable` is the set of captures that
`isEntry` (capture-storage.ts) lets through when what is stored is read back: it
wants an action code that is a string. All action codes are numbers, so the
program is the instance `Restorable = {}`, which both runs check. The theorems hold
for every value of it, so that they stay true of a board with that comparison put
right; the half of `Mount` that shows and sends again what was read is reached in
no run, as it is dead code in the program. What the program does keep is
`OnlyClosingLosesCaptures`, with `unsent`, a history variable, for the captures the
page was closed on before they were confirmed; what the comment on the storage
claims, `NoCaptureLost`, fails (`pending_not_restored`).

### Sessions

One account. A password is the number of the write that stored it, and
`password_reset_at`, with the claim compared with it, the number of the write
that stamped it. Statements: `login`, `LoginAcademy`, `SessionInsert`,
`updateRefreshCredentials` (a session is inserted by one statement and given its
token, with `revoked_at = NULL`, by the next); `performRefresh` to `Rotate`,
behind the single flight `Inflight`, which lives in the memory of the one backend
process, as does the `blacklist` of access tokens, and is lost by `Restart`;
`logout`; `changePassword` to `RevokeOthers`; `resetPassword` and `revokeAll`;
recovery: `LinkRetire`, `LinkInsert`, `confirm`, `markUsed` (an UPDATE that
matches an unused link), `ConfirmWrite`; the locks of user and academy; the purge.
`Accepts(s)` is what the authentication middleware checks of an access token.
History: the parent of a session made by a refresh, the password shown at the
login it goes back to, the locks that were closed all through a request, and
whether a session goes back to a request that was under way at the last closing.

### WebSession

A request works on the cookies it came with (`Send`), and what it does to them
reaches the browser with its response (`Deliver`), or not (`ResponseLost`), in
any order. `refreshSessionCookies` starts a refresh or joins the one in flight
for the same token; `Land` gives the outcome to all who joined. Around it: pages
(`ensureSession`), proxied requests with one retry after a 401
(`proxyWithSessionRefresh`), the renewal the browser asks for, login and logout.
The refresh in the backend is a single step, `BackendRefresh`, whose promise
(one exchange per token) is `Sessions!UsedOnce`.

### Billing, BillingPeriod, InvoiceGeneration

`Billing`: `invoices[i]` is the row of each key; `pastDue` and the values `"set"`
and `"reached"` of a schedule are the passing of days. Administrators:
`ensureInvoice`, `updatePayment`, `cancel`, `processOverdueInvoices` (a list read
once, then three statements per invoice), `updateAcademyStatus`,
`reactivateAcademy`. The job: `warnNewlyOverdue` and `markOverdueWithWarning` one
invoice at a time under the claim `overdue_warning_sent_at IS NULL`, then
`suspendAfterGrace`, `DueAcademy`, `clearSuspensionSchedule`, `JobSuspend`,
`JobRevoke`; `JobFails` anywhere. History: warnings and suspensions of each
invoice, and whether a payment was undone.

`sessions[d]` is the session of a device of a user of the academy, and where its
login or refresh is: the statement that reads the status of the academy (`login`,
`RefreshAcademy`) and those that revoke the old session (`Rotate`), insert the new
one (`SessionInsert`) and give it its token with `revoked_at = NULL`
(`updateRefreshCredentials`) are apart, so that an academy may be closed between any
two of them. `CloseSessions` (`revokeAllForTenant`) revokes what is there and marks,
as history, the devices whose login or refresh had already passed the check
(`spared`); `lapsed` is history too, of a closing that died before it came to the
sessions. What else happens to a login is in `Sessions`, for one account.

`BillingPeriod` is the arithmetic of `billing-period.ts` over dates that are
records: the anchor day clamped to short months, the period of a day, of a month
and the next, the due date, the anniversary. `InvoiceGeneration` composes it
with the statements of a generation (look up, insert, for the monthly invoice and
then for the annual one) and with an anchor that is edited at any time.

### Roster

`player[p]` is a row; ids are used once, so a deleted row stays `"gone"`. The
checks of `updatePlayer` are steps of their own (`AssignCategory`,
`EligibleCategory`, `CountActive`, `DiscountPlayer`, `ActiveCategory`), as are
its writes (`ActivatePlayer`, `SetStatus`, `WriteColumns`). `approvePlayer` and
`rejectPlayer`, `createPlayer` and `enrollChild` likewise; `Delete` is one step
because it is a transaction, after a check that is not in it. `Write` marks as
`stale` every request that relied on what it changes, and puts in `exposed` the
active players that a stale request, a half one, or an approval with a category
of NULL has left: properties say exactly when they may fail.

### FamilyAccess

`primary` and `roles` are the two copies of a user's roles, `parentPlayers` and
`playerViewers` the two tables of links. The replacement of links, from the side
of the player, of the user or of an enrolment, is `ClearLegacy`, `FillLegacy`,
`ClearViewers`, `FillViewers`: one DELETE and one INSERT per row in each table.
`replacePrimaryRole`, `assignRole` and `removeRole` read the roles, decide
(`Decide`, with the fallback to the primary role when the table is empty) and
write table and column apart. `asked` and `granted` are what the requests that
ended were to leave; `contended` and `torn` what overlapping or broken requests
leave in doubt, until one replaces it undisturbed. Every user starts with
a row in `user_roles`, like those the program creates: a user from before that table,
who has none until a role is written, is left out.

## 3. The runs

Every run finishes in under four minutes on two cores. `CHECK_DEADLOCK FALSE`
throughout: a match that is over, or a run that has used up its requests,
sessions or failures, is a system that stops. Type invariants are proved and
are not in the runs.

**capture_concurrent** (`MCConcurrent.cfg`): 2 requests at a time, any operation
but attendance saves and edits of the match, one of which may die anywhere; 1 capture, 1 player, 2
parents, 2 rows. Idempotency (`OneActionPerCapture`), audit entries that are true
of the rows (`AuditIsTrue`), notifications only of live actions
(`OnlyLiveActionsNotified`), history that moves forward
(`ActionHistoryMovesForward`), and every live action in force announced to every
parent once requests have finished and none has died (`EveryParentNotified`: a
retry finds the row, answers and does not notify). Two requests are the pairwise
interleavings, and the theorems extend all five properties to any number of
requests and failures. One capture is where they compete; the second row is
needed for a capture inserted again after its undo.

**capture_serial** (`MCSerial.cfg`): one request at a time, every operation, 2
categories, 2 players of the first and 1 of the second, 2 numbers, 2 captures of
which one notifiable, a coach, and one request that dies. The refinement
`ImplementsLedger`, and what is true between requests:
`OnlyPresentPlayersHaveActions`, `PlayersAreOfTheCategory`, `JerseysAreDistinct`,
`VoidedActionsDisowned`. Two players of one category are needed for a collision,
and one of another for the match to be moved away from its sheet. The last two
properties say "unless some request died": a sheet written in part is a mixture of
two. Serial because none of the first three holds when requests overlap (section
4). `VIEW AllButAudit` takes two states that differ only in the audit trail for one:
it is written and never read, and neither these properties nor the refinement
mapping mention it.

**clock_serial** (`ClockSerial.cfg`): 10 seconds, up to 3 periods, minutes of 2
seconds, a maximum of 4 minutes and adjustments to 1 and to 3.
`ImplementsStopwatch` and `NoTimeInvented`; the latter is proved for any number of
overlapping requests. Three periods are the first, one in the middle and the
last; 10 seconds go past the maximum.

**board_one_capture** (`QueueOne.cfg`): one capture, 2 automatic retries (4 in the
program), 2 late attempts at a time, 3 rows, 2 reloads, undo and void, and nothing
that can be read back from storage. `OnlyClosingLosesCaptures`, `ConfirmedIsTrue`, `NeverForgetsALiveAction` and, under `FairSpec`, `SubmissionsEnd`. Captures only share the list of the match, the reconnection and
the reload, each of which treats every capture by itself; the theorems hold for
any number of them. One late attempt and two rows are what it takes for an undone
capture to come back; the second and the third are for it to happen again, across a
reload.

**sessions** (`Sessions.cfg`): 2 requests, up to 3 sessions, 3 passwords, 2 links,
one failure or restart. The constraint `FewEvents` lets sessions, passwords,
links, failures, closed locks, blacklisted tokens and aged sessions add up to 4:
every mixture of that size is explored, and each property is violated by its
mutant with no more (two sessions, two passwords or two links, and one fault). The
theorems of `SessionsProofs` have no bound.

**web_requests** (`WebRequests.cfg`): 2 requests of any kind, 3 pairs of tokens,
one loss, and `FewEvents` up to 3 tokens that age, are refused or are closed
elsewhere. Two requests are the one that refreshes and the one that joins; the
third pair is for an exchange of what an exchange gave.

**billing** (`Billing.cfg`, `MCBilling`): one invoice, one failure of any statement of
anyone, the job, and, two at a time (`TwoAtATime`), two requests of administrators and
a device that logs in, refreshes and logs out; under `FairSpec`. Two requests and the
job are a suspension, the reactivation or the payment that overlaps it, and another
suspension; one request, the job and the device are a closing, what overlaps it and
the login or refresh that both of them meet. Invoices only share the status of the
academy and the lists, which are gone through one by one, and devices only meet in
the statement that closes the sessions, which treats each by itself; the theorems
hold for any number of requests, invoices and devices at a time. The bound stops no
step of the job and no passing of a day, which is what `FairSpec` is fair to.

**invoices** (`Invoices.cfg`): 2 generations, anchors 15, 30 and 31, December 2023
to March 2024, the anniversary in February, up to 3 invoices (`FewRows`), one
failure. Anchors on both sides of the clamp, a leap February, a turn of the year;
three invoices are a month, its annual fee, and one more that could overlap them.
`MCInvoiceGeneration` also compares `BillingPeriod` with a calendar that counts
days over three years (`CalendarIsRight`, `PeriodsFollowTheCalendar`): the period
changes on anchor days and on no other, and the due date is that many days later.

**roster** (`Roster.cfg`): 5 requests, 2 at a time, 3 players, 2 categories, a plan
of one player, one failure. Two players reach the limit and the third is one too
many; two categories are for a move from one to another. Five requests are a
player made, approved and rejected while a category is closed.

**families** (`Families.cfg`): 3 requests, 2 at a time, 2 users, 1 player, 2
roles, one failure. Two users, because a replacement keeps one and drops another;
links of different players are different rows. Two requests that overlap and a
third that puts right, or does not, what they left.

**Violations**, each checking one property the repository states in words:

| Run | Property | What happens |
|---|---|---|
| `undo_notification` | `UndoneActionsDisowned` | undo deletes the action and then looks for its notifications by the column the deletion has set to NULL: parents keep the notification |
| `pending_not_restored` | `NoCaptureLost` | nothing stored is read back, see `CaptureQueue` |

## 4. What overlapping requests break

The properties of the serial runs, and the exceptions in those of the others,
are promises that hold because requests rarely overlap, not because anything
prevents it. With two requests (`Requests = {r1, r2}`) in `MCSerial.cfg`, or in
the configuration named, and the property as the only one, TLC finds:

* `StatusFollowsTransitions`: two status changes read the match before either
  writes, and a cancelled match becomes finished.
* `LiveActionsOnlyInProgress`: a capture let in during the match is inserted
  after its end, not flagged as a correction.
* `CancelledMatchIsClean`: a capture let in before a cancellation is inserted
  after its sweep (match.service.ts:332 says the actions are voided).
* `OnlyPresentPlayersHaveActions`: a save that finds no actions marks absent a
  player whose capture is being inserted.
* `PlayersAreOfTheCategory`: a match found without attendance is moved while a
  sheet of its former category is being saved (the comment at match.service.ts:272
  says why it must not be).
* `JerseysAreDistinct`: two sheets, each without collisions, written row by row,
  leave a third with one.
* `VoidedActionsKept`: an undo that read the action as active deletes by id what
  has been voided with its trace in between.
* `StoppedAfterTheMatch` (in `ClockSerial.cfg`): a resume that read the match in
  progress starts the clock of a finished one.
* `RefusedMeansOver` (in `WebRequests.cfg`): two requests with one token that are
  not in the web server at the same time; the second is refused what the first
  has exchanged, and its cookies are cleared although the session lives
  (token-refresh.ts:38-41; the response of the first may put them right or not).

Without any overlap:

* `FullTimeKeepsTheTime` (`ClockSerial.cfg`): the seconds running at full time are
  lost, because of the order of the assignments (match.repository.ts:291).
* `ResendingNeverDuplicates` (`QueueOne.cfg`): an attempt given up on, served after
  its retry was confirmed and undone, inserts the action again
  (capture-storage.ts:7).

And what the properties of the other modules except, because the code does it:

* "Only the last link is valid" (password-recovery.repository.ts:13): two requests
  that each retire the former links before either inserts leave two.
* A login or refresh under way when all sessions are closed opens one that stays
  (`spared` in `OldSessionsClosed`). So it does when an academy is closed (`spared` in
  `ClosedAcademyHasNoSessions`): the status is read at auth.service.ts:70 or
  user-session.service.ts:93, the session activated several awaits later. It lives
  until its next refresh, which reads the status again and revokes it. Without that
  exception TLC finds a login that reads the academy active, a suspension and its
  closing of the sessions, and then the session.
* The plan is exceeded by requests under way together (`PlanHoldsButForRaces`), one
  player each at most. Its messages ask to deactivate users or categories
  (plan-limit.service.ts:50, 65), but inactive ones are counted.
* An approval with `categoryId` null writes NULL and activates the player
  (parent.service.ts:228; the comment above it and docs/dominio.md:71 say an active
  player has a category). An approval and a rejection that overlap leave an active
  player with a reason for rejection.
* "Both sources agree" (player.repository.ts:448): two replacements that overlap
  leave the tables of links with different rows.
* Two role changes at once leave a primary role that is not held, or bring back a
  removed one through the fallback. `assertParentsInTenant` looks at the primary
  role only (player.service.ts:82), so that a coach who is also a parent cannot be
  linked from the side of the player.
* An invoice warned of, paid and set back to pending is not warned of, and hence
  never scheduled, again.

Nearly all of these have one root: a check made by one statement and relied on by
another that does not repeat it (`WHERE status = ...`), outside any transaction.

## 5. Fairness

`CaptureQueue!FairSpec`, for `SubmissionsEnd`: every fetch of the browser ends, in
success or failure (`PostSucceeds \/ PostFails`, what the platform guarantees of a
fetch); timers fire (`Resend`); the copy to IndexedDB ends, well or badly
(`PostSaved`, awaited by the code). Nothing is assumed of the network
delivering, of the backend, of the coach or of the page being opened again.
Closing the page ends a submission as well, and what it was sending is no longer
"sending" on any screen.

`Billing!FairSpec`, for `OverdueIsChased` and `ScheduleIsConsumed`: `WF(Job)`, the
job is started every day by its scheduler and its statements end. The scheduler
starts it only where `BILLING_OVERDUE_JOB_ENABLED` is set: without it nothing is
chased, and the two properties say nothing.
`WF(GraceEnds(i))`, days pass. Administrators may do nothing, or keep changing
the status of the academy; failures are as many as the bound. Strong fairness is
not needed: a run of the job is always enabled or under way.

## 6. The proofs

For every value of the constants that satisfies their assumptions: any number of
slots, players, captures, parents, sessions, invoices, failures, seconds, retries
and reloads.

**MatchCaptureProofs.** The properties are not inductive: that the notification
is of a live action depends on what the request remembers of the row it inserted,
and that row may have been voided or removed by others since. The inductive
invariant is

    IInv == TypeOK /\ Facts /\ \A r \in Requests : ReliesOnFacts(r)

`Facts` gathers the properties of the tables, with rows numbered in order of
insertion; `ReliesOnFacts(r)` says what the request of slot r relies on at each
statement. `HistoryMovesForward` shows of every step that rows only move forward,
and from it `OthersRely` shows that a step of one slot keeps what the others rely
on: the argument is quadratic in the statements without that lemma, linear with
it. Then there is one lemma for each operation and, under it, one case for each
statement. Theorems: `TypeCorrect`, `CaptureIsIdempotent`, `KickoffComesFirst`,
`AuditNeverLies`, `ParentsHearOfLiveActions`, `RequestsStayJustified`,
`HistoryIsKept` (an action property).

`ParentsHearOfThemAll` adds `TellInv`: unless some request has died, each parent has
been told of each live notifiable action in force or a request is on its way to
tell (`WillTell`). Only an insertion brings an action in force (`OnlyInsertAdds`),
and the request that inserts is on its way from then on.

`SheetInOrder`, `SheetIsOfTheCategory` and `NumbersStayDistinct` assume `OneAtATime`,
a single slot whose requests may die half-way. Their invariant `SheetInv` says what a
request knows, at each statement, of the sheet and of the category it read (`Knows`):
that a match about to be moved has no sheet, that a save writes players of the
category only, does not mark absent one with actions, and completes the sheet it
compared into one without collisions. The sheet itself may show a collision while it
is written row by row (`Upserting`), so that only the sheet to be is known to have
none. Section 4 shows that two slots break all three.

`VoidingReachesParents`, under the same assumption: `DisownInv` says that a
notification of a voided action is marked, unless a request has died or the one in
progress is about to mark it (`Disowning`).

`CaptureIsALedger`, under the same assumption, is the refinement of `MatchLedger`.
`LedgerInv` says of the one request that what it was let in for is still so
(`Steady`): the mode it writes in is that of the match, the transition it is about to
make is allowed, the action it is about to remove is active; and that the window is
open, and corrections exist, after a match that has finished only. The entry of a
capture chooses a row; since a capture has one row (`OneActionPerCapture`), the
choice is that row (`EntryOfRow`). The insert is then `Record`, the delete `Undo`,
the conditional update `Void`; the statements that touch neither rows nor status
(`Quiet`) leave the ledger alone, or end the last correction let in before the window
closed; and the update that voids the actions of a cancelled match changes nothing,
because the ledger voids them with the match.

**MatchClockProofs.** A row that a request holds and will write later must be as
good then as it is now. The invariant says of the columns, and of every row held
by a request, that they are coherent and show no more than `credit` plus the time
since kick-off; time only adds to that bound. Theorems: `ClockTypeCorrect`,
`ClockColumnsAgree`, `ClockInventsNoTime`.

`ClockIsAStopwatch` assumes `OneAtATime`: what the one request has read is still so
(`StillSo`), hence the columns it writes are the ones it would compute of the row as
it is, and the command takes effect in a single step, `Compute`, the moment it looks
at the time. The assumption is needed: two commands that read the same row both
write what they made of it, and the second leaves nothing of the first.

**BrowserProofs, of CaptureQueue.** The invariant is

    IInv == TypeOK /\ StorageFollows /\ RowsExist /\ FreshIsUnknown /\ SendingIsBeingSent

`StorageFollows`: while the page is open, what is pending on screen is what is
stored. `RowsExist`: every row number anywhere - on screen, in an answer, in a
command, in a list - is of a row inserted, which rests on rows only growing
(`RowsOnlyGrow`). `FreshIsUnknown`: nothing on its way is about a capture not
made yet. `NothingHangs` follows. So does `OnlyClosingLoses`, for whatever the
storage gives back: an open page drops an entry only for an undo that was accepted
(`EntriesStay`), hence of a row that was inserted, and the closing of the page drops
entries that are confirmed, hence with a row, and those it puts in `unsent`.

What the board says needs more: `Truthful` of every capture. An entry that waits to be
confirmed has at most one row, which no command was ever about, so that an answer
that confirms it confirms the row there is; a list on its way is not older than
what is shown confirmed; and a command is about a row not newer than the one
shown (`InOrder`). Hence an accepted void has voided the row that is shown, and an
accepted undo has removed it (`CommandDone`), and whatever is shown, stored,
answered or listed as voided is the row there is, voided (`SaysTrue`).
`TruthInvariance` gives `ShownIsDone` and, since only an accepted undo takes an entry
off an open page, `LiveActionsStayOnScreen` (an action property).

**BrowserProofs, of WebSession.** The invariant is

    WInv == WebTypeOK /\ Flying /\ Numbered /\ Exclusive /\ Unused /\ Keeps

A pair of tokens that has not reached the browser yet is in the hands of one request
alone (`Exclusive`): nobody else has it among its cookies or is refreshing with it,
since pairs are numbered as they are issued and a request only takes what is in the
browser or what the backend gives it. Hence nobody else exchanges it, and what a
response is going to set has not been exchanged (`Unused`), however many requests
overlap and in whatever order they are answered: `ResponsesBringUnused` (an action
property). `StaleIsBeingReplaced`, a property no run checks, is the other side: what
the browser holds of the past is being replaced, while nothing is lost. For
`SessionSurvives`, `Keeps` follows the one request there is (`Carries`): the live
token is in the browser or in its hands, at every stage until it is answered. A
lemma for each kind of step says what it keeps (`QuietMove`, `LandKeeps`,
`ElsewhereKeeps`), and every action is of one kind.

**SessionsProofs.** Four invariants beside the types. `Chain`: rows to come are
empty, a session that was refreshed is over and has one successor, and every
request that refreshes holds a session that no other is refreshing (`Flight`,
`Apart`): the single flight makes the keys in flight distinct, and that carries
over to the sessions inserted. `Account /\ Passwords`: the stamp a token carries is
never newer than the password shown for it, so that a reset makes every older one
refused; and an older password behind a live session means a request that was
under way when the sessions were closed. `LinkInv`: a link about to be redeemed is
used and not redeemed, and no two requests are about to redeem one. `LockInv`:
what a request has seen open is not closed all along. Most steps only end
sessions (`Quiet`), which one lemma settles. Theorems: `TypeCorrect`;
`TokensServeOnce`, `OneSessionPerLogin` and `RevokedForGood` (an action property),
from `Chain`; `OldPasswordsGone` and `OldSessionsEnd`, from `Passwords`;
`OneRedemptionPerLink`; `LockedOut`.

**BillingProofs.** The invariant is `Types /\ Facts`. `InvoiceFacts`: a schedule
comes with the one warning, and what the job has suspended for has no schedule
left, or is paid or cancelled for good, unless a payment was undone. `JobFacts`:
what the job has listed is overdue or has been touched since, and has not been
suspended for; from the clearing on, its schedule is consumed. `RequestFacts`: the
same of an administrator's list. Theorems: `TypeCorrect`, `OneWarning`,
`OneSuspension`, `DebtSeen`.

`SessionsClosedWithIt`, for any number of devices, is not about live sessions alone,
since one that is about to be made is as good as made: `SessionsAttended` says of a
closed academy that, unless a closing died, whoever has a session or a login or
refresh past the check (`Served`) was so at the last closing of the sessions, or
someone is about to close them. A step of a user serves a device anew only while it
reads the academy active (`UserSteps`), and a closing leaves none served
(`SessionsClose`).

**InvoiceGenerationProofs, of BillingPeriod.** For every anchor and date:
`PeriodContainsItsDay`; `OnePeriodForEachDay` (whatever day of a period is asked
about, the answer is that period, which rests on the anchors of consecutive months
coming in order, `NextIsLater`); and `AnnualFeeOnceAYear` (of the periods that start
in the months of a year, the one of the anniversary bears the annual fee and no
other does).

**InvoiceGenerationProofs, of InvoiceGeneration.** The invariant is `TypeOK` and, of
every row and of every generation under way, that its period is one its anchor gives
(`RowAnchored`, `KnowsIts`), that an annual row has its monthly one and its
anniversary (`AnnualDue`), and that a generation at the annual step has its monthly
invoice (`AtTheAnnual`). With the lemmas about periods, two overlapping periods of one
anchor are the same, and the unique key does the rest. Theorems: `TypeCorrect`,
`BilledOnce`, `AnnualBesideMonthly`, `NothingLeftOut` (an action property).

**RosterProofs.** The invariant is

    IInv == TypeOK /\ Shapes /\ Room /\ Trusted /\ RejectedStaysOut

`Room` is why the plan is exceeded by no more than the requests at once: active
players, the players of requests that the count has let through, and creations
under way are together at most the plan and the requests but one. A request that
passes the count adds its player while there was room for it, and from then on it
is counted. `Trusted`: a request that is not stale still finds what it relied on.
Theorems: `TypeCorrect`, `PlanNeverOverrun`, `RejectionHolds`,
`HistoryOutlivesDeletion` (an action property).

`ActivePlayersArePlaced` adds `CategoryInv == Intent /\ Known /\ ActiveNeedsCategory`.
`Intent`: what a request holds fits what it is about to do, so that the category it
writes is the one it checks (but for an approval with NULL). `Known`: unless it has
been told otherwise (`stale`), what it has read of the player and of the category is
still so, and a category about to be closed has no active player. Every write tells
the requests that relied on what it changes: that the list of what they rely on
(`ReliesOn`) leaves nothing out is what the proof of `Known` shows.

**FamilyAccessProofs.** The invariant is

    IInv == TypeOK /\ Shapes /\ RolesInv /\ LinksInv

`RolesInv`, of every user not in doubt: either no request is changing its roles and
both copies are what was granted (`Calm`), or a single one is, and what it holds of
the roles is what is in force at each of its stages (`Following`). `LinksInv`: a link
that a request alone is replacing is in each table exactly as far as the request has
come (`Progress`): taken out, put in again row by row, first in one table and then in
the other, so that the one a parent keeps is always in one of them. Requests that
replace the same links at once know it (`Apart`), and then the links are in doubt
(`InDoubt`); nothing refers to a player before it is inserted (`Unborn`, `Inserts`).
A step that replaces some links keeps what the others have come to with theirs
(`ReplacingStep`), so that there is one case per statement. Theorems: `TypeCorrect`,
`TablesAgree`, `ParentsKeepAccess`, `RolesFollowRequests`.

**Only model-checked:** `SubmissionsEnd`, `OverdueIsChased` and `ScheduleIsConsumed`,
since liveness is beyond TLAPS here, and the calendar of `MCInvoiceGeneration`, which
counts days one by one. Every invariant and every action property that a passing run
checks is a theorem; those of `MatchCapture` and `MatchClock` that are promises of
requests served one at a time assume it (section 4 shows why).

## 7. What is not modelled

In the components modelled: the columns of a match other than its status, category
and periods, the default number of periods of the academy (editing it is, for the
clock, editing the match), `devReopenMatch` (development only), line-ups and sparring matches, reading marks and preferences
of notifications and their email channel, the audit entries of the clock and of
administration, IndexedDB (written, never read back into the board), a local storage that is full or
blocked (`writePendingCaptures` then keeps what it held), two tabs of
one match, which share a key of the local storage. Amounts of invoices, PDFs and
e-mails. Photos, viewers other than parents, the accounts of players, the creation
of players in bulk, invitations of adult players. The limit of coaches, which is
that of categories over another table. The statistics and lists of the backend are
reads. `CaptureQueue` takes the network between the browser and the backend as one
hop, since the web server forwards; what the server does with the tokens on the
way is `WebSession`.

Not modelled: account approval and sign-up (one check and one write each, of the
shape of those of `Roster`), the catalogue (a constant of `MatchCapture`),
observations (independent records), analytics, insights and reports (reads, and
texts of a language model kept in a cache), e-mail, voice capture, prices,
interface, design system, migrations (their constraints are in the models),
middlewares without state. The request deduplication middleware is mounted on no
route. Most of the lines of the repository are of this kind: pages, texts and
seed data, which have no state to check.

## 8. The plan

Done: `MatchCapture` with `MatchLedger`, `MatchClock` with `MatchStopwatch`,
`CaptureQueue` over `MatchLedger`, `Sessions`, `WebSession`, `Billing`,
`BillingPeriod`, `InvoiceGeneration`, `Roster`, `FamilyAccess`, and the proofs of
section 6. Left, in order of importance:

1. `InsightCache`: the texts generated for a player and kept with the hash of the
   facts they are about, their lock of a minute and the polling of the panel.
2. `Onboarding`: sign-up, approval and rejection of accounts, invitations; and the
   creation of players in bulk.
3. Two tabs over one key of the local storage; photos, whose files and rows are
   written apart.
