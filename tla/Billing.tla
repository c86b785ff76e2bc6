------------------------------ MODULE Billing -------------------------------
(***************************************************************************)
(* The invoices of one academy, its status, and those who write them: the  *)
(* administrators, who generate invoices, register payments, cancel, close *)
(* and reopen the academy and process what is overdue, and the daily job,  *)
(* which warns of overdue invoices and suspends after a period of grace.   *)
(*                                                                         *)
(* A step is one SQL statement with the code up to the next await; none of *)
(* this runs in a transaction.  The job holds a lock of the database, so   *)
(* that one instance of it runs at a time.  Amounts, the reason of a       *)
(* suspension, e-mails and the audit log are left out; of a date it only   *)
(* matters whether it has passed.  Of logins and refreshes there is what   *)
(* the closing of an academy can meet: the rest of them is in Sessions.    *)
(***************************************************************************)
EXTENDS Naturals

CONSTANTS
  Requests,    \* slots of concurrent requests of administrators
  Invoices,    \* the keys of invoices: a period and a type
  Devices,     \* devices of users of the academy, each with one session at a time
  MaxFailures  \* bound: failed statements

ASSUME BillingAssumption == MaxFailures \in Nat

VARIABLES
  invoices,   \* the row of each key of uk_invoices_tenant_period_type
  pastDue,    \* invoices whose due date has passed
  academy,    \* its status
  sessions,   \* the session of each device, and its login or refresh under way
  lapsed,     \* history: a closing died before it closed the sessions, none has since
  pc, loc,    \* where each request is, and what it holds
  job,        \* the run of the daily job
  failures,   \* statements failed so far
  past        \* history of each invoice: warnings sent, suspensions, payment undone

requests == <<pc, loc>>
access == <<sessions, lapsed>>
vars == <<invoices, pastDue, academy, sessions, lapsed, pc, loc, job, failures, past>>

\* schedule: suspension_scheduled_for, "set" until that date and "reached" then.
NoInvoice == [status |-> "none", warned |-> FALSE, schedule |-> "none"]

\* touched: history, the invoices paid or cancelled since the list was read.
NoLocals == [invoice |-> {}, value |-> "none", list |-> {}, touched |-> {}]
NoRun == [stage |-> "idle", list |-> {}, invoice |-> {}, active |-> FALSE,
          suspended |-> FALSE, touched |-> {}]

\* live: its token is handed out and it is not revoked; at: where its login or refresh
\* is.  spared: history, that one had been admitted when the sessions were last closed.
NoSession == [live |-> FALSE, at |-> "idle", spared |-> FALSE]

\* A login or refresh that has passed the check of the academy.
Admitted == {"rotate", "insert", "update"}

\* revokeAllForTenant: the rows there are; a login under way makes its row afterwards,
\* or takes the mark back from it.
CloseSessions ==
  /\ sessions' = [d \in Devices |->
       [sessions[d] EXCEPT !.live = FALSE, !.spared = sessions[d].at \in Admitted]]
  /\ lapsed' = FALSE

Status(i) == invoices[i].status
PendingPastDue == {i \in pastDue : Status(i) = "pending"}
DueForSuspension == {i \in Invoices : Status(i) = "overdue" /\ invoices[i].schedule = "reached"}

Init ==
  /\ invoices = [i \in Invoices |-> NoInvoice]
  /\ pastDue = {}
  /\ academy = "active"
  /\ sessions = [d \in Devices |-> NoSession]
  /\ lapsed = FALSE
  /\ pc = [r \in Requests |-> "idle"]
  /\ loc = [r \in Requests |-> NoLocals]
  /\ job = NoRun
  /\ failures = 0
  /\ past = [i \in Invoices |-> [warnings |-> 0, suspensions |-> 0, undone |-> FALSE]]

Begin(r, stage, locals) ==
  /\ pc[r] = "idle"
  /\ pc' = [pc EXCEPT ![r] = stage]
  /\ loc' = [loc EXCEPT ![r] = locals]
Goto(r, stage) == pc' = [pc EXCEPT ![r] = stage] /\ UNCHANGED loc
Finish(r) == pc' = [pc EXCEPT ![r] = "idle"] /\ loc' = [loc EXCEPT ![r] = NoLocals]

OverdueStages == {"mark", "check", "suspend", "revokeNext"}

\* A request is over and has written invoice i: the lists read before are stale.
FinishTouching(r, i) ==
  /\ pc' = [pc EXCEPT ![r] = "idle"]
  /\ loc' = [q \in Requests |->
       IF q = r THEN NoLocals
       ELSE IF pc[q] \in OverdueStages THEN [loc[q] EXCEPT !.touched = @ \cup {i}]
       ELSE loc[q]]
  /\ job' = IF job.stage \in {"due", "clear", "suspend"} THEN [job EXCEPT !.touched = @ \cup {i}]
            ELSE job

-----------------------------------------------------------------------------
(* Invoices                                                                *)

\* ensureInvoice finds no invoice of the period and type ...
ensureInvoice(r, i) ==
  /\ Status(i) = "none"
  /\ Begin(r, "create", [NoLocals EXCEPT !.invoice = {i}])
  /\ UNCHANGED <<invoices, pastDue, academy, access, job, failures, past>>

\* ... and inserts one; the unique key turns down the second.
CreateInvoice(r) ==
  /\ pc[r] = "create"
  /\ \E i \in loc[r].invoice :
       invoices' = IF Status(i) = "none" THEN [invoices EXCEPT ![i].status = "pending"] ELSE invoices
  /\ Finish(r)
  /\ UNCHANGED <<pastDue, academy, access, job, failures, past>>

\* updatePayment reads the invoice, which must not be cancelled ...
updatePayment(r, i, status) ==
  /\ Status(i) \notin {"none", "cancelled"}
  /\ Begin(r, "payment", [NoLocals EXCEPT !.invoice = {i}, !.value = status])
  /\ UNCHANGED <<invoices, pastDue, academy, access, job, failures, past>>

\* ... and writes the status whatever it has become; warning and schedule stay.
PaymentWrite(r) ==
  /\ pc[r] = "payment"
  /\ \E i \in loc[r].invoice :
       /\ invoices' = [invoices EXCEPT ![i].status = loc[r].value]
       /\ past' = [past EXCEPT ![i].undone = @ \/ loc[r].value = "pending"]
       /\ FinishTouching(r, i)
  /\ UNCHANGED <<pastDue, academy, access, failures>>

\* cancel: neither paid nor cancelled when it is read ...
cancel(r, i) ==
  /\ Status(i) \in {"pending", "overdue"}
  /\ Begin(r, "cancel", [NoLocals EXCEPT !.invoice = {i}])
  /\ UNCHANGED <<invoices, pastDue, academy, access, job, failures, past>>

\* ... and cancelled whatever it has become.
CancelWrite(r) ==
  /\ pc[r] = "cancel"
  /\ \E i \in loc[r].invoice :
       /\ invoices' = [invoices EXCEPT ![i].status = "cancelled"]
       /\ FinishTouching(r, i)
  /\ UNCHANGED <<pastDue, academy, access, failures, past>>

-----------------------------------------------------------------------------
(* Processing by hand: whoever is overdue is suspended at once             *)

\* processOverdueInvoices reads the list ...
processOverdueInvoices(r) ==
  /\ PendingPastDue # {}
  /\ Begin(r, "mark", [NoLocals EXCEPT !.list = PendingPastDue])
  /\ UNCHANGED <<invoices, pastDue, academy, access, job, failures, past>>

\* ... and marks one after the other (markOverdue: if still pending), ...
OverdueMark(r) ==
  /\ pc[r] = "mark"
  /\ \E i \in loc[r].list :
       /\ invoices' = IF Status(i) = "pending" THEN [invoices EXCEPT ![i].status = "overdue"]
                                               ELSE invoices
       /\ pc' = [pc EXCEPT ![r] = "check"]
       /\ loc' = [loc EXCEPT ![r].invoice = {i}, ![r].list = @ \ {i}]
  /\ UNCHANGED <<pastDue, academy, access, job, failures, past>>

NextMark(r) == IF loc[r].list = {} THEN Finish(r) ELSE Goto(r, "mark")

\* ... suspending the academy, if it is active, without looking at what was marked ...
OverdueCheck(r) ==
  /\ pc[r] = "check"
  /\ IF academy = "active" THEN Goto(r, "suspend") ELSE NextMark(r)
  /\ UNCHANGED <<invoices, pastDue, academy, access, job, failures, past>>

OverdueSuspend(r) ==
  /\ pc[r] = "suspend"
  /\ academy' = "suspended"
  /\ Goto(r, "revokeNext")
  /\ UNCHANGED <<invoices, pastDue, access, job, failures, past>>

\* ... and closing its sessions.
OverdueRevoke(r) ==
  /\ pc[r] = "revokeNext"
  /\ CloseSessions
  /\ NextMark(r)
  /\ UNCHANGED <<invoices, pastDue, academy, job, failures, past>>

-----------------------------------------------------------------------------
(* The academy                                                             *)

\* updateAcademyStatus: a suspended academy is not made active here ...
updateAcademyStatus(r, status) ==
  /\ ~(academy = "suspended" /\ status = "active")
  /\ Begin(r, "status", [NoLocals EXCEPT !.value = status])
  /\ UNCHANGED <<invoices, pastDue, academy, access, job, failures, past>>

\* Mutant: the sessions are closed only for a suspension.
MutStatusWrite(r) ==
  /\ pc[r] = "status"
  /\ academy' = loc[r].value
  /\ IF loc[r].value # "suspended" THEN Finish(r) ELSE Goto(r, "revoke")
  /\ UNCHANGED <<invoices, pastDue, access, job, failures, past>>

\* ... which is all that was read, ...
StatusWrite(r) ==
  /\ pc[r] = "status"
  /\ academy' = loc[r].value
  /\ IF loc[r].value = "active" THEN Finish(r) ELSE Goto(r, "revoke")
  /\ UNCHANGED <<invoices, pastDue, access, job, failures, past>>

\* ... and the sessions are closed unless it is active.
StatusRevoke(r) ==
  /\ pc[r] = "revoke"
  /\ CloseSessions
  /\ Finish(r)
  /\ UNCHANGED <<invoices, pastDue, academy, job, failures, past>>

\* reactivateAcademy: debts do not matter if they are acknowledged.
reactivateAcademy(r) ==
  /\ academy = "suspended"
  /\ Begin(r, "reactivate", NoLocals)
  /\ UNCHANGED <<invoices, pastDue, academy, access, job, failures, past>>

ReactivateWrite(r) ==
  /\ pc[r] = "reactivate"
  /\ academy' = "active"
  /\ Finish(r)
  /\ UNCHANGED <<invoices, pastDue, access, job, failures, past>>

-----------------------------------------------------------------------------
(* Logins and refreshes of the users of the academy                        *)

SessionStep(d, session) ==
  /\ sessions' = [sessions EXCEPT ![d] = session]
  /\ UNCHANGED <<invoices, pastDue, academy, lapsed, requests, job, failures, past>>

\* A user logs in: the academy is read, the session comes later.
login(d) ==
  /\ sessions[d].at = "idle" /\ ~sessions[d].live
  /\ academy = "active"
  /\ SessionStep(d, [NoSession EXCEPT !.at = "insert"])

\* performRefresh finds the session good, ...
performRefresh(d) ==
  /\ sessions[d].at = "idle" /\ sessions[d].live
  /\ SessionStep(d, [sessions[d] EXCEPT !.at = "academy"])

\* Mutant: a refresh does not look at the academy.
MutRefreshAcademy(d) ==
  /\ sessions[d].at = "academy"
  /\ SessionStep(d, [sessions[d] EXCEPT !.at = "rotate", !.spared = FALSE])

\* ... reads the academy (the user is active) ...
RefreshAcademy(d) ==
  /\ sessions[d].at = "academy"
  /\ SessionStep(d, IF academy = "active"
                      THEN [sessions[d] EXCEPT !.at = "rotate", !.spared = FALSE]
                      ELSE [sessions[d] EXCEPT !.at = "reject"])

\* ... and revokes the session, either for good ...
RefreshReject(d) ==
  /\ sessions[d].at = "reject"
  /\ SessionStep(d, NoSession)

\* ... or for a new one, whether or not it has been revoked meanwhile.
Rotate(d) ==
  /\ sessions[d].at = "rotate"
  /\ SessionStep(d, [sessions[d] EXCEPT !.at = "insert", !.live = FALSE])

\* createSessionWithTokens inserts a row, for which there is no token yet, ...
SessionInsert(d) ==
  /\ sessions[d].at = "insert"
  /\ SessionStep(d, [sessions[d] EXCEPT !.at = "update"])

\* ... and gives it its token, with revoked_at = NULL: no revocation counts before this.
updateRefreshCredentials(d) ==
  /\ sessions[d].at = "update"
  /\ SessionStep(d, [sessions[d] EXCEPT !.at = "idle", !.live = TRUE])

\* A logout, an expiry or a change of password ends the session.
SessionEnds(d) ==
  /\ sessions[d].live
  /\ SessionStep(d, [sessions[d] EXCEPT !.live = FALSE])

-----------------------------------------------------------------------------
(* The daily job: BillingDunningService.run, under the lock                *)

\* warnNewlyOverdue: the list (in any order, here as below) ...
warnNewlyOverdue ==
  /\ job.stage = "idle"
  /\ job' = [NoRun EXCEPT !.stage = "warn", !.list = PendingPastDue]
  /\ UNCHANGED <<invoices, pastDue, academy, access, requests, failures, past>>

\* Mutant: only who has been warned already is claimed.
MutWarnNobody ==
  /\ job.stage = "warn"
  /\ \E i \in job.list :
       /\ job' = [job EXCEPT !.list = @ \ {i}]
       /\ IF Status(i) = "pending" /\ invoices[i].warned
            THEN /\ invoices' = [invoices EXCEPT ![i].status = "overdue"]
                 /\ UNCHANGED past
            ELSE UNCHANGED <<invoices, past>>
  /\ UNCHANGED <<pastDue, academy, access, requests, failures>>

\* ... of which each is claimed (markOverdueWithWarning) and warned, once.
markOverdueWithWarning ==
  /\ job.stage = "warn"
  /\ \E i \in job.list :
       /\ job' = [job EXCEPT !.list = @ \ {i}]
       /\ IF Status(i) = "pending" /\ ~invoices[i].warned
            THEN /\ invoices' = [invoices EXCEPT ![i] = [status |-> "overdue", warned |-> TRUE,
                                                          schedule |-> "set"]]
                 /\ past' = [past EXCEPT ![i].warnings = @ + 1]
            ELSE UNCHANGED <<invoices, past>>
  /\ UNCHANGED <<pastDue, academy, access, requests, failures>>

\* Mutant: the suspensions go by the list of the warnings.
MutSuspendAfterGrace ==
  /\ job.stage = "warn" /\ job.list = {}
  /\ job' = [NoRun EXCEPT !.stage = "due",
               !.list = {i \in Invoices : invoices[i].schedule = "reached"}]
  /\ UNCHANGED <<invoices, pastDue, academy, access, requests, failures, past>>

\* suspendAfterGrace: the list of those whose date has come.
suspendAfterGrace ==
  /\ job.stage = "warn" /\ job.list = {}
  /\ job' = [NoRun EXCEPT !.stage = "due", !.list = DueForSuspension]
  /\ UNCHANGED <<invoices, pastDue, academy, access, requests, failures, past>>

\* For each, unless this run has suspended the academy, the academy is read, ...
DueAcademy ==
  /\ job.stage = "due"
  /\ \E i \in job.list :
       job' = IF job.suspended THEN [job EXCEPT !.list = @ \ {i}]
              ELSE [job EXCEPT !.list = @ \ {i}, !.invoice = {i}, !.stage = "clear",
                               !.active = academy = "active"]
  /\ UNCHANGED <<invoices, pastDue, academy, access, requests, failures, past>>

\* Mutants: only the schedule of an active academy is consumed; none is.
MutClearOnlyActive ==
  /\ job.stage = "clear"
  /\ invoices' = IF job.active
                   THEN [i \in Invoices |-> IF Status(i) = "overdue"
                           THEN [invoices[i] EXCEPT !.schedule = "none"] ELSE invoices[i]]
                   ELSE invoices
  /\ job' = [job EXCEPT !.stage = IF job.active THEN "suspend" ELSE "due"]
  /\ UNCHANGED <<pastDue, academy, access, requests, failures, past>>
MutClearNothing ==
  /\ job.stage = "clear"
  /\ job' = [job EXCEPT !.stage = IF job.active THEN "suspend" ELSE "due"]
  /\ UNCHANGED <<invoices, pastDue, academy, access, requests, failures, past>>

\* ... the schedules of all its overdue invoices are consumed, ...
clearSuspensionSchedule ==
  /\ job.stage = "clear"
  /\ invoices' = [i \in Invoices |-> IF Status(i) = "overdue"
                    THEN [invoices[i] EXCEPT !.schedule = "none"] ELSE invoices[i]]
  /\ job' = [job EXCEPT !.stage = IF job.active THEN "suspend" ELSE "due"]
  /\ UNCHANGED <<pastDue, academy, access, requests, failures, past>>

\* ... the academy is suspended if it was active (history: counted up to 2) ...
JobSuspend ==
  /\ job.stage = "suspend"
  /\ academy' = "suspended"
  /\ past' = [i \in Invoices |-> IF i \in job.invoice /\ past[i].suspensions < 2
                THEN [past[i] EXCEPT !.suspensions = @ + 1] ELSE past[i]]
  /\ job' = [job EXCEPT !.stage = "revoke"]
  /\ UNCHANGED <<invoices, pastDue, access, requests, failures>>

\* ... and its sessions closed.
JobRevoke ==
  /\ job.stage = "revoke"
  /\ CloseSessions
  /\ job' = [job EXCEPT !.stage = "due", !.suspended = TRUE]
  /\ UNCHANGED <<invoices, pastDue, academy, requests, failures, past>>

JobEnds ==
  /\ job.stage = "due" /\ job.list = {}
  /\ job' = NoRun
  /\ UNCHANGED <<invoices, pastDue, academy, access, requests, failures, past>>

-----------------------------------------------------------------------------
(* Time and failures                                                       *)

DueDatePasses(i) ==
  /\ i \notin pastDue
  /\ pastDue' = pastDue \cup {i}
  /\ UNCHANGED <<invoices, academy, access, requests, job, failures, past>>

GraceEnds(i) ==
  /\ invoices[i].schedule = "set"
  /\ invoices' = [invoices EXCEPT ![i].schedule = "reached"]
  /\ UNCHANGED <<pastDue, academy, access, requests, job, failures, past>>

\* A statement fails, or the process dies: the lock goes with the connection.
Fail(r) ==
  /\ pc[r] # "idle"
  /\ failures < MaxFailures
  /\ failures' = failures + 1
  /\ Finish(r)
  /\ lapsed' = (lapsed \/ pc[r] \in {"revokeNext", "revoke"})
  /\ UNCHANGED <<invoices, pastDue, academy, sessions, job, past>>

JobFails ==
  /\ job.stage # "idle"
  /\ failures < MaxFailures
  /\ failures' = failures + 1
  /\ job' = NoRun
  /\ lapsed' = (lapsed \/ job.stage = "revoke")
  /\ UNCHANGED <<invoices, pastDue, academy, sessions, requests, past>>

\* A login or refresh fails; what fails in the check of a refresh revokes its session.
EntryFails(d) ==
  /\ sessions[d].at # "idle"
  /\ failures < MaxFailures
  /\ failures' = failures + 1
  /\ \E at \in IF sessions[d].at = "academy" THEN {"reject", "idle"} ELSE {"idle"} :
       sessions' = [sessions EXCEPT ![d].at = at]
  /\ UNCHANGED <<invoices, pastDue, academy, lapsed, requests, job, past>>

Job ==
  \/ warnNewlyOverdue \/ markOverdueWithWarning \/ suspendAfterGrace
  \/ DueAcademy \/ clearSuspensionSchedule \/ JobSuspend \/ JobRevoke \/ JobEnds

Next ==
  \/ \E r \in Requests :
       \/ CreateInvoice(r) \/ PaymentWrite(r) \/ CancelWrite(r)
       \/ processOverdueInvoices(r) \/ OverdueMark(r) \/ OverdueCheck(r)
       \/ OverdueSuspend(r) \/ OverdueRevoke(r)
       \/ StatusWrite(r) \/ StatusRevoke(r) \/ reactivateAcademy(r) \/ ReactivateWrite(r)
       \/ Fail(r)
       \/ \E i \in Invoices :
            \/ ensureInvoice(r, i) \/ cancel(r, i)
            \/ \E status \in {"pending", "paid"} : updatePayment(r, i, status)
       \/ \E status \in {"active", "suspended", "inactive"} : updateAcademyStatus(r, status)
  \/ \E d \in Devices :
       \/ login(d) \/ performRefresh(d) \/ RefreshAcademy(d) \/ RefreshReject(d)
       \/ Rotate(d) \/ SessionInsert(d) \/ updateRefreshCredentials(d)
       \/ SessionEnds(d) \/ EntryFails(d)
  \/ Job \/ JobFails
  \/ \E i \in Invoices : DueDatePasses(i) \/ GraceEnds(i)

Spec == Init /\ [][Next]_vars

\* The job runs every day and its statements end; days pass.
FairSpec == Spec /\ WF_vars(Job) /\ \A i \in Invoices : WF_vars(GraceEnds(i))

-----------------------------------------------------------------------------
(* What has to hold.                                                        *)

Stages == {"idle", "create", "payment", "cancel", "mark", "check", "suspend", "revokeNext",
           "status", "revoke", "reactivate"}

\* Type correctness of every variable.
TypeOK ==
  /\ invoices \in [Invoices -> [status : {"none", "pending", "paid", "overdue", "cancelled"},
                                warned : BOOLEAN, schedule : {"none", "set", "reached"}]]
  /\ pastDue \subseteq Invoices
  /\ academy \in {"active", "suspended", "inactive"}
  /\ sessions \in [Devices -> [live : BOOLEAN, spared : BOOLEAN,
                                at : {"idle", "academy", "reject"} \cup Admitted]]
  /\ lapsed \in BOOLEAN
  /\ pc \in [Requests -> Stages]
  /\ loc \in [Requests -> [invoice : SUBSET Invoices,
                           value : {"none", "pending", "paid", "active", "suspended", "inactive"},
                           list : SUBSET Invoices, touched : SUBSET Invoices]]
  /\ job \in [stage : {"idle", "warn", "due", "clear", "suspend", "revoke"},
              list : SUBSET Invoices, invoice : SUBSET Invoices, active : BOOLEAN,
              suspended : BOOLEAN, touched : SUBSET Invoices]
  /\ failures \in Nat
  /\ past \in [Invoices -> [warnings : Nat, suspensions : Nat, undone : BOOLEAN]]

\* An invoice is warned of once in its life, whatever runs of the job fail and
\* whatever payments are registered and undone in between.
WarnedOnce == \A i \in Invoices : past[i].warnings <= 1

\* An academy that is reactivated with its debt is not suspended by the job again for
\* the same invoice, unless a payment of it has been registered as not made.
SuspendedOncePerInvoice ==
  \A i \in Invoices : ~past[i].undone => past[i].suspensions <= 1

\* Who is about to suspend the academy does it for an invoice that is overdue, or that
\* has been paid or cancelled only since the run began.
SuspendedForDebt ==
  /\ job.stage = "suspend" =>
       \A i \in job.invoice : Status(i) = "overdue" \/ i \in job.touched
  /\ \A r \in Requests : pc[r] = "suspend" =>
       \A i \in loc[r].invoice : Status(i) = "overdue" \/ i \in loc[r].touched

\* Who suspends or closes an academy closes its sessions, against users that log in and
\* refresh meanwhile: in a closed academy there is a live session only while someone is
\* about to close it, after a closing that died, or if its login or refresh had passed
\* the check of the academy when the sessions were closed.  No refresh renews that one.
ClosedAcademyHasNoSessions ==
  academy # "active" /\ ~lapsed /\ (\E d \in Devices : sessions[d].live /\ ~sessions[d].spared)
    => job.stage = "revoke" \/ \E r \in Requests : pc[r] \in {"revokeNext", "revoke"}

\* An invoice that is pending, past its date and not warned of does not stay so.
OverdueIsChased ==
  \A i \in Invoices :
    i \in PendingPastDue /\ ~invoices[i].warned ~> ~(i \in PendingPastDue /\ ~invoices[i].warned)

\* The date of a suspension is not forgotten: it is consumed or the invoice is settled,
\* even if the academy is not active when it comes.
ScheduleIsConsumed ==
  \A i \in Invoices :
    Status(i) = "overdue" /\ invoices[i].schedule # "none"
      ~> (Status(i) # "overdue" \/ invoices[i].schedule = "none")
=============================================================================
