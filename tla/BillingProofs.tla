---------------------------- MODULE BillingProofs ----------------------------
(***************************************************************************)
(* What holds of Billing for any number of invoices, of concurrent         *)
(* requests and of failures.                                               *)
(***************************************************************************)
EXTENDS Billing, TLAPS

Rows == [status : {"none", "pending", "paid", "overdue", "cancelled"},
         warned : BOOLEAN, schedule : {"none", "set", "reached"}]
Histories == [warnings : Nat, suspensions : Nat, undone : BOOLEAN]
Locals == [invoice : SUBSET Invoices,
           value : {"none", "pending", "paid", "active", "suspended", "inactive"},
           list : SUBSET Invoices, touched : SUBSET Invoices]
Runs == [stage : {"idle", "warn", "due", "clear", "suspend", "revoke"},
         list : SUBSET Invoices, invoice : SUBSET Invoices, active : BOOLEAN,
         suspended : BOOLEAN, touched : SUBSET Invoices]
Sessions == [live : BOOLEAN, spared : BOOLEAN, at : {"idle", "academy", "reject"} \cup Admitted]

LEMMA EmptyTypes == NoInvoice \in Rows /\ NoLocals \in Locals /\ NoRun \in Runs
BY DEF NoInvoice, Rows, NoLocals, Locals, NoRun, Runs

-----------------------------------------------------------------------------
(* Types                                                                    *)

\* A request that writes a status holds one of that kind.
Fits(stage, locals) ==
  /\ stage = "payment" => locals.value \in {"pending", "paid"}
  /\ stage = "status" => locals.value \in {"active", "suspended", "inactive"}

SlotsOK == /\ pc \in [Requests -> Stages] /\ loc \in [Requests -> Locals]
           /\ \A r \in Requests : Fits(pc[r], loc[r])

LEMMA BeginType ==
  ASSUME NEW r \in Requests, NEW stage \in Stages, NEW locals \in Locals, SlotsOK,
         Fits(stage, locals), Begin(r, stage, locals)
  PROVE  SlotsOK'
BY DEF Begin, SlotsOK

LEMMA GotoType ==
  ASSUME NEW r \in Requests, NEW stage \in Stages \ {"payment", "status"}, SlotsOK,
         Goto(r, stage)
  PROVE  SlotsOK'
BY DEF Goto, SlotsOK, Fits

LEMMA FinishType ==
  ASSUME NEW r \in Requests, SlotsOK, Finish(r)
  PROVE  SlotsOK'
BY EmptyTypes DEF Finish, SlotsOK, Stages, Fits

\* The locals a request begins with.
LEMMA LocalsTypes ==
  ASSUME NEW i \in Invoices
  PROVE  /\ [NoLocals EXCEPT !.invoice = {i}] \in Locals
         /\ \A v \in {"pending", "paid", "active", "suspended", "inactive"} :
              /\ [NoLocals EXCEPT !.invoice = {i}, !.value = v] \in Locals
              /\ [NoLocals EXCEPT !.invoice = {i}, !.value = v].value = v
BY DEF NoLocals, Locals

LEMMA ValueType ==
  /\ \A v \in {"pending", "paid", "active", "suspended", "inactive"} :
       [NoLocals EXCEPT !.value = v] \in Locals /\ [NoLocals EXCEPT !.value = v].value = v
  /\ \A list \in SUBSET Invoices : [NoLocals EXCEPT !.list = list] \in Locals
BY DEF NoLocals, Locals

\* A list taken from the invoices, and what is added to the invoices touched.
LEMMA ListTypes ==
  ASSUME pastDue \subseteq Invoices
  PROVE  PendingPastDue \in SUBSET Invoices /\ DueForSuspension \in SUBSET Invoices
BY DEF PendingPastDue, DueForSuspension

LEMMA TouchTypes ==
  ASSUME NEW i \in Invoices
  PROVE  /\ \A k \in Locals : [k EXCEPT !.touched = @ \cup {i}] \in Locals
         /\ \A k \in Locals : [k EXCEPT !.touched = @ \cup {i}].value = k.value
         /\ \A k \in Locals : [k EXCEPT !.invoice = {i}, !.list = @ \ {i}] \in Locals
         /\ \A run \in Runs : [run EXCEPT !.touched = @ \cup {i}] \in Runs
BY DEF Locals, Runs

LEMMA FinishTouchingType ==
  ASSUME NEW r \in Requests, NEW i \in Invoices, SlotsOK, job \in Runs, FinishTouching(r, i)
  PROVE  SlotsOK' /\ job' \in Runs
<1>1. pc' \in [Requests -> Stages]
  BY DEF FinishTouching, SlotsOK, Stages
<1>2. \A q \in Requests : loc'[q] \in Locals
  BY EmptyTypes, TouchTypes DEF FinishTouching, SlotsOK
<1>3. loc' \in [Requests -> Locals]
  BY <1>2 DEF FinishTouching
<1>4. job' \in Runs
  BY TouchTypes DEF FinishTouching
<1>5. ASSUME NEW q \in Requests PROVE Fits(pc[q], loc[q])'
  <2>1. CASE q = r
    BY <2>1 DEF FinishTouching, SlotsOK, Fits
  <2>2. CASE q # r
    <3>1. pc'[q] = pc[q] /\ loc'[q].value = loc[q].value
      BY <2>2, TouchTypes DEF FinishTouching, SlotsOK
    <3> QED BY <3>1 DEF SlotsOK, Fits
  <2> QED BY <2>1, <2>2
<1> QED BY <1>1, <1>3, <1>4, <1>5 DEF SlotsOK

LEMMA RowUpdates ==
  ASSUME NEW row \in Rows
  PROVE  /\ \A s \in {"pending", "paid", "overdue", "cancelled"} : [row EXCEPT !.status = s] \in Rows
         /\ \A s \in {"none", "set", "reached"} : [row EXCEPT !.schedule = s] \in Rows
         /\ [status |-> "overdue", warned |-> TRUE, schedule |-> "set"] \in Rows
BY DEF Rows

LEMMA HistoryUpdates ==
  ASSUME NEW h \in Histories
  PROVE  /\ \A b \in BOOLEAN : [h EXCEPT !.undone = @ \/ b] \in Histories
         /\ [h EXCEPT !.warnings = @ + 1] \in Histories
         /\ [h EXCEPT !.suspensions = @ + 1] \in Histories
BY DEF Histories

LEMMA RunUpdates ==
  ASSUME NEW run \in Runs
  PROVE  /\ \A i : [run EXCEPT !.list = @ \ {i}] \in Runs
         /\ \A i \in Invoices, b \in BOOLEAN :
              [run EXCEPT !.list = @ \ {i}, !.invoice = {i}, !.stage = "clear", !.active = b] \in Runs
         /\ \A s \in {"due", "suspend", "revoke"} : [run EXCEPT !.stage = s] \in Runs
         /\ [run EXCEPT !.stage = "due", !.suspended = TRUE] \in Runs
BY DEF Runs

LEMMA RunBegins ==
  ASSUME NEW list \in SUBSET Invoices
  PROVE  /\ [NoRun EXCEPT !.stage = "warn", !.list = list] \in Runs
         /\ [NoRun EXCEPT !.stage = "due", !.list = list] \in Runs
BY DEF NoRun, Runs

\* The parts of TypeOK, by name.
Tables == /\ invoices \in [Invoices -> Rows] /\ past \in [Invoices -> Histories]
          /\ pastDue \subseteq Invoices
          /\ academy \in {"active", "suspended", "inactive"} /\ failures \in Nat
          /\ sessions \in [Devices -> Sessions] /\ lapsed \in BOOLEAN

Types == Tables /\ SlotsOK /\ job \in Runs

LEMMA TypeParts == Types => TypeOK
BY DEF Types, TypeOK, Tables, SlotsOK, Rows, Histories, Locals, Runs, Sessions

\* What a step of a user does: it moves one device, and leaves the rest alone.
UserStep(d) ==
  \/ login(d) \/ performRefresh(d) \/ RefreshAcademy(d) \/ RefreshReject(d)
  \/ Rotate(d) \/ SessionInsert(d) \/ updateRefreshCredentials(d)
  \/ SessionEnds(d) \/ EntryFails(d)

\* What may come of a session for which something is to be closed.
Served(session) == (session.live \/ session.at \in Admitted) /\ ~session.spared

LEMMA UserSteps ==
  ASSUME Tables, NEW d \in Devices, UserStep(d)
  PROVE  /\ UNCHANGED <<invoices, pastDue, academy, lapsed, requests, job, past>>
         /\ failures' \in Nat
         /\ sessions' \in [Devices -> Sessions]
         /\ \A e \in Devices \ {d} : sessions'[e] = sessions[e]
         /\ Served(sessions'[d]) => Served(sessions[d]) \/ academy = "active"
<1>0. sessions \in [Devices -> Sessions] /\ sessions[d] \in Sessions /\ failures \in Nat
  BY DEF Tables
<1> DEFINE Moves(session) ==
      /\ session \in Sessions
      /\ Served(session) => Served(sessions[d]) \/ academy = "active"
<1>1. ASSUME NEW session, SessionStep(d, session), Moves(session)
      PROVE  /\ UNCHANGED <<invoices, pastDue, academy, lapsed, requests, job, past>>
             /\ failures' \in Nat
             /\ sessions' \in [Devices -> Sessions]
             /\ \A e \in Devices \ {d} : sessions'[e] = sessions[e]
             /\ Served(sessions'[d]) => Served(sessions[d]) \/ academy = "active"
  BY <1>0, <1>1 DEF SessionStep
<1>2. CASE login(d)
  <2>1. Moves([NoSession EXCEPT !.at = "insert"])
    BY <1>2 DEF login, NoSession, Sessions, Admitted
  <2> QED BY <1>1, <1>2, <2>1 DEF login
<1>3. CASE performRefresh(d)
  <2>1. Moves([sessions[d] EXCEPT !.at = "academy"])
    BY <1>0, <1>3 DEF performRefresh, Sessions, Admitted, Served
  <2> QED BY <1>1, <1>3, <2>1 DEF performRefresh
<1>4. CASE RefreshAcademy(d)
  <2>1. CASE academy = "active"
    <3>1. Moves([sessions[d] EXCEPT !.at = "rotate", !.spared = FALSE])
      BY <1>0, <2>1 DEF Sessions, Admitted
    <3> QED BY <1>1, <1>4, <2>1, <3>1 DEF RefreshAcademy
  <2>2. CASE academy # "active"
    <3>1. Moves([sessions[d] EXCEPT !.at = "reject"])
      BY <1>0, <1>4 DEF RefreshAcademy, Sessions, Admitted, Served
    <3> QED BY <1>1, <1>4, <2>2, <3>1 DEF RefreshAcademy
  <2> QED BY <2>1, <2>2
<1>5. CASE RefreshReject(d)
  <2>1. Moves(NoSession)
    BY DEF NoSession, Sessions, Admitted, Served
  <2> QED BY <1>1, <1>5, <2>1 DEF RefreshReject
<1>6. CASE Rotate(d)
  <2>1. Moves([sessions[d] EXCEPT !.at = "insert", !.live = FALSE])
    BY <1>0, <1>6 DEF Rotate, Sessions, Admitted, Served
  <2> QED BY <1>1, <1>6, <2>1 DEF Rotate
<1>7. CASE SessionInsert(d)
  <2>1. Moves([sessions[d] EXCEPT !.at = "update"])
    BY <1>0, <1>7 DEF SessionInsert, Sessions, Admitted, Served
  <2> QED BY <1>1, <1>7, <2>1 DEF SessionInsert
<1>8. CASE updateRefreshCredentials(d)
  <2>1. Moves([sessions[d] EXCEPT !.at = "idle", !.live = TRUE])
    BY <1>0, <1>8 DEF updateRefreshCredentials, Sessions, Admitted, Served
  <2> QED BY <1>1, <1>8, <2>1 DEF updateRefreshCredentials
<1>9. CASE SessionEnds(d)
  <2>1. Moves([sessions[d] EXCEPT !.live = FALSE])
    BY <1>0 DEF Sessions, Admitted, Served
  <2> QED BY <1>1, <1>9, <2>1 DEF SessionEnds
<1>10. CASE EntryFails(d)
  <2>1. PICK at \in {"reject", "idle"} : sessions' = [sessions EXCEPT ![d].at = at]
    BY <1>10 DEF EntryFails
  <2>2. sessions'[d] = [sessions[d] EXCEPT !.at = at]
    BY <1>0, <2>1
  <2>3. Moves([sessions[d] EXCEPT !.at = at])
    BY <1>0 DEF Sessions, Admitted, Served
  <2>4. sessions' \in [Devices -> Sessions]
    BY <1>0, <2>1, <2>3
  <2> QED BY <1>0, <1>10, <2>1, <2>2, <2>3, <2>4 DEF EntryFails
<1> QED BY <1>2, <1>3, <1>4, <1>5, <1>6, <1>7, <1>8, <1>9, <1>10 DEF UserStep

\* The closing of the sessions leaves none for which something is to be closed.
LEMMA SessionsClose ==
  ASSUME Tables, CloseSessions
  PROVE  /\ sessions' \in [Devices -> Sessions] /\ lapsed' = FALSE
         /\ \A d \in Devices : ~Served(sessions'[d])
<1>1. ASSUME NEW d \in Devices
      PROVE  sessions'[d] \in Sessions /\ ~Served(sessions'[d])
  <2>1. sessions[d] \in Sessions
    BY DEF Tables
  <2>2. sessions'[d] = [sessions[d] EXCEPT !.live = FALSE, !.spared = sessions[d].at \in Admitted]
    BY DEF CloseSessions
  <2>3. /\ sessions'[d].live = FALSE /\ sessions'[d].at = sessions[d].at
        /\ sessions'[d].spared = (sessions[d].at \in Admitted)
    BY <2>1, <2>2 DEF Sessions
  <2>4. (sessions[d].at \in Admitted) \in BOOLEAN
    OBVIOUS
  <2>5. sessions'[d] \in Sessions
    BY <2>1, <2>2, <2>4 DEF Sessions
  <2> QED BY <2>3, <2>5 DEF Served
<1> QED BY <1>1 DEF CloseSessions

LEMMA TypesKept == ASSUME Types, [Next]_vars PROVE Types'
<1>0. /\ Tables /\ SlotsOK /\ job \in Runs
      /\ PendingPastDue \in SUBSET Invoices /\ DueForSuspension \in SUBSET Invoices
  BY ListTypes DEF Types, Tables
<1>i. /\ \A i \in Invoices : invoices[i] \in Rows /\ past[i] \in Histories
      /\ \A r \in Requests : loc[r] \in Locals /\ loc[r].invoice \in SUBSET Invoices
                             /\ loc[r].list \in SUBSET Invoices
      /\ job.list \in SUBSET Invoices /\ job.invoice \in SUBSET Invoices
  BY <1>0 DEF Tables, SlotsOK, Locals, Runs
<1> DEFINE Goal == Tables' /\ SlotsOK' /\ job' \in Runs
<1> SUFFICES Goal
  BY DEF Types
<1>1. ASSUME NEW r \in Requests, CreateInvoice(r) PROVE Goal
  <2>1. PICK i \in loc[r].invoice :
          invoices' = IF Status(i) = "none" THEN [invoices EXCEPT ![i].status = "pending"] ELSE invoices
    BY <1>1 DEF CreateInvoice
  <2>2. invoices' \in [Invoices -> Rows]
    BY <1>0, <1>i, <2>1, RowUpdates DEF Tables
  <2> QED BY <1>0, <1>1, <2>2, FinishType DEF CreateInvoice, Tables, access
<1>2. ASSUME NEW r \in Requests, PaymentWrite(r) PROVE Goal
  <2>1. PICK i \in loc[r].invoice :
          /\ invoices' = [invoices EXCEPT ![i].status = loc[r].value]
          /\ past' = [past EXCEPT ![i].undone = @ \/ loc[r].value = "pending"]
          /\ FinishTouching(r, i)
    BY <1>2 DEF PaymentWrite
  <2>2. i \in Invoices /\ loc[r].value \in {"pending", "paid"}
    BY <1>0, <1>i, <1>2, <2>1 DEF PaymentWrite, SlotsOK, Fits
  <2>3. invoices' \in [Invoices -> Rows]
    BY <1>0, <1>i, <2>1, <2>2, RowUpdates DEF Tables
  <2>4. past' \in [Invoices -> Histories]
    <3>1. (loc[r].value = "pending") \in BOOLEAN
      OBVIOUS
    <3>2. [past[i] EXCEPT !.undone = @ \/ loc[r].value = "pending"] \in Histories
      BY <1>i, <2>2, <3>1, HistoryUpdates
    <3> QED BY <1>0, <2>1, <3>2 DEF Tables, access
  <2> QED BY <1>0, <1>2, <2>1, <2>2, <2>3, <2>4, FinishTouchingType DEF PaymentWrite, Tables, access
<1>3. ASSUME NEW r \in Requests, CancelWrite(r) PROVE Goal
  <2>1. PICK i \in loc[r].invoice :
          invoices' = [invoices EXCEPT ![i].status = "cancelled"] /\ FinishTouching(r, i)
    BY <1>3 DEF CancelWrite
  <2>2. invoices' \in [Invoices -> Rows]
    BY <1>0, <1>i, <2>1, RowUpdates DEF Tables
  <2> QED BY <1>0, <1>i, <1>3, <2>1, <2>2, FinishTouchingType DEF CancelWrite, Tables, access
<1>4. ASSUME NEW r \in Requests, processOverdueInvoices(r) PROVE Goal
  BY <1>0, <1>4, BeginType, ValueType DEF processOverdueInvoices, Tables, access, Stages, Fits
<1>5. ASSUME NEW r \in Requests, OverdueMark(r) PROVE Goal
  <2>1. PICK i \in loc[r].list :
          /\ invoices' = IF Status(i) = "pending" THEN [invoices EXCEPT ![i].status = "overdue"]
                                                  ELSE invoices
          /\ pc' = [pc EXCEPT ![r] = "check"]
          /\ loc' = [loc EXCEPT ![r].invoice = {i}, ![r].list = @ \ {i}]
    BY <1>5 DEF OverdueMark
  <2>2. invoices' \in [Invoices -> Rows]
    BY <1>0, <1>i, <2>1, RowUpdates DEF Tables
  <2>3. [loc[r] EXCEPT !.invoice = {i}, !.list = @ \ {i}] \in Locals
    BY <1>i, <2>1, TouchTypes
  <2>4. loc' = [loc EXCEPT ![r] = [loc[r] EXCEPT !.invoice = {i}, !.list = @ \ {i}]]
    BY <1>0, <2>1 DEF SlotsOK
  <2>5. SlotsOK'
    BY <1>0, <2>1, <2>3, <2>4 DEF SlotsOK, Stages, Fits
  <2> QED BY <1>0, <1>5, <2>2, <2>5 DEF OverdueMark, Tables, access
<1>6. ASSUME NEW r \in Requests, OverdueCheck(r) PROVE Goal
  BY <1>0, <1>6, GotoType, FinishType DEF OverdueCheck, NextMark, Tables, access, Stages
<1>7. ASSUME NEW r \in Requests, OverdueSuspend(r) PROVE Goal
  BY <1>0, <1>7, GotoType DEF OverdueSuspend, Tables, access, Stages
<1>8. ASSUME NEW r \in Requests, OverdueRevoke(r) PROVE Goal
  BY <1>0, <1>8, GotoType, FinishType, SessionsClose DEF OverdueRevoke, NextMark, Tables, access, Stages
<1>9. ASSUME NEW r \in Requests, StatusWrite(r) PROVE Goal
  <2>1. loc[r].value \in {"active", "suspended", "inactive"}
    BY <1>0, <1>9 DEF StatusWrite, SlotsOK, Fits
  <2> QED BY <1>0, <1>9, <2>1, GotoType, FinishType DEF StatusWrite, Tables, access, Stages
<1>10. ASSUME NEW r \in Requests, StatusRevoke(r) PROVE Goal
  BY <1>0, <1>10, FinishType, SessionsClose DEF StatusRevoke, Tables, access
<1>11. ASSUME NEW r \in Requests, reactivateAcademy(r) PROVE Goal
  BY <1>0, <1>11, BeginType, EmptyTypes DEF reactivateAcademy, Tables, access, Stages, Fits
<1>12. ASSUME NEW r \in Requests, ReactivateWrite(r) PROVE Goal
  BY <1>0, <1>12, FinishType DEF ReactivateWrite, Tables, access
<1>13. ASSUME NEW r \in Requests, Fail(r) PROVE Goal
  BY <1>0, <1>13, FinishType DEF Fail, Tables, access
<1>14. ASSUME NEW r \in Requests, NEW i \in Invoices, ensureInvoice(r, i) \/ cancel(r, i) PROVE Goal
  BY <1>0, <1>14, BeginType, LocalsTypes DEF ensureInvoice, cancel, Tables, access, Stages, Fits
<1>15. ASSUME NEW r \in Requests, NEW i \in Invoices, NEW status \in {"pending", "paid"},
              updatePayment(r, i, status)
       PROVE  Goal
  BY <1>0, <1>15, BeginType, LocalsTypes DEF updatePayment, Tables, access, Stages, Fits
<1>16. ASSUME NEW r \in Requests, NEW status \in {"active", "suspended", "inactive"},
              updateAcademyStatus(r, status)
       PROVE  Goal
  BY <1>0, <1>16, BeginType, ValueType DEF updateAcademyStatus, Tables, access, Stages, Fits
<1>17. ASSUME NEW d \in Devices, UserStep(d) PROVE Goal
  BY <1>0, <1>17, UserSteps DEF Tables, SlotsOK, requests
<1>18. CASE Job
  <2>1. CASE warnNewlyOverdue \/ suspendAfterGrace
    BY <1>0, <2>1, RunBegins DEF warnNewlyOverdue, suspendAfterGrace, Tables, access, SlotsOK, requests
  <2>2. CASE markOverdueWithWarning
    <3>1. PICK i \in job.list :
            /\ job' = [job EXCEPT !.list = @ \ {i}]
            /\ IF Status(i) = "pending" /\ ~invoices[i].warned
                 THEN /\ invoices' = [invoices EXCEPT ![i] = [status |-> "overdue", warned |-> TRUE,
                                                               schedule |-> "set"]]
                      /\ past' = [past EXCEPT ![i].warnings = @ + 1]
                 ELSE UNCHANGED <<invoices, past>>
      BY <2>2 DEF markOverdueWithWarning
    <3>2. job' \in Runs
      BY <1>0, <3>1, RunUpdates
    <3>3. invoices' \in [Invoices -> Rows]
      BY <1>0, <1>i, <3>1, RowUpdates DEF Tables
    <3>4. past' \in [Invoices -> Histories]
      <4>1. [past[i] EXCEPT !.warnings = @ + 1] \in Histories
        BY <1>i, <3>1, HistoryUpdates
      <4> QED BY <1>0, <3>1, <4>1 DEF Tables, access
    <3> QED BY <1>0, <2>2, <3>2, <3>3, <3>4 DEF markOverdueWithWarning, Tables, access, SlotsOK, requests
  <2>3. CASE DueAcademy
    <3>1. (academy = "active") \in BOOLEAN
      OBVIOUS
    <3>2. job' \in Runs
      <4>1. PICK i \in job.list :
              job' = IF job.suspended THEN [job EXCEPT !.list = @ \ {i}]
                     ELSE [job EXCEPT !.list = @ \ {i}, !.invoice = {i}, !.stage = "clear",
                                      !.active = academy = "active"]
        BY <2>3 DEF DueAcademy
      <4>2. i \in Invoices
        BY <1>i, <4>1
      <4>3. [job EXCEPT !.list = @ \ {i}] \in Runs
        BY <1>0, RunUpdates
      <4>4. [job EXCEPT !.list = @ \ {i}, !.invoice = {i}, !.stage = "clear",
                        !.active = academy = "active"] \in Runs
        BY <1>0, <3>1, <4>2, RunUpdates
      <4> QED BY <4>1, <4>3, <4>4
    <3> QED BY <1>0, <2>3, <3>2 DEF DueAcademy, Tables, access, SlotsOK, requests
  <2>4. CASE clearSuspensionSchedule
    BY <1>0, <1>i, <2>4, RunUpdates, RowUpdates DEF clearSuspensionSchedule, Tables, access, SlotsOK, requests
  <2>5. CASE JobSuspend
    BY <1>0, <1>i, <2>5, RunUpdates, HistoryUpdates DEF JobSuspend, Tables, access, SlotsOK, requests
  <2>6. CASE JobRevoke
    BY <1>0, <2>6, RunUpdates, SessionsClose DEF JobRevoke, Tables, access, SlotsOK, requests
  <2>7. CASE JobEnds
    BY <1>0, <2>7, EmptyTypes DEF JobEnds, Tables, access, SlotsOK, requests
  <2> QED BY <1>18, <2>1, <2>2, <2>3, <2>4, <2>5, <2>6, <2>7 DEF Job
<1>19. CASE JobFails
  BY <1>0, <1>19, EmptyTypes DEF JobFails, Tables, access, SlotsOK, requests
<1>20. ASSUME NEW i \in Invoices, DueDatePasses(i) \/ GraceEnds(i) PROVE Goal
  BY <1>0, <1>i, <1>20, RowUpdates DEF DueDatePasses, GraceEnds, Tables, access, SlotsOK, requests
<1>21. CASE UNCHANGED vars
  BY <1>0, <1>21 DEF vars, Tables, access, SlotsOK, requests
<1> QED
  BY <1>1, <1>2, <1>3, <1>4, <1>5, <1>6, <1>7, <1>8, <1>9, <1>10, <1>11, <1>12, <1>13, <1>14, <1>15,
     <1>16, <1>17, <1>18, <1>19, <1>20, <1>21 DEF Next, UserStep

LEMMA InitTypes == Init => Types
<1> SUFFICES ASSUME Init PROVE Types
  OBVIOUS
<1>1. [warnings |-> 0, suspensions |-> 0, undone |-> FALSE] \in Histories
  BY DEF Histories
<1>2. Tables
  BY <1>1, EmptyTypes DEF Init, Tables, NoSession, Sessions
<1>3. SlotsOK
  BY EmptyTypes DEF Init, SlotsOK, Stages, Fits
<1> QED BY <1>2, <1>3, EmptyTypes DEF Init, Types

\* The types of the variables (TypeOK), in every reachable state.
THEOREM TypeCorrect == Spec => []TypeOK
BY InitTypes, TypesKept, TypeParts, PTL DEF Spec

-----------------------------------------------------------------------------
(* What is known of an invoice, and of those a run or a request has listed  *)

\* A schedule comes with the one warning.  What the job has suspended for and has not been
\* paid and unpaid since has no schedule, or is paid or cancelled for good.
InvoiceFacts(i) ==
  /\ past[i].warnings <= 1 /\ (past[i].warnings > 0 => invoices[i].warned)
  /\ invoices[i].schedule # "none" => invoices[i].warned
  /\ Status(i) = "none" => invoices[i].schedule = "none"
  /\ ~past[i].undone =>
       /\ past[i].suspensions <= 1
       /\ past[i].suspensions > 0 =>
            /\ invoices[i].warned
            /\ invoices[i].schedule = "none" \/ Status(i) \in {"paid", "cancelled"}

\* The job has not yet suspended the academy for what it has listed.
Listed(i) ==
  /\ invoices[i].warned
  /\ past[i].undone \/ (past[i].suspensions = 0 /\ Status(i) \in {"overdue", "paid", "cancelled"})
  /\ Status(i) = "overdue" \/ i \in job.touched

Consumed(i) == past[i].undone \/ invoices[i].schedule = "none" \/ Status(i) \in {"paid", "cancelled"}

JobFacts ==
  /\ job.suspended => job.stage = "due"
  /\ ~job.suspended =>
       /\ job.stage \in {"due", "clear", "suspend"} => \A i \in job.list : Listed(i)
       /\ job.stage \in {"clear", "suspend"} => \A i \in job.invoice : Listed(i)
       /\ job.stage = "suspend" => \A i \in job.invoice : Consumed(i)

\* A request has listed what was pending, and has marked what it acts on.
RequestFacts(r) ==
  /\ pc[r] \in OverdueStages =>
       \A i \in loc[r].list : Status(i) \in {"pending", "overdue"} \/ i \in loc[r].touched
  /\ pc[r] \in {"check", "suspend"} =>
       \A i \in loc[r].invoice : Status(i) = "overdue" \/ i \in loc[r].touched

Facts ==
  /\ \A i \in Invoices : InvoiceFacts(i)
  /\ JobFacts
  /\ \A r \in Requests : RequestFacts(r)

-----------------------------------------------------------------------------
(* Steps outside the job                                                    *)

\* What such a step may do to an invoice.
Quiet(i) == invoices'[i] = invoices[i] /\ past'[i] = past[i]
Rest(i) == invoices'[i].warned = invoices[i].warned /\ invoices'[i].schedule = invoices[i].schedule
Created(i) == /\ invoices[i].status = "none" /\ invoices'[i].status = "pending"
              /\ Rest(i) /\ past'[i] = past[i]
Marked(i) == /\ invoices[i].status = "pending" /\ invoices'[i].status = "overdue"
             /\ Rest(i) /\ past'[i] = past[i]
GraceOver(i) == /\ invoices[i].schedule = "set" /\ invoices'[i].schedule = "reached"
                /\ invoices'[i].status = invoices[i].status
                /\ invoices'[i].warned = invoices[i].warned /\ past'[i] = past[i]
Settled(i) == /\ invoices'[i].status \in {"pending", "paid", "cancelled"} /\ Rest(i)
              /\ past'[i].warnings = past[i].warnings /\ past'[i].suspensions = past[i].suspensions
              /\ past[i].undone \/ invoices'[i].status = "pending" => past'[i].undone
              /\ job.stage \in {"due", "clear", "suspend"} => i \in job'.touched

OutsideJob ==
  /\ job'.stage = job.stage /\ job'.list = job.list /\ job'.invoice = job.invoice
  /\ job'.suspended = job.suspended /\ job.touched \subseteq job'.touched
  /\ \A i \in Invoices : Quiet(i) \/ Created(i) \/ Marked(i) \/ GraceOver(i) \/ Settled(i)

LEMMA OutsideKeeps ==
  ASSUME Types, \A i \in Invoices : InvoiceFacts(i), JobFacts, OutsideJob
  PROVE  (\A i \in Invoices : InvoiceFacts(i))' /\ JobFacts'
<1>0. /\ \A i \in Invoices : past[i].warnings \in Nat /\ past[i].suspensions \in Nat
      /\ job.list \subseteq Invoices /\ job.invoice \subseteq Invoices
  BY DEF Types, Tables, Histories, Runs
<1>1. ASSUME NEW i \in Invoices PROVE InvoiceFacts(i)'
  <2>0. InvoiceFacts(i)
    OBVIOUS
  <2>1. CASE Quiet(i)
    BY <2>0, <2>1 DEF Quiet, InvoiceFacts, Status
  <2>2. CASE Created(i)
    BY <2>0, <2>2 DEF Created, Rest, InvoiceFacts, Status
  <2>3. CASE Marked(i)
    BY <2>0, <2>3 DEF Marked, Rest, InvoiceFacts, Status
  <2>4. CASE GraceOver(i)
    BY <2>0, <2>4 DEF GraceOver, InvoiceFacts, Status
  <2>5. CASE Settled(i)
    BY <2>0, <2>5 DEF Settled, Rest, InvoiceFacts, Status
  <2> QED BY <2>1, <2>2, <2>3, <2>4, <2>5 DEF OutsideJob
<1>2. ASSUME NEW i \in Invoices, Listed(i), job.stage \in {"due", "clear", "suspend"} PROVE Listed(i)'
  <2>0. job.touched \subseteq job'.touched
    BY DEF OutsideJob
  <2>1. CASE Quiet(i)
    BY <1>2, <2>0, <2>1 DEF Quiet, Listed, Status
  <2>2. CASE Created(i)
    BY <1>2, <2>0, <2>2 DEF Created, Rest, Listed, Status
  <2>3. CASE Marked(i)
    BY <1>2, <2>0, <2>3 DEF Marked, Rest, Listed, Status
  <2>4. CASE GraceOver(i)
    BY <1>2, <2>0, <2>4 DEF GraceOver, Listed, Status
  <2>5. CASE Settled(i)
    BY <1>2, <2>5 DEF Settled, Rest, Listed, Status
  <2> QED BY <2>1, <2>2, <2>3, <2>4, <2>5 DEF OutsideJob
<1>3. ASSUME NEW i \in Invoices, Consumed(i) PROVE Consumed(i)'
  <2>0. InvoiceFacts(i)
    OBVIOUS
  <2>1. CASE Quiet(i)
    BY <1>3, <2>1 DEF Quiet, Consumed, Status
  <2>2. CASE Created(i)
    BY <1>3, <2>0, <2>2 DEF Created, Rest, Consumed, Status, InvoiceFacts
  <2>3. CASE Marked(i)
    BY <1>3, <2>3 DEF Marked, Rest, Consumed, Status
  <2>4. CASE GraceOver(i)
    BY <1>3, <2>4 DEF GraceOver, Consumed, Status
  <2>5. CASE Settled(i)
    BY <1>3, <2>5 DEF Settled, Rest, Consumed, Status
  <2> QED BY <2>1, <2>2, <2>3, <2>4, <2>5 DEF OutsideJob
<1>4. JobFacts'
  BY <1>0, <1>2, <1>3 DEF OutsideJob, JobFacts
<1> QED BY <1>1, <1>4

\* What keeps the facts of a request that another one's step, or a step of the job, leaves.
Forward(i) ==
  \/ invoices'[i].status = invoices[i].status
  \/ invoices[i].status = "pending" /\ invoices'[i].status = "overdue"
  \/ invoices[i].status = "none"

SlotKept(q) ==
  /\ pc'[q] = pc[q] /\ loc'[q].list = loc[q].list /\ loc'[q].invoice = loc[q].invoice
  /\ loc[q].touched \subseteq loc'[q].touched
  /\ pc[q] \in OverdueStages => \A i \in Invoices : Forward(i) \/ i \in loc'[q].touched

LEMMA SlotFacts ==
  ASSUME Types, NEW q \in Requests, RequestFacts(q), SlotKept(q)
  PROVE  RequestFacts(q)'
<1>1. loc[q].list \subseteq Invoices /\ loc[q].invoice \subseteq Invoices
  BY DEF Types, SlotsOK, Locals
<1>2. ASSUME NEW i \in Invoices, pc[q] \in OverdueStages,
             Status(i) \in {"pending", "overdue"} \/ i \in loc[q].touched
      PROVE  Status(i)' \in {"pending", "overdue"} \/ i \in loc'[q].touched
  BY <1>2 DEF SlotKept, Forward, Status
<1>3. ASSUME NEW i \in Invoices, pc[q] \in OverdueStages,
             Status(i) = "overdue" \/ i \in loc[q].touched
      PROVE  Status(i)' = "overdue" \/ i \in loc'[q].touched
  BY <1>3 DEF SlotKept, Forward, Status
<1> QED BY <1>1, <1>2, <1>3 DEF RequestFacts, SlotKept, OverdueStages

\* A slot where no list is held.
LEMMA SlotFree ==
  ASSUME NEW q \in Requests, pc'[q] \notin OverdueStages
  PROVE  RequestFacts(q)'
BY DEF RequestFacts, OverdueStages

\* A step of request r that does not write an invoice.
LEMMA ReadingStep ==
  ASSUME Types, Facts, NEW r \in Requests, UNCHANGED <<invoices, past, job>>,
         \A q \in Requests \ {r} : pc'[q] = pc[q] /\ loc'[q] = loc[q],
         RequestFacts(r)'
  PROVE  Facts'
<1>1. OutsideJob
  BY DEF OutsideJob, Quiet
<1>2. ASSUME NEW q \in Requests \ {r} PROVE RequestFacts(q)'
  <2>1. SlotKept(q)
    BY DEF SlotKept, Forward
  <2> QED BY <2>1, SlotFacts DEF Facts
<1> QED BY <1>1, <1>2, OutsideKeeps DEF Facts

\* Slots that begin, go on or end leave the others alone.
LEMMA OthersAlone ==
  ASSUME Types, NEW r \in Requests, NEW stage, NEW locals,
         Begin(r, stage, locals) \/ Goto(r, stage) \/ Finish(r)
  PROVE  /\ \A q \in Requests \ {r} : pc'[q] = pc[q] /\ loc'[q] = loc[q]
         /\ Finish(r) => pc'[r] = "idle"
         /\ Begin(r, stage, locals) => pc'[r] = stage /\ loc'[r] = locals
         /\ Goto(r, stage) => pc'[r] = stage /\ loc'[r] = loc[r]
BY DEF Types, SlotsOK, Begin, Goto, Finish

LEMMA BeginFacts ==
  ASSUME Types, Facts, NEW r \in Requests, NEW stage \in Stages \ OverdueStages, NEW locals,
         Begin(r, stage, locals), UNCHANGED <<invoices, past, job>>
  PROVE  Facts'
BY OthersAlone, SlotFree, ReadingStep

LEMMA FinishFacts ==
  ASSUME Types, Facts, NEW r \in Requests, Finish(r), UNCHANGED <<invoices, past, job>>
  PROVE  Facts'
<1>1. pc'[r] = "idle" /\ \A q \in Requests \ {r} : pc'[q] = pc[q] /\ loc'[q] = loc[q]
  BY OthersAlone
<1>2. RequestFacts(r)'
  BY <1>1, SlotFree DEF OverdueStages
<1> QED BY <1>1, <1>2, ReadingStep

LEMMA GotoFacts ==
  ASSUME Types, Facts, NEW r \in Requests, NEW stage, Goto(r, stage),
         UNCHANGED <<invoices, past, job>>,
         stage \in OverdueStages => pc[r] \in OverdueStages /\ (stage = "suspend" => pc[r] = "check")
                                     /\ stage # "check"
  PROVE  Facts'
<1>1. /\ pc'[r] = stage /\ loc'[r] = loc[r]
      /\ \A q \in Requests \ {r} : pc'[q] = pc[q] /\ loc'[q] = loc[q]
  BY OthersAlone
<1>2. CASE stage \notin OverdueStages
  BY <1>1, <1>2, SlotFree, ReadingStep
<1>3. CASE stage \in OverdueStages
  <2>1. RequestFacts(r)
    BY DEF Facts
  <2>2. RequestFacts(r)'
    BY <1>1, <1>3, <2>1 DEF RequestFacts, OverdueStages, Status
  <2> QED BY <1>1, <2>2, ReadingStep
<1> QED BY <1>2, <1>3

\* A payment or a cancellation: who holds a list of invoices hears of it.
LEMMA SettlingStep ==
  ASSUME Types, Facts, NEW r \in Requests, NEW i \in Invoices, FinishTouching(r, i),
         NEW value \in {"pending", "paid", "cancelled"},
         invoices' = [invoices EXCEPT ![i].status = value],
         past' = [past EXCEPT ![i].undone = @ \/ value = "pending"]
  PROVE  Facts'
<1>0. /\ invoices \in [Invoices -> Rows] /\ past \in [Invoices -> Histories]
      /\ loc \in [Requests -> Locals] /\ pc \in [Requests -> Stages] /\ job \in Runs
  BY DEF Types, Tables, SlotsOK
<1>1. /\ job'.stage = job.stage /\ job'.list = job.list /\ job'.invoice = job.invoice
      /\ job'.suspended = job.suspended /\ job.touched \subseteq job'.touched
      /\ job.stage \in {"due", "clear", "suspend"} => i \in job'.touched
  BY <1>0 DEF FinishTouching, Runs
<1>2. ASSUME NEW j \in Invoices, j # i PROVE Quiet(j)
  BY <1>0, <1>2 DEF Quiet
<1>3. invoices[i] \in Rows /\ invoices'[i] = [invoices[i] EXCEPT !.status = value]
  BY <1>0
<1>4. past[i] \in Histories /\ past'[i] = [past[i] EXCEPT !.undone = @ \/ value = "pending"]
  BY <1>0
<1>5. invoices'[i].status = value /\ Rest(i)
  BY <1>3 DEF Rows, Rest
<1>6. /\ past'[i].warnings = past[i].warnings /\ past'[i].suspensions = past[i].suspensions
      /\ past'[i].undone = (past[i].undone \/ value = "pending")
  BY <1>4 DEF Histories
<1>7. Settled(i)
  BY <1>1, <1>5, <1>6 DEF Settled, Status
<1>8. OutsideJob
  BY <1>1, <1>2, <1>7 DEF OutsideJob
<1>9. RequestFacts(r)'
  <2>1. pc'[r] = "idle"
    BY <1>0 DEF FinishTouching
  <2> QED BY <2>1, SlotFree DEF OverdueStages
<1>10. ASSUME NEW q \in Requests \ {r} PROVE RequestFacts(q)'
  <2>1. pc'[q] = pc[q] /\ loc[q] \in Locals
    BY <1>0 DEF FinishTouching
  <2>2. loc'[q] = IF pc[q] \in OverdueStages THEN [loc[q] EXCEPT !.touched = @ \cup {i}] ELSE loc[q]
    BY DEF FinishTouching
  <2>3. /\ loc'[q].list = loc[q].list /\ loc'[q].invoice = loc[q].invoice
        /\ loc[q].touched \subseteq loc'[q].touched
        /\ pc[q] \in OverdueStages => i \in loc'[q].touched
    <3>1. CASE pc[q] \in OverdueStages
      BY <2>1, <2>2, <3>1 DEF Locals
    <3>2. CASE pc[q] \notin OverdueStages
      BY <2>2, <3>2
    <3> QED BY <3>1, <3>2
  <2>4. SlotKept(q)
    BY <1>2, <2>1, <2>3 DEF SlotKept, Forward, Quiet
  <2> QED BY <2>4, SlotFacts DEF Facts
<1> QED BY <1>8, <1>9, <1>10, OutsideKeeps DEF Facts

\* Every step that is not the job's keeps the facts.
LEMMA RequestSteps ==
  ASSUME Types, Facts, [Next]_vars, ~Job, ~JobFails
  PROVE  Facts'
<1>0. /\ invoices \in [Invoices -> Rows] /\ past \in [Invoices -> Histories]
      /\ loc \in [Requests -> Locals] /\ pc \in [Requests -> Stages]
      /\ \A r \in Requests : loc[r].invoice \subseteq Invoices /\ loc[r].list \subseteq Invoices
  BY DEF Types, Tables, SlotsOK, Locals
<1>1. ASSUME NEW r \in Requests, CreateInvoice(r) PROVE Facts'
  <2>1. PICK i \in loc[r].invoice :
          invoices' = IF Status(i) = "none" THEN [invoices EXCEPT ![i].status = "pending"] ELSE invoices
    BY <1>1 DEF CreateInvoice
  <2>2. i \in Invoices /\ Finish(r) /\ UNCHANGED <<job, past>>
    BY <1>0, <1>1, <2>1 DEF CreateInvoice
  <2>3. CASE Status(i) # "none"
    BY <2>1, <2>2, <2>3, FinishFacts
  <2>4. CASE Status(i) = "none"
    <3>1. invoices[i] \in Rows /\ invoices'[i] = [invoices[i] EXCEPT !.status = "pending"]
      BY <1>0, <2>1, <2>2, <2>4
    <3>2. Created(i)
      BY <2>2, <2>4, <3>1 DEF Created, Rest, Rows, Status
    <3>3. \A j \in Invoices : j # i => Quiet(j)
      BY <1>0, <2>1, <2>2, <2>4 DEF Quiet
    <3>4. OutsideJob
      BY <2>2, <3>2, <3>3 DEF OutsideJob
    <3>5. pc'[r] = "idle" /\ \A q \in Requests \ {r} : pc'[q] = pc[q] /\ loc'[q] = loc[q]
      BY <2>2, OthersAlone
    <3>6. ASSUME NEW q \in Requests \ {r} PROVE RequestFacts(q)'
      <4>1. SlotKept(q)
        BY <3>2, <3>3, <3>5 DEF SlotKept, Forward, Created, Quiet
      <4> QED BY <4>1, SlotFacts DEF Facts
    <3>7. RequestFacts(r)'
      BY <3>5, SlotFree DEF OverdueStages
    <3> QED BY <3>4, <3>6, <3>7, OutsideKeeps DEF Facts
  <2> QED BY <2>3, <2>4
<1>2. ASSUME NEW r \in Requests, PaymentWrite(r) PROVE Facts'
  <2>1. PICK i \in loc[r].invoice :
          /\ invoices' = [invoices EXCEPT ![i].status = loc[r].value]
          /\ past' = [past EXCEPT ![i].undone = @ \/ loc[r].value = "pending"]
          /\ FinishTouching(r, i)
    BY <1>2 DEF PaymentWrite
  <2>2. i \in Invoices /\ loc[r].value \in {"pending", "paid"}
    BY <1>0, <1>2, <2>1 DEF PaymentWrite, Types, SlotsOK, Fits
  <2> QED BY <2>1, <2>2, SettlingStep
<1>3. ASSUME NEW r \in Requests, CancelWrite(r) PROVE Facts'
  <2>1. PICK i \in loc[r].invoice :
          invoices' = [invoices EXCEPT ![i].status = "cancelled"] /\ FinishTouching(r, i)
    BY <1>3 DEF CancelWrite
  <2>2. i \in Invoices /\ UNCHANGED past
    BY <1>0, <1>3, <2>1 DEF CancelWrite
  <2>3. past[i] \in Histories /\ [past[i] EXCEPT !.undone = @ \/ "cancelled" = "pending"] = past[i]
    BY <1>0, <2>2 DEF Histories
  <2>4. past' = [past EXCEPT ![i].undone = @ \/ "cancelled" = "pending"]
    BY <1>0, <2>2, <2>3
  <2> QED BY <2>1, <2>2, <2>4, SettlingStep
<1>4. ASSUME NEW r \in Requests, processOverdueInvoices(r) PROVE Facts'
  <2>1. Begin(r, "mark", [NoLocals EXCEPT !.list = PendingPastDue]) /\ UNCHANGED <<invoices, past, job>>
    BY <1>4 DEF processOverdueInvoices
  <2>2. /\ pc'[r] = "mark" /\ loc'[r] = [NoLocals EXCEPT !.list = PendingPastDue]
        /\ \A q \in Requests \ {r} : pc'[q] = pc[q] /\ loc'[q] = loc[q]
    BY <2>1, OthersAlone
  <2>3. RequestFacts(r)'
    BY <2>1, <2>2 DEF RequestFacts, NoLocals, PendingPastDue, Status
  <2> QED BY <2>1, <2>2, <2>3, ReadingStep
<1>5. ASSUME NEW r \in Requests, OverdueMark(r) PROVE Facts'
  <2>1. PICK i \in loc[r].list :
          /\ invoices' = IF Status(i) = "pending" THEN [invoices EXCEPT ![i].status = "overdue"]
                                                  ELSE invoices
          /\ pc' = [pc EXCEPT ![r] = "check"]
          /\ loc' = [loc EXCEPT ![r].invoice = {i}, ![r].list = @ \ {i}]
    BY <1>5 DEF OverdueMark
  <2>2. i \in Invoices /\ UNCHANGED <<job, past>> /\ pc[r] = "mark" /\ loc[r] \in Locals
    BY <1>0, <1>5, <2>1 DEF OverdueMark
  <2>3. invoices[i] \in Rows /\ \A j \in Invoices : j # i => Quiet(j)
    BY <1>0, <2>1, <2>2 DEF Quiet
  <2>4. Quiet(i) \/ Marked(i)
    <3>1. CASE Status(i) = "pending"
      <4>1. invoices'[i] = [invoices[i] EXCEPT !.status = "overdue"]
        BY <1>0, <2>1, <2>2, <3>1
      <4> QED BY <2>2, <2>3, <3>1, <4>1 DEF Marked, Rest, Rows, Status
    <3>2. CASE Status(i) # "pending"
      BY <2>1, <2>2, <3>2 DEF Quiet
    <3> QED BY <3>1, <3>2
  <2>5. OutsideJob
    BY <2>2, <2>3, <2>4 DEF OutsideJob
  <2>6. ASSUME NEW q \in Requests \ {r} PROVE RequestFacts(q)'
    <3>1. SlotKept(q)
      BY <1>0, <2>1, <2>3, <2>4 DEF SlotKept, Forward, Marked, Quiet
    <3> QED BY <3>1, SlotFacts DEF Facts
  <2>7. RequestFacts(r)'
    <3>1. loc'[r] = [loc[r] EXCEPT !.invoice = {i}, !.list = @ \ {i}] /\ pc'[r] = "check"
      BY <1>0, <2>1
    <3>2. loc'[r].invoice = {i} /\ loc'[r].list = loc[r].list \ {i} /\ loc'[r].touched = loc[r].touched
      BY <2>2, <3>1 DEF Locals
    <3>3. \A j \in loc[r].list : Status(j) \in {"pending", "overdue"} \/ j \in loc[r].touched
      BY <2>2 DEF Facts, RequestFacts, OverdueStages
    <3>4. Status(i)' = "overdue" \/ i \in loc[r].touched
      BY <1>0, <2>1, <2>2, <2>4, <3>3 DEF Marked, Quiet, Status
    <3>5. \A j \in Invoices : j # i => Status(j)' = Status(j)
      BY <2>3 DEF Quiet, Status
    <3> QED BY <1>0, <3>1, <3>2, <3>3, <3>4, <3>5 DEF RequestFacts
  <2> QED BY <2>5, <2>6, <2>7, OutsideKeeps DEF Facts
<1>6. ASSUME NEW r \in Requests, OverdueCheck(r) PROVE Facts'
  BY <1>6, GotoFacts, FinishFacts DEF OverdueCheck, NextMark, OverdueStages
<1>7. ASSUME NEW r \in Requests, OverdueSuspend(r) PROVE Facts'
  BY <1>7, GotoFacts DEF OverdueSuspend, OverdueStages
<1>8. ASSUME NEW r \in Requests, OverdueRevoke(r) PROVE Facts'
  BY <1>8, GotoFacts, FinishFacts DEF OverdueRevoke, NextMark, OverdueStages
<1>9. ASSUME NEW r \in Requests, StatusWrite(r) PROVE Facts'
  BY <1>9, GotoFacts, FinishFacts DEF StatusWrite, OverdueStages
<1>10. ASSUME NEW r \in Requests, StatusRevoke(r) \/ ReactivateWrite(r) \/ Fail(r) PROVE Facts'
  BY <1>10, FinishFacts DEF StatusRevoke, ReactivateWrite, Fail
<1>11. ASSUME NEW r \in Requests, reactivateAcademy(r) PROVE Facts'
  BY <1>11, BeginFacts DEF reactivateAcademy, Stages, OverdueStages
<1>12. ASSUME NEW r \in Requests, NEW i \in Invoices, ensureInvoice(r, i) \/ cancel(r, i) PROVE Facts'
  BY <1>12, BeginFacts DEF ensureInvoice, cancel, Stages, OverdueStages
<1>13. ASSUME NEW r \in Requests, NEW i \in Invoices, NEW status \in {"pending", "paid"},
              updatePayment(r, i, status)
       PROVE  Facts'
  BY <1>13, BeginFacts DEF updatePayment, Stages, OverdueStages
<1>14. ASSUME NEW r \in Requests, NEW status \in {"active", "suspended", "inactive"},
              updateAcademyStatus(r, status)
       PROVE  Facts'
  BY <1>14, BeginFacts DEF updateAcademyStatus, Stages, OverdueStages
<1>15. ASSUME UNCHANGED <<invoices, past, job, pc, loc>> PROVE Facts'
  <2>1. OutsideJob
    BY <1>15 DEF OutsideJob, Quiet
  <2>2. ASSUME NEW q \in Requests PROVE RequestFacts(q)'
    <3>1. SlotKept(q)
      BY <1>15 DEF SlotKept, Forward
    <3> QED BY <3>1, SlotFacts DEF Facts
  <2> QED BY <2>1, <2>2, OutsideKeeps DEF Facts
<1>16. ASSUME NEW d \in Devices, UserStep(d) PROVE Facts'
  BY <1>15, <1>16, UserSteps DEF Types, requests
<1>17. ASSUME NEW i \in Invoices, DueDatePasses(i) PROVE Facts'
  BY <1>15, <1>17 DEF DueDatePasses, requests
<1>18. ASSUME NEW i \in Invoices, GraceEnds(i) PROVE Facts'
  <2>1. invoices[i] \in Rows /\ invoices' = [invoices EXCEPT ![i].schedule = "reached"]
    BY <1>0, <1>18 DEF GraceEnds
  <2>2. invoices'[i] = [invoices[i] EXCEPT !.schedule = "reached"] /\ UNCHANGED <<past, job, pc, loc>>
    BY <1>0, <1>18, <2>1 DEF GraceEnds, requests
  <2>3. GraceOver(i)
    BY <1>18, <2>1, <2>2 DEF GraceEnds, GraceOver, Rows
  <2>4. \A j \in Invoices : j # i => Quiet(j)
    BY <1>0, <2>1, <2>2 DEF Quiet
  <2>5. OutsideJob
    BY <2>2, <2>3, <2>4 DEF OutsideJob
  <2>6. ASSUME NEW q \in Requests PROVE RequestFacts(q)'
    <3>1. SlotKept(q)
      BY <2>2, <2>3, <2>4 DEF SlotKept, Forward, GraceOver, Quiet
    <3> QED BY <3>1, SlotFacts DEF Facts
  <2> QED BY <2>5, <2>6, OutsideKeeps DEF Facts
<1>19. CASE UNCHANGED vars
  BY <1>15, <1>19 DEF vars, requests
<1> QED
  BY <1>1, <1>2, <1>3, <1>4, <1>5, <1>6, <1>7, <1>8, <1>9, <1>10, <1>11, <1>12, <1>13, <1>14, <1>16,
     <1>17, <1>18, <1>19 DEF Next, UserStep

-----------------------------------------------------------------------------
(* Steps of the job                                                         *)

\* They leave the slots alone and, of a status, make overdue what is pending.
LEMMA JobSlots ==
  ASSUME Types, Facts, UNCHANGED <<pc, loc>>, \A i \in Invoices : Forward(i), NEW q \in Requests
  PROVE  RequestFacts(q)'
<1>1. SlotKept(q)
  BY DEF SlotKept
<1> QED BY <1>1, SlotFacts DEF Facts

LEMMA JobSteps ==
  ASSUME Types, Facts, Job \/ JobFails
  PROVE  Facts'
<1>0. /\ invoices \in [Invoices -> Rows] /\ past \in [Invoices -> Histories] /\ job \in Runs
      /\ \A i \in Invoices : invoices[i] \in Rows /\ past[i] \in Histories /\ InvoiceFacts(i)
      /\ JobFacts
      /\ job.list \subseteq Invoices /\ job.invoice \subseteq Invoices
  BY DEF Types, Tables, Facts, Runs
\* A step that reads: only the run's own facts are at stake.
<1>1. ASSUME UNCHANGED <<invoices, past, pc, loc>>, JobFacts' PROVE Facts'
  <2>1. \A i \in Invoices : InvoiceFacts(i)'
    BY <1>0, <1>1 DEF InvoiceFacts, Status
  <2>2. \A q \in Requests : RequestFacts(q)'
    BY <1>1, JobSlots DEF Forward
  <2> QED BY <1>1, <2>1, <2>2 DEF Facts
<1>2. CASE warnNewlyOverdue
  <2>1. job'.stage = "warn" /\ job'.suspended = FALSE
    BY <1>2 DEF warnNewlyOverdue, NoRun
  <2>2. JobFacts'
    BY <2>1 DEF JobFacts
  <2> QED BY <1>1, <1>2, <2>2 DEF warnNewlyOverdue, requests
<1>3. CASE markOverdueWithWarning
  <2>1. PICK i \in job.list :
          /\ job' = [job EXCEPT !.list = @ \ {i}]
          /\ IF Status(i) = "pending" /\ ~invoices[i].warned
               THEN /\ invoices' = [invoices EXCEPT ![i] = [status |-> "overdue", warned |-> TRUE,
                                                             schedule |-> "set"]]
                    /\ past' = [past EXCEPT ![i].warnings = @ + 1]
               ELSE UNCHANGED <<invoices, past>>
    BY <1>3 DEF markOverdueWithWarning
  <2>2. job.stage = "warn" /\ UNCHANGED <<pc, loc>> /\ i \in Invoices
    BY <1>0, <1>3, <2>1 DEF markOverdueWithWarning, requests
  <2>3. job'.stage = "warn" /\ job'.suspended = FALSE
    BY <1>0, <2>1, <2>2 DEF Runs, JobFacts
  <2>4. JobFacts'
    BY <2>3 DEF JobFacts
  <2>5. CASE ~(Status(i) = "pending" /\ ~invoices[i].warned)
    BY <1>1, <2>1, <2>2, <2>4, <2>5
  <2>6. CASE Status(i) = "pending" /\ ~invoices[i].warned
    <3>1. /\ invoices'[i] = [status |-> "overdue", warned |-> TRUE, schedule |-> "set"]
          /\ past'[i] = [past[i] EXCEPT !.warnings = @ + 1]
          /\ \A j \in Invoices : j # i => invoices'[j] = invoices[j] /\ past'[j] = past[j]
      BY <1>0, <2>1, <2>2, <2>6
    <3>2. past[i].warnings = 0 /\ (past[i].undone \/ past[i].suspensions = 0)
      BY <1>0, <2>2, <2>6 DEF InvoiceFacts, Histories
    <3>3. /\ past'[i].warnings = 1 /\ past'[i].suspensions = past[i].suspensions
          /\ past'[i].undone = past[i].undone
      BY <1>0, <2>2, <3>1, <3>2 DEF Histories
    <3>4. InvoiceFacts(i)'
      BY <3>1, <3>2, <3>3 DEF InvoiceFacts, Status
    <3>5. ASSUME NEW j \in Invoices, j # i PROVE InvoiceFacts(j)'
      BY <1>0, <3>1, <3>5 DEF InvoiceFacts, Status
    <3>6. \A j \in Invoices : Forward(j)
      BY <2>6, <3>1 DEF Forward, Status
    <3> QED BY <2>2, <2>4, <3>4, <3>5, <3>6, JobSlots DEF Facts
  <2> QED BY <2>5, <2>6
<1>4. CASE suspendAfterGrace
  <2>1. /\ job'.stage = "due" /\ job'.list = DueForSuspension /\ job'.suspended = FALSE
        /\ UNCHANGED <<invoices, past, pc, loc>>
    BY <1>4 DEF suspendAfterGrace, NoRun, requests
  <2>2. ASSUME NEW i \in DueForSuspension PROVE Listed(i)'
    <3>1. i \in Invoices /\ Status(i) = "overdue" /\ invoices[i].schedule = "reached"
      BY DEF DueForSuspension
    <3>2. invoices[i].warned /\ (past[i].undone \/ past[i].suspensions = 0)
      BY <1>0, <3>1 DEF InvoiceFacts, Histories
    <3> QED BY <2>1, <3>1, <3>2 DEF Listed, Status
  <2>3. JobFacts'
    BY <2>1, <2>2 DEF JobFacts
  <2> QED BY <1>1, <2>1, <2>3
<1>5. CASE DueAcademy
  <2>1. PICK i \in job.list :
          job' = IF job.suspended THEN [job EXCEPT !.list = @ \ {i}]
                 ELSE [job EXCEPT !.list = @ \ {i}, !.invoice = {i}, !.stage = "clear",
                                  !.active = academy = "active"]
    BY <1>5 DEF DueAcademy
  <2>2. job.stage = "due" /\ UNCHANGED <<invoices, past, pc, loc>>
    BY <1>5 DEF DueAcademy, requests
  <2>3. CASE job.suspended
    <3>1. job'.stage = "due" /\ job'.suspended
      BY <1>0, <2>1, <2>2, <2>3 DEF Runs
    <3>2. JobFacts'
      BY <3>1 DEF JobFacts
    <3> QED BY <1>1, <2>2, <3>2
  <2>4. CASE ~job.suspended
    <3>1. /\ job'.stage = "clear" /\ ~job'.suspended /\ job'.list = job.list \ {i}
          /\ job'.invoice = {i} /\ job'.touched = job.touched
      BY <1>0, <2>1, <2>4 DEF Runs
    <3>2. \A j \in job.list : Listed(j)
      BY <1>0, <2>2, <2>4 DEF JobFacts
    <3>3. \A j \in job.list : Listed(j)'
      BY <2>2, <3>1, <3>2 DEF Listed, Status
    <3>4. JobFacts'
      BY <2>1, <3>1, <3>3 DEF JobFacts
    <3> QED BY <1>1, <2>2, <3>4
  <2> QED BY <2>3, <2>4
<1>6. CASE clearSuspensionSchedule
  <2>1. /\ job.stage = "clear" /\ UNCHANGED <<past, pc, loc>>
        /\ job' = [job EXCEPT !.stage = IF job.active THEN "suspend" ELSE "due"]
        /\ invoices' = [i \in Invoices |-> IF Status(i) = "overdue"
                          THEN [invoices[i] EXCEPT !.schedule = "none"] ELSE invoices[i]]
    BY <1>6 DEF clearSuspensionSchedule, requests
  <2>2. /\ job'.stage \in {"suspend", "due"} /\ job'.list = job.list /\ job'.invoice = job.invoice
        /\ job'.touched = job.touched /\ job'.suspended = job.suspended /\ ~job.suspended
    BY <1>0, <2>1 DEF Runs, JobFacts
  <2>3. ASSUME NEW i \in Invoices
        PROVE  /\ invoices'[i].status = invoices[i].status /\ invoices'[i].warned = invoices[i].warned
               /\ invoices'[i].schedule
                    = IF Status(i) = "overdue" THEN "none" ELSE invoices[i].schedule
    BY <1>0, <2>1 DEF Rows
  <2>4. ASSUME NEW i \in Invoices PROVE InvoiceFacts(i)'
    BY <1>0, <2>1, <2>3 DEF InvoiceFacts, Status
  <2>5. ASSUME NEW i \in Invoices, Listed(i) PROVE Listed(i)' /\ Consumed(i)'
    BY <2>1, <2>2, <2>3, <2>5 DEF Listed, Consumed, Status
  <2>6. JobFacts'
    BY <1>0, <2>1, <2>2, <2>5 DEF JobFacts
  <2>7. \A i \in Invoices : Forward(i)
    BY <2>3 DEF Forward
  <2> QED BY <2>1, <2>4, <2>6, <2>7, JobSlots DEF Facts
<1>7. CASE JobSuspend
  <2>1. /\ job.stage = "suspend" /\ UNCHANGED <<invoices, pc, loc>>
        /\ job' = [job EXCEPT !.stage = "revoke"]
        /\ past' = [i \in Invoices |-> IF i \in job.invoice /\ past[i].suspensions < 2
                      THEN [past[i] EXCEPT !.suspensions = @ + 1] ELSE past[i]]
    BY <1>7 DEF JobSuspend, requests
  <2>2. job'.stage = "revoke" /\ ~job'.suspended
    BY <1>0, <2>1 DEF Runs, JobFacts
  <2>3. JobFacts'
    BY <2>2 DEF JobFacts
  <2>4. ASSUME NEW i \in Invoices PROVE InvoiceFacts(i)'
    <3>1. CASE i \notin job.invoice
      <4>1. past'[i] = past[i] /\ invoices'[i] = invoices[i]
        BY <2>1, <3>1
      <4> QED BY <1>0, <4>1 DEF InvoiceFacts, Status
    <3>2. CASE i \in job.invoice
      <4>1. Listed(i) /\ Consumed(i)
        BY <1>0, <2>1, <3>2 DEF JobFacts
      <4>2. /\ past'[i].warnings = past[i].warnings /\ past'[i].undone = past[i].undone
            /\ past[i].suspensions = 0 => past'[i].suspensions = 1
        BY <1>0, <2>1, <3>2 DEF Histories
      <4>3. invoices' = invoices
        BY <2>1
      <4> QED BY <1>0, <4>1, <4>2, <4>3 DEF InvoiceFacts, Listed, Consumed, Status
    <3> QED BY <3>1, <3>2
  <2>5. \A i \in Invoices : Forward(i)
    BY <2>1 DEF Forward
  <2> QED BY <2>1, <2>3, <2>4, <2>5, JobSlots DEF Facts
<1>8. CASE JobRevoke
  <2>1. job'.stage = "due" /\ job'.suspended
    BY <1>0, <1>8 DEF JobRevoke, Runs
  <2>2. JobFacts'
    BY <2>1 DEF JobFacts
  <2> QED BY <1>1, <1>8, <2>2 DEF JobRevoke, requests
<1>9. CASE JobEnds \/ JobFails
  <2>1. job'.stage = "idle" /\ ~job'.suspended
    BY <1>9 DEF JobEnds, JobFails, NoRun
  <2>2. JobFacts'
    BY <2>1 DEF JobFacts
  <2> QED BY <1>1, <1>9, <2>2 DEF JobEnds, JobFails, requests
<1> QED BY <1>2, <1>3, <1>4, <1>5, <1>6, <1>7, <1>8, <1>9 DEF Job

LEMMA InitFacts == Init => Facts
BY DEF Init, Facts, InvoiceFacts, JobFacts, RequestFacts, NoInvoice, NoRun, Status, OverdueStages

LEMMA Invariance == Spec => [](Types /\ Facts)
<1>1. Types /\ Facts /\ [Next]_vars => Types' /\ Facts'
  BY TypesKept, RequestSteps, JobSteps
<1> QED BY <1>1, InitTypes, InitFacts, PTL DEF Spec

\* An invoice is warned of once (WarnedOnce): the claim needs that none was sent, and no
\* step ever takes the mark of a warning away.
THEOREM OneWarning == Spec => []WarnedOnce
<1>1. Facts => WarnedOnce
  BY DEF Facts, InvoiceFacts, WarnedOnce
<1> QED BY <1>1, Invariance, PTL

\* The job suspends once for an invoice whose payment was never taken back
\* (SuspendedOncePerInvoice): the schedule is consumed first and never set again.
THEOREM OneSuspension == Spec => []SuspendedOncePerInvoice
<1>1. Facts => SuspendedOncePerInvoice
  BY DEF Facts, InvoiceFacts, SuspendedOncePerInvoice
<1> QED BY <1>1, Invariance, PTL

\* Whoever is about to suspend the academy has seen a debt (SuspendedForDebt).
THEOREM DebtSeen == Spec => []SuspendedForDebt
<1>1. Types /\ Facts => SuspendedForDebt
  BY DEF Types, Runs, Facts, JobFacts, RequestFacts, Listed, SuspendedForDebt
<1> QED BY <1>1, Invariance, PTL

-----------------------------------------------------------------------------
(* Sessions                                                                 *)

\* Someone is about to close the sessions.
Attended == job.stage = "revoke" \/ \E r \in Requests : pc[r] \in {"revokeNext", "revoke"}

\* Strengthening: also a login or refresh that has been admitted, and will be a session
\* without another look at the academy, is attended to.
SessionsAttended ==
  academy # "active" /\ ~lapsed /\ (\E d \in Devices : Served(sessions[d])) => Attended

LEMMA ClosedStep ==
  ASSUME Types, SessionsAttended, [Next]_vars
  PROVE  SessionsAttended'
<1> DEFINE Closing(r) == pc[r] \in {"revokeNext", "revoke"}
<1>0. /\ pc \in [Requests -> Stages] /\ failures \in Nat /\ job \in Runs
      /\ academy # "active" /\ ~lapsed /\ (\E d \in Devices : Served(sessions[d]))
           => job.stage = "revoke" \/ \E r \in Requests : Closing(r)
  BY DEF Types, Tables, SlotsOK, SessionsAttended, Attended
<1> DEFINE Goal == academy' # "active" /\ ~lapsed' /\ (\E d \in Devices : Served(sessions'[d]))
                     => job'.stage = "revoke" \/ \E r \in Requests : pc'[r] \in {"revokeNext", "revoke"}
<1> SUFFICES Goal
  BY DEF SessionsAttended, Attended, Served
\* A step of a request that closes nothing and opens nothing.
<1>1. ASSUME NEW r \in Requests, ~Closing(r), UNCHANGED <<academy, access>>,
             job'.stage = job.stage, \A q \in Requests \ {r} : pc'[q] = pc[q]
      PROVE  Goal
  BY <1>0, <1>1 DEF access
<1>2. ASSUME UNCHANGED <<academy, access, pc>>, job.stage = "revoke" => job'.stage = "revoke"
      PROVE  Goal
  BY <1>0, <1>2 DEF access
<1>3. ASSUME NEW r \in Requests, NEW i \in Invoices, FinishTouching(r, i)
      PROVE  job'.stage = job.stage /\ \A q \in Requests \ {r} : pc'[q] = pc[q]
  BY <1>0, <1>3 DEF FinishTouching, Runs
<1>4. \A r \in Requests : loc[r].invoice \subseteq Invoices
  BY DEF Types, SlotsOK, Locals
<1>5. ASSUME NEW r \in Requests, CreateInvoice(r) PROVE Goal
  BY <1>1, <1>5, OthersAlone DEF CreateInvoice
<1>6. ASSUME NEW r \in Requests, PaymentWrite(r) PROVE Goal
  BY <1>1, <1>3, <1>4, <1>6 DEF PaymentWrite
<1>7. ASSUME NEW r \in Requests, CancelWrite(r) PROVE Goal
  BY <1>1, <1>3, <1>4, <1>7 DEF CancelWrite
<1>8. ASSUME NEW r \in Requests, processOverdueInvoices(r) PROVE Goal
  <2>1. \A q \in Requests \ {r} : pc'[q] = pc[q]
    BY <1>8, OthersAlone DEF processOverdueInvoices
  <2> QED BY <1>1, <1>8, <2>1 DEF processOverdueInvoices, Begin
<1>9. ASSUME NEW r \in Requests, OverdueMark(r) PROVE Goal
  BY <1>0, <1>1, <1>9 DEF OverdueMark
<1>10. ASSUME NEW r \in Requests, OverdueCheck(r) PROVE Goal
  BY <1>1, <1>10, OthersAlone DEF OverdueCheck, NextMark
<1>11. ASSUME NEW r \in Requests, OverdueSuspend(r) PROVE Goal
  <2>1. pc'[r] = "revokeNext"
    BY <1>11, OthersAlone DEF OverdueSuspend
  <2> QED BY <2>1
<1>12. ASSUME NEW r \in Requests, OverdueRevoke(r) \/ StatusRevoke(r) PROVE Goal
  BY <1>12, SessionsClose DEF OverdueRevoke, StatusRevoke, Types
<1>13. ASSUME NEW r \in Requests, StatusWrite(r) PROVE Goal
  <2>1. CASE loc[r].value = "active"
    BY <1>13, <2>1 DEF StatusWrite
  <2>2. CASE loc[r].value # "active"
    <3>1. pc'[r] = "revoke"
      BY <1>13, <2>2, OthersAlone DEF StatusWrite
    <3> QED BY <3>1
  <2> QED BY <2>1, <2>2
<1>14. ASSUME NEW r \in Requests, ReactivateWrite(r) PROVE Goal
  BY <1>14 DEF ReactivateWrite
<1>15. ASSUME NEW r \in Requests, Fail(r) PROVE Goal
  <2>1. CASE Closing(r)
    BY <1>15, <2>1 DEF Fail
  <2>2. CASE ~Closing(r)
    <3>1. \A q \in Requests \ {r} : pc'[q] = pc[q]
      BY <1>15, OthersAlone DEF Fail
    <3>2. UNCHANGED <<academy, access, job>>
      BY <1>15, <2>2 DEF Fail, access, Types, Tables
    <3> QED BY <1>1, <2>2, <3>1, <3>2
  <2> QED BY <2>1, <2>2
<1>16. ASSUME NEW r \in Requests, reactivateAcademy(r) PROVE Goal
  <2>1. \A q \in Requests \ {r} : pc'[q] = pc[q]
    BY <1>16, OthersAlone DEF reactivateAcademy
  <2> QED BY <1>1, <1>16, <2>1 DEF reactivateAcademy, Begin
<1>17. ASSUME NEW r \in Requests, NEW i \in Invoices, ensureInvoice(r, i) \/ cancel(r, i) PROVE Goal
  <2>1. \A q \in Requests \ {r} : pc'[q] = pc[q]
    BY <1>17, OthersAlone DEF ensureInvoice, cancel
  <2> QED BY <1>1, <1>17, <2>1 DEF ensureInvoice, cancel, Begin
<1>18. ASSUME NEW r \in Requests, NEW i \in Invoices, NEW status \in {"pending", "paid"},
              updatePayment(r, i, status)
       PROVE  Goal
  <2>1. \A q \in Requests \ {r} : pc'[q] = pc[q]
    BY <1>18, OthersAlone DEF updatePayment
  <2> QED BY <1>1, <1>18, <2>1 DEF updatePayment, Begin
<1>19. ASSUME NEW r \in Requests, NEW status \in {"active", "suspended", "inactive"},
              updateAcademyStatus(r, status)
       PROVE  Goal
  <2>1. \A q \in Requests \ {r} : pc'[q] = pc[q]
    BY <1>19, OthersAlone DEF updateAcademyStatus
  <2> QED BY <1>1, <1>19, <2>1 DEF updateAcademyStatus, Begin
<1>20. ASSUME NEW d \in Devices, UserStep(d) PROVE Goal
  <2>1. /\ UNCHANGED <<academy, lapsed, pc, job>>
        /\ \A e \in Devices \ {d} : sessions'[e] = sessions[e]
        /\ Served(sessions'[d]) => Served(sessions[d]) \/ academy = "active"
    BY <1>20, UserSteps DEF Types, requests
  <2>2. academy # "active" /\ (\E e \in Devices : Served(sessions'[e]))
          => \E e \in Devices : Served(sessions[e])
    BY <2>1
  <2> QED BY <1>0, <2>1, <2>2
<1>21. CASE warnNewlyOverdue \/ markOverdueWithWarning \/ suspendAfterGrace \/ DueAcademy
              \/ clearSuspensionSchedule \/ JobEnds
  BY <1>2, <1>21 DEF warnNewlyOverdue, markOverdueWithWarning, suspendAfterGrace, DueAcademy,
                     clearSuspensionSchedule, JobEnds, requests
<1>22. CASE JobSuspend
  BY <1>0, <1>22 DEF JobSuspend, Runs
<1>23. CASE JobRevoke
  BY <1>23, SessionsClose DEF JobRevoke, Types
<1>24. CASE JobFails
  BY <1>0, <1>24 DEF JobFails, requests, Types, Tables
<1>25. ASSUME NEW i \in Invoices, DueDatePasses(i) \/ GraceEnds(i) PROVE Goal
  BY <1>2, <1>25 DEF DueDatePasses, GraceEnds, requests
<1>26. CASE UNCHANGED vars
  BY <1>2, <1>26 DEF vars, requests, access
<1> QED
  BY <1>5, <1>6, <1>7, <1>8, <1>9, <1>10, <1>11, <1>12, <1>13, <1>14, <1>15, <1>16, <1>17, <1>18,
     <1>19, <1>20, <1>21, <1>22, <1>23, <1>24, <1>25, <1>26 DEF Next, Job, UserStep

\* In an academy that is not active no session is left that was there, or had not yet
\* passed the check of the academy, when its sessions were closed: none but by a closing
\* that died, for any number of users who log in and refresh meanwhile
\* (ClosedAcademyHasNoSessions).
THEOREM SessionsClosedWithIt == Spec => []ClosedAcademyHasNoSessions
<1>1. Init => SessionsAttended
  BY DEF Init, SessionsAttended
<1>2. SessionsAttended => ClosedAcademyHasNoSessions
  BY DEF SessionsAttended, Attended, Served, ClosedAcademyHasNoSessions
<1> QED BY <1>1, <1>2, ClosedStep, Invariance, PTL DEF Spec
=============================================================================
