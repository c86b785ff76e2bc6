-------------------------- MODULE InvoiceGeneration --------------------------
(***************************************************************************)
(* The generation of the invoices of an academy: the monthly one of a      *)
(* period and, in the period of the anniversary, the annual one.  The      *)
(* anchor day is read when a generation begins and may be edited at any    *)
(* time.  A step is one SQL statement with the code up to the next await.  *)
(* What an invoice becomes afterwards is Billing's.                        *)
(***************************************************************************)
EXTENDS BillingPeriod

CONSTANTS
  Requests,          \* slots of concurrent generations
  Anchors,           \* the anchor days an academy may be given
  Months,            \* <<year, month>> pairs for which an invoice is asked for by hand
  Days,              \* the days on which the current period is asked for
  anniversaryMonth,  \* the month in which the academy was created
  MaxRows,           \* bound: invoices
  MaxFailures        \* bound: failed statements

ASSUME GenerationAssumption ==
  /\ Anchors \subseteq AnchorDays /\ Anchors # {}
  /\ Months \subseteq Nat \X (1..12)
  /\ \A d \in Days : d \in Dates /\ d.year > 0
  /\ anniversaryMonth \in 1..12
  /\ MaxRows \in Nat /\ MaxFailures \in Nat

VARIABLES
  anchor,    \* billing_anchor_day of the academy
  invoices,  \* rows: type, period and, as history, the anchor they were made with
  pc, loc,   \* where each generation is, and what it has worked out
  failures   \* statements failed so far

vars == <<anchor, invoices, pc, loc, failures>>

Row(type, period, madeWith) == [type |-> type, period |-> period, anchor |-> madeWith]

\* uk_invoices_tenant_period_type: there is one invoice of a period and type.
Billed(type, period) == \E row \in invoices : row.type = type /\ row.period = period

Init ==
  /\ anchor \in Anchors
  /\ invoices = {}
  /\ pc = [r \in Requests |-> "idle"]
  /\ loc = [r \in Requests |-> {}]
  /\ failures = 0

-----------------------------------------------------------------------------

\* The academy is read; its anchor gives the period and whether the annual fee is due.
Begin(r, period) ==
  /\ pc[r] = "idle"
  /\ pc' = [pc EXCEPT ![r] = "findMonthly"]
  /\ loc' = [loc EXCEPT ![r] =
       {[period |-> period, anchor |-> anchor,
         includeAnnual |-> isAnnualChargeDueInBillingPeriod(anniversaryMonth, anchor, period)]}]
  /\ UNCHANGED <<anchor, invoices, failures>>

\* Mutant: the period begins on the day it is asked for.
MutFromToday(r) == \E today \in Days : Begin(r, PeriodFrom(anchor, today))

generateCurrent(r) == \E today \in Days : Begin(r, resolveAnchoredBillingPeriod(anchor, today, "current"))

createManual(r) ==
  \E month \in Months : Begin(r, resolveAnchoredPeriodForMonth(anchor, month[1], month[2]))

Goto(r, stage) == pc' = [pc EXCEPT ![r] = stage] /\ UNCHANGED loc
Finish(r) == pc' = [pc EXCEPT ![r] = "idle"] /\ loc' = [loc EXCEPT ![r] = {}]

AfterMonthly(r, g) == IF g.includeAnnual THEN Goto(r, "findAnnual") ELSE Finish(r)

\* Mutant: an invoice that exists ends the generation.
MutFindMonthly(r) ==
  /\ pc[r] = "findMonthly"
  /\ \E g \in loc[r] :
       IF Billed("monthly", g.period) THEN Finish(r) ELSE Goto(r, "insertMonthly")
  /\ UNCHANGED <<anchor, invoices, failures>>

\* ensureInvoice: one that exists is skipped, ...
FindMonthly(r) ==
  /\ pc[r] = "findMonthly"
  /\ \E g \in loc[r] :
       IF Billed("monthly", g.period) THEN AfterMonthly(r, g) ELSE Goto(r, "insertMonthly")
  /\ UNCHANGED <<anchor, invoices, failures>>

\* ... one that does not is inserted; if another generation was faster the unique key
\* turns it down, and the error ends this one.
InsertMonthly(r) ==
  /\ pc[r] = "insertMonthly"
  /\ \E g \in loc[r] :
       IF Billed("monthly", g.period)
         THEN Finish(r) /\ UNCHANGED invoices
         ELSE invoices' = invoices \cup {Row("monthly", g.period, g.anchor)} /\ AfterMonthly(r, g)
  /\ UNCHANGED <<anchor, failures>>

\* The same for the annual one.
FindAnnual(r) ==
  /\ pc[r] = "findAnnual"
  /\ \E g \in loc[r] :
       IF Billed("annual", g.period) THEN Finish(r) ELSE Goto(r, "insertAnnual")
  /\ UNCHANGED <<anchor, invoices, failures>>

InsertAnnual(r) ==
  /\ pc[r] = "insertAnnual"
  /\ \E g \in loc[r] :
       invoices' = IF Billed("annual", g.period) THEN invoices
                   ELSE invoices \cup {Row("annual", g.period, g.anchor)}
  /\ Finish(r)
  /\ UNCHANGED <<anchor, failures>>

\* The day is edited, whatever has been billed.
updateAcademy ==
  /\ anchor' \in Anchors
  /\ UNCHANGED <<invoices, pc, loc, failures>>

\* A statement fails, or the process dies.
Fail(r) ==
  /\ pc[r] # "idle"
  /\ failures < MaxFailures
  /\ failures' = failures + 1
  /\ Finish(r)
  /\ UNCHANGED <<anchor, invoices>>

Next ==
  \/ \E r \in Requests :
       \/ generateCurrent(r) \/ createManual(r)
       \/ FindMonthly(r) \/ InsertMonthly(r) \/ FindAnnual(r) \/ InsertAnnual(r)
       \/ Fail(r)
  \/ updateAcademy

Spec == Init /\ [][Next]_vars

-----------------------------------------------------------------------------
(* What has to hold.                                                        *)

Periods == [periodStart : Dates, periodEnd : Dates]

\* Type correctness of every variable; a generation under way knows its period.
TypeOK ==
  /\ anchor \in Anchors
  /\ invoices \subseteq [type : {"monthly", "annual"}, period : Periods, anchor : Anchors]
  /\ pc \in [Requests -> {"idle", "findMonthly", "insertMonthly", "findAnnual", "insertAnnual"}]
  /\ loc \in [Requests -> SUBSET [period : Periods, anchor : Anchors, includeAnnual : BOOLEAN]]
  /\ \A r \in Requests : (pc[r] # "idle" <=> loc[r] # {}) /\ \A g, h \in loc[r] : g = h
  /\ failures \in Nat

\* No day is billed twice, and no anniversary: two invoices of one type have no day in
\* common, in whatever order and however often they were asked for, by hand or not, at
\* once or not - unless the anchor was edited between the two.
Overlap(row, other) ==
  /\ Precedes(row.period.periodStart, other.period.periodEnd)
  /\ Precedes(other.period.periodStart, row.period.periodEnd)

NothingBilledTwice ==
  \A row, other \in invoices :
    row.type = other.type /\ row.anchor = other.anchor /\ row # other => ~Overlap(row, other)

\* The annual fee is never asked for alone, and for an anniversary of its own period.
AnnualComesWithItsMonth ==
  \A row \in invoices : row.type = "annual" =>
    /\ Billed("monthly", row.period)
    /\ \E year \in row.period.periodStart.year..row.period.periodEnd.year :
         Contains(row.period, billingAnchorDateInMonth(row.anchor, year, anniversaryMonth))

\* A generation that ends without an error leaves all that its period owes, also one that
\* makes good what a failed one left out.
Refused(r) == pc[r] = "insertMonthly" /\ \A g \in loc[r] : Billed("monthly", g.period)

EndsComplete(r) ==
  \A g \in loc[r] : Billed("monthly", g.period)' /\ (g.includeAnnual => Billed("annual", g.period)')

CompleteWhenItEnds ==
  [][\A r \in Requests :
       pc[r] # "idle" /\ pc'[r] = "idle" /\ failures' = failures /\ ~Refused(r) => EndsComplete(r)]_vars
=============================================================================
