---------------------------- MODULE BillingPeriod ---------------------------
(***************************************************************************)
(* The arithmetic of billing periods.  An academy is billed from its       *)
(* anchor day to the anchor day of the next month; in a month too short    *)
(* for it, the anchor is the last day.  A date is a year, a month and a    *)
(* day, and comparing the strings YYYY-MM-DD is comparing these in order.  *)
(***************************************************************************)
EXTENDS Integers

AnchorDays == 1..31
BILLING_DUE_DAYS_AFTER_PERIOD == 7

Date(year, month, day) == [year |-> year, month |-> month, day |-> day]

Leap(year) == year % 4 = 0 /\ (year % 100 # 0 \/ year % 400 = 0)

lastDayOfMonth(year, month) ==
  CASE month = 2 -> IF Leap(year) THEN 29 ELSE 28
    [] month \in {4, 6, 9, 11} -> 30
    [] OTHER -> 31

Dates == {d \in [year : Nat, month : 1..12, day : 1..31] : d.day <= lastDayOfMonth(d.year, d.month)}

\* The order of the strings.
Precedes(d, e) ==
  \/ d.year < e.year
  \/ d.year = e.year /\ d.month < e.month
  \/ d.year = e.year /\ d.month = e.month /\ d.day < e.day

anchorDayInMonth(anchor, year, month) ==
  LET last == lastDayOfMonth(year, month) IN IF anchor <= last THEN anchor ELSE last

billingAnchorDateInMonth(anchor, year, month) ==
  Date(year, month, anchorDayInMonth(anchor, year, month))

nextBillingAnchorDate(anchor, d) ==
  IF d.month = 12 THEN billingAnchorDateInMonth(anchor, d.year + 1, 1)
                  ELSE billingAnchorDateInMonth(anchor, d.year, d.month + 1)

previousBillingAnchorDate(anchor, d) ==
  IF d.month = 1 THEN billingAnchorDateInMonth(anchor, d.year - 1, 12)
                 ELSE billingAnchorDateInMonth(anchor, d.year, d.month - 1)

\* The start of the period a date is in, of that period and of the next.
CurrentStart(anchor, reference) ==
  LET thisMonth == billingAnchorDateInMonth(anchor, reference.year, reference.month)
  IN IF Precedes(reference, thisMonth) THEN previousBillingAnchorDate(anchor, thisMonth)
                                       ELSE thisMonth

PeriodFrom(anchor, start) ==
  [periodStart |-> start, periodEnd |-> nextBillingAnchorDate(anchor, start)]

resolveAnchoredBillingPeriod(anchor, reference, offset) ==
  LET start == CurrentStart(anchor, reference)
  IN PeriodFrom(anchor, IF offset = "next" THEN nextBillingAnchorDate(anchor, start) ELSE start)

\* The period that starts in a month: an invoice made by hand.
resolveAnchoredPeriodForMonth(anchor, year, month) ==
  PeriodFrom(anchor, billingAnchorDateInMonth(anchor, year, month))

\* A number of days that takes a date into the next month at most.
addDays(d, days) ==
  LET day == d.day + days
      last == lastDayOfMonth(d.year, d.month)
  IN IF day <= last THEN Date(d.year, d.month, day)
     ELSE IF d.month = 12 THEN Date(d.year + 1, 1, day - last)
     ELSE Date(d.year, d.month + 1, day - last)

DueDate(period) == addDays(period.periodEnd, BILLING_DUE_DAYS_AFTER_PERIOD)

Contains(period, d) == ~Precedes(d, period.periodStart) /\ Precedes(d, period.periodEnd)

\* Mutant: the day a period ends on is taken for one of its days.
MutAnnualAtTheEnd(anniversaryMonth, anchor, period) ==
  \E year \in period.periodStart.year..period.periodEnd.year :
    LET anniversary == billingAnchorDateInMonth(anchor, year, anniversaryMonth)
    IN ~Precedes(anniversary, period.periodStart) /\ ~Precedes(period.periodEnd, anniversary)

\* The anchor of the month of the anniversary falls in the period, in one of the years
\* that the period touches.
isAnnualChargeDueInBillingPeriod(anniversaryMonth, anchor, period) ==
  \E year \in period.periodStart.year..period.periodEnd.year :
    Contains(period, billingAnchorDateInMonth(anchor, year, anniversaryMonth))
=============================================================================
