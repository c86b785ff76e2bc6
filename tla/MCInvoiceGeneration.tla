------------------------- MODULE MCInvoiceGeneration -------------------------
(***************************************************************************)
(* An instance of InvoiceGeneration for TLC, over a turn of the year and a *)
(* February of 29 days; and the arithmetic of the periods compared with a  *)
(* calendar that counts days, over three years.                            *)
(***************************************************************************)
EXTENDS InvoiceGeneration, FiniteSets, TLC

Winter == {<<2023, 12>>, <<2024, 1>>, <<2024, 2>>, <<2024, 3>>}
EdgesOfMonths == {Date(2023, 12, 31), Date(2024, 1, 1), Date(2024, 1, 30), Date(2024, 2, 28),
                  Date(2024, 2, 29), Date(2024, 3, 1), Date(2024, 3, 30)}

\* The slots are interchangeable.
Slots == Permutations(Requests)

FewRows == Cardinality(invoices) <= MaxRows

-----------------------------------------------------------------------------
(* The reference: the calendar, one day after the other.                   *)

Tomorrow(d) ==
  IF d.day < lastDayOfMonth(d.year, d.month) THEN Date(d.year, d.month, d.day + 1)
  ELSE IF d.month < 12 THEN Date(d.year, d.month + 1, 1) ELSE Date(d.year + 1, 1, 1)

DaysOf(year) ==
  UNION {{Date(year, month, day) : day \in 1..lastDayOfMonth(year, month)} : month \in 1..12}
ThreeYears == DaysOf(2023) \cup DaysOf(2024) \cup DaysOf(2025)

After[n \in 0..BILLING_DUE_DAYS_AFTER_PERIOD] ==
  [d \in ThreeYears |-> IF n = 0 THEN d ELSE Tomorrow(After[n - 1][d])]

\* 2024 alone has 366 days, and n days later is n times the day after.
ASSUME CalendarIsRight ==
  /\ Cardinality(DaysOf(2024)) = 366
  /\ Cardinality(DaysOf(2023)) = 365 /\ Cardinality(DaysOf(2025)) = 365
  /\ Leap(2000) /\ ~Leap(1900)
  /\ \A n \in 0..BILLING_DUE_DAYS_AFTER_PERIOD : \A d \in ThreeYears : addDays(d, n) = After[n][d]

\* A day that starts a period is one whose day is the anchor, or the last of a month too
\* short for it.  Going through the calendar day by day, the period changes there and
\* nowhere else; the one before ends there; and the one announced as next becomes current.
StartsPeriod(day, d) == d.day = day \/ (d.day < day /\ Tomorrow(d).day = 1)

ASSUME PeriodsFollowTheCalendar ==
  \A day \in {1, 15, 28, 29, 30, 31} : \A d \in ThreeYears :
    LET now == resolveAnchoredBillingPeriod(day, d, "current")
        later == resolveAnchoredBillingPeriod(day, Tomorrow(d), "current")
    IN IF StartsPeriod(day, Tomorrow(d))
         THEN /\ later.periodStart = Tomorrow(d) /\ now.periodEnd = Tomorrow(d)
              /\ later = resolveAnchoredBillingPeriod(day, d, "next")
         ELSE later = now
=============================================================================
