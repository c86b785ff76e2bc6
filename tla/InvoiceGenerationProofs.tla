----------------------- MODULE InvoiceGenerationProofs -----------------------
(***************************************************************************)
(* What InvoiceGeneration promises, for any anchors, months and days, any  *)
(* number of invoices and of generations at once, and any failures.        *)
(***************************************************************************)
EXTENDS InvoiceGeneration, TLAPS

-----------------------------------------------------------------------------
(* Billing periods: every day is billed once, the annual fee once a year.  *)

\* A month has from 28 to 31 days.
LEMMA MonthLength ==
  ASSUME NEW year \in Nat, NEW month \in 1..12
  PROVE  lastDayOfMonth(year, month) \in 28..31
BY DEF lastDayOfMonth

\* The anchor of a month is a date of that month.
LEMMA AnchorIsADate ==
  ASSUME NEW anchorDay \in AnchorDays, NEW year \in Nat, NEW month \in 1..12
  PROVE  /\ billingAnchorDateInMonth(anchorDay, year, month) \in Dates
         /\ billingAnchorDateInMonth(anchorDay, year, month).year = year
         /\ billingAnchorDateInMonth(anchorDay, year, month).month = month
         /\ billingAnchorDateInMonth(anchorDay, year, month).day = anchorDayInMonth(anchorDay, year, month)
         /\ anchorDayInMonth(anchorDay, year, month) \in 1..31
<1> DEFINE last == lastDayOfMonth(year, month)
<1>1. last \in 28..31
  BY MonthLength
<1>2. anchorDayInMonth(anchorDay, year, month) \in 1..31 /\ anchorDayInMonth(anchorDay, year, month) <= last
  <2> HIDE DEF last
  <2>1. anchorDayInMonth(anchorDay, year, month) = IF anchorDay <= last THEN anchorDay ELSE last
    BY DEF anchorDayInMonth, last
  <2> QED BY <1>1, <2>1 DEF AnchorDays
<1> QED BY <1>2 DEF billingAnchorDateInMonth, Date, Dates

\* A date before another is not the other, and one of two precedes unless they are the same.
LEMMA OrderIsLinear ==
  ASSUME NEW d \in Dates, NEW e \in Dates
  PROVE  /\ ~(Precedes(d, e) /\ Precedes(e, d))
         /\ ~Precedes(d, d)
         /\ Precedes(d, e) \/ Precedes(e, d) \/ d = e
<1>1. d.year \in Nat /\ d.month \in 1..12 /\ d.day \in 1..31
  BY DEF Dates
<1>2. e.year \in Nat /\ e.month \in 1..12 /\ e.day \in 1..31
  BY DEF Dates
<1>3. d.year = e.year /\ d.month = e.month /\ d.day = e.day => d = e
  BY DEF Dates
<1> QED BY <1>1, <1>2, <1>3 DEF Precedes

\* What a period is: two anchors, of a month and of the month after it.
AnchorToAnchor(anchorDay, year, month, start, end) ==
  /\ start \in Dates /\ end \in Dates
  /\ start.year = year /\ start.month = month
  /\ end = billingAnchorDateInMonth(anchorDay, end.year, end.month)
  /\ \/ month = 12 /\ end.year = year + 1 /\ end.month = 1
     \/ month # 12 /\ end.year = year /\ end.month = month + 1
  /\ Precedes(start, end)

\* From the anchor of a month to the next anchor is such a period.
LEMMA NextIsLater ==
  ASSUME NEW anchorDay \in AnchorDays, NEW year \in Nat, NEW month \in 1..12
  PROVE  AnchorToAnchor(anchorDay, year, month, billingAnchorDateInMonth(anchorDay, year, month),
           nextBillingAnchorDate(anchorDay, billingAnchorDateInMonth(anchorDay, year, month)))
<1> DEFINE start == billingAnchorDateInMonth(anchorDay, year, month)
           end == nextBillingAnchorDate(anchorDay, start)
<1> HIDE DEF start, end
<1>0. start = billingAnchorDateInMonth(anchorDay, year, month) /\ end = nextBillingAnchorDate(anchorDay, start)
  BY DEF start, end
<1>1. start \in Dates /\ start.year = year /\ start.month = month
  BY <1>0, AnchorIsADate
<1>2. ASSUME month = 12 PROVE AnchorToAnchor(anchorDay, year, month, start, end)
  <2>1. end = billingAnchorDateInMonth(anchorDay, year + 1, 1)
    BY <1>0, <1>1, <1>2 DEF nextBillingAnchorDate
  <2>2. end \in Dates /\ end.year = year + 1 /\ end.month = 1
    BY <2>1, AnchorIsADate
  <2> QED BY <1>1, <1>2, <2>1, <2>2 DEF Precedes, AnchorToAnchor
<1>3. ASSUME month # 12 PROVE AnchorToAnchor(anchorDay, year, month, start, end)
  <2>1. end = billingAnchorDateInMonth(anchorDay, year, month + 1)
    BY <1>0, <1>1, <1>3 DEF nextBillingAnchorDate
  <2>2. end \in Dates /\ end.year = year /\ end.month = month + 1
    BY <1>3, <2>1, AnchorIsADate
  <2> QED BY <1>1, <1>3, <2>1, <2>2 DEF Precedes, AnchorToAnchor
<1> QED BY <1>2, <1>3 DEF start, end

\* The period of a date starts at the anchor of its month or of the month before.
LEMMA StartOfPeriod ==
  ASSUME NEW anchorDay \in AnchorDays, NEW d \in Dates, d.year > 0
  PROVE  \E year \in Nat, month \in 1..12 :
           /\ CurrentStart(anchorDay, d) = billingAnchorDateInMonth(anchorDay, year, month)
           /\ \/ /\ year = d.year /\ month = d.month
                 /\ ~Precedes(d, billingAnchorDateInMonth(anchorDay, year, month))
              \/ /\ \/ d.month = 1 /\ year = d.year - 1 /\ month = 12
                    \/ d.month # 1 /\ year = d.year /\ month = d.month - 1
                 /\ Precedes(d, billingAnchorDateInMonth(anchorDay, d.year, d.month))
<1> DEFINE this == billingAnchorDateInMonth(anchorDay, d.year, d.month)
<1>1. d.year \in Nat /\ d.month \in 1..12
  BY DEF Dates
<1>2. this.year = d.year /\ this.month = d.month
  <2>1. /\ billingAnchorDateInMonth(anchorDay, d.year, d.month).year = d.year
        /\ billingAnchorDateInMonth(anchorDay, d.year, d.month).month = d.month
    BY <1>1, AnchorIsADate, SMTT(30)
  <2> QED BY <2>1
<1>3. CASE ~Precedes(d, this)
  BY <1>1, <1>3 DEF CurrentStart
<1>4. CASE Precedes(d, this)
  <2>1. CurrentStart(anchorDay, d) = previousBillingAnchorDate(anchorDay, this)
    BY <1>4 DEF CurrentStart
  <2>2. CASE d.month = 1
    <3>1. CurrentStart(anchorDay, d) = billingAnchorDateInMonth(anchorDay, d.year - 1, 12)
      BY <1>2, <2>1, <2>2 DEF previousBillingAnchorDate
    <3>2. d.year - 1 \in Nat
      BY <1>1
    <3> QED BY <1>4, <2>2, <3>1, <3>2
  <2>3. CASE d.month # 1
    <3>1. CurrentStart(anchorDay, d) = billingAnchorDateInMonth(anchorDay, d.year, d.month - 1)
      BY <1>2, <2>1, <2>3 DEF previousBillingAnchorDate
    <3>2. d.month - 1 \in 1..12
      BY <1>1, <2>3
    <3> QED BY <1>1, <1>4, <2>3, <3>1, <3>2
  <2> QED BY <2>2, <2>3
<1> QED BY <1>3, <1>4

\* The period computed for a day contains it, in months of any length and across years.
THEOREM PeriodContainsItsDay ==
  ASSUME NEW anchorDay \in AnchorDays, NEW d \in Dates, d.year > 0
  PROVE  Contains(resolveAnchoredBillingPeriod(anchorDay, d, "current"), d)
<1> DEFINE start == CurrentStart(anchorDay, d)
           end == nextBillingAnchorDate(anchorDay, start)
<1>1. PICK year \in Nat, month \in 1..12 :
        /\ start = billingAnchorDateInMonth(anchorDay, year, month)
        /\ \/ /\ year = d.year /\ month = d.month
              /\ ~Precedes(d, billingAnchorDateInMonth(anchorDay, year, month))
           \/ /\ \/ d.month = 1 /\ year = d.year - 1 /\ month = 12
                 \/ d.month # 1 /\ year = d.year /\ month = d.month - 1
              /\ Precedes(d, billingAnchorDateInMonth(anchorDay, d.year, d.month))
  BY StartOfPeriod
<1> HIDE DEF start
<1>2. AnchorToAnchor(anchorDay, year, month, start, end)
  BY <1>1, NextIsLater
<1>3. d.year \in Nat /\ d.month \in 1..12 /\ d.day \in 1..31
  BY DEF Dates
<1> HIDE DEF end
<1> USE DEF AnchorToAnchor
<1>4. ~Precedes(d, start) /\ Precedes(d, end)
  <2>1. CASE year = d.year /\ month = d.month /\ ~Precedes(d, start)
    BY <1>2, <1>3, <2>1 DEF Precedes
  <2>2. CASE d.month = 1 /\ year = d.year - 1 /\ month = 12
             /\ Precedes(d, billingAnchorDateInMonth(anchorDay, d.year, d.month))
    <3>1. end.year = d.year /\ end.month = d.month
      BY <1>2, <1>3, <2>2
    <3>2. end = billingAnchorDateInMonth(anchorDay, d.year, d.month)
      BY <1>2, <3>1
    <3>3. ~Precedes(d, start)
      BY <1>2, <1>3, <2>2 DEF Precedes
    <3> QED BY <2>2, <3>2, <3>3
  <2>3. CASE d.month # 1 /\ year = d.year /\ month = d.month - 1
             /\ Precedes(d, billingAnchorDateInMonth(anchorDay, d.year, d.month))
    <3>1. end.year = d.year /\ end.month = d.month
      BY <1>2, <1>3, <2>3
    <3>2. end = billingAnchorDateInMonth(anchorDay, d.year, d.month)
      BY <1>2, <3>1
    <3>3. ~Precedes(d, start)
      BY <1>2, <1>3, <2>3 DEF Precedes
    <3> QED BY <2>3, <3>2, <3>3
  <2> QED BY <1>1, <2>1, <2>2, <2>3
<1> QED BY <1>4 DEF Contains, resolveAnchoredBillingPeriod, PeriodFrom, start, end

\* Periods do not overlap: whatever day of a period is asked about, the answer is that
\* period, so that no day is billed twice while the anchor stays the same.
THEOREM OnePeriodForEachDay ==
  ASSUME NEW anchorDay \in AnchorDays, NEW d \in Dates, d.year > 0, NEW e \in Dates, e.year > 0,
         Contains(resolveAnchoredBillingPeriod(anchorDay, d, "current"), e)
  PROVE  resolveAnchoredBillingPeriod(anchorDay, e, "current")
           = resolveAnchoredBillingPeriod(anchorDay, d, "current")
<1> DEFINE start == CurrentStart(anchorDay, d)
           end == nextBillingAnchorDate(anchorDay, start)
           this == billingAnchorDateInMonth(anchorDay, e.year, e.month)
<1>1. \E year \in Nat, month \in 1..12 : start = billingAnchorDateInMonth(anchorDay, year, month)
  BY StartOfPeriod
<1>2. PICK year \in Nat, month \in 1..12 : start = billingAnchorDateInMonth(anchorDay, year, month)
  BY <1>1
<1> HIDE DEF start
<1>3. AnchorToAnchor(anchorDay, year, month, start, end)
  BY <1>2, NextIsLater
<1> USE DEF AnchorToAnchor
<1>4. ~Precedes(e, start) /\ Precedes(e, end)
  BY DEF Contains, resolveAnchoredBillingPeriod, PeriodFrom, start
<1>5. e.year \in Nat /\ e.month \in 1..12
  BY DEF Dates
<1> HIDE DEF end
<1>6. \/ e.year = year /\ e.month = month
      \/ e.year = end.year /\ e.month = end.month
  BY <1>3, <1>4, <1>5 DEF Precedes
<1>7. this.year = e.year /\ this.month = e.month
  <2>1. \A y \in Nat, m \in 1..12 : /\ billingAnchorDateInMonth(anchorDay, y, m).year = y
                                     /\ billingAnchorDateInMonth(anchorDay, y, m).month = m
    BY AnchorIsADate
  <2> QED
    BY <1>5, <2>1
<1>8. CurrentStart(anchorDay, e) = start
  <2>1. CASE e.year = year /\ e.month = month
    <3>1. this = start
      BY <1>2, <2>1
    <3> QED BY <1>4, <3>1 DEF CurrentStart
  <2>2. CASE e.year = end.year /\ e.month = end.month
    <3>1. this = end
      BY <1>3, <2>2
    <3>2. CurrentStart(anchorDay, e) = previousBillingAnchorDate(anchorDay, this)
      BY <1>4, <3>1 DEF CurrentStart
    <3>3. CASE month = 12
      <4>1. this.month = 1 /\ this.year - 1 = year
        BY <1>3, <1>7, <2>2, <3>3
      <4> QED BY <1>2, <3>2, <3>3, <4>1 DEF previousBillingAnchorDate
    <3>4. CASE month # 12
      <4>1. this.month # 1 /\ this.year = year /\ this.month - 1 = month
        BY <1>3, <1>7, <2>2, <3>4
      <4> QED BY <1>2, <3>2, <3>4, <4>1 DEF previousBillingAnchorDate
    <3> QED BY <3>3, <3>4
  <2> QED BY <1>6, <2>1, <2>2
<1> QED BY <1>8 DEF resolveAnchoredBillingPeriod, start

\* Of the periods that start in the months of a year, the one that starts in the month
\* of the anniversary bears the annual fee and no other does.
THEOREM AnnualFeeOnceAYear ==
  ASSUME NEW anchorDay \in AnchorDays, NEW year \in Nat, NEW month \in 1..12,
         NEW anniversary \in 1..12
  PROVE  isAnnualChargeDueInBillingPeriod(anniversary, anchorDay,
                                          resolveAnchoredPeriodForMonth(anchorDay, year, month))
           <=> month = anniversary
<1> DEFINE start == billingAnchorDateInMonth(anchorDay, year, month)
           end == nextBillingAnchorDate(anchorDay, start)
           period == resolveAnchoredPeriodForMonth(anchorDay, year, month)
           at(y) == billingAnchorDateInMonth(anchorDay, y, anniversary)
<1>1. period.periodStart = start /\ period.periodEnd = end
  BY DEF resolveAnchoredPeriodForMonth, PeriodFrom
<1>2. AnchorToAnchor(anchorDay, year, month, start, end)
  BY NextIsLater
<1> USE DEF AnchorToAnchor
<1> HIDE DEF start, end, period
<1>3. ASSUME month = anniversary
      PROVE  isAnnualChargeDueInBillingPeriod(anniversary, anchorDay, period)
  <2>1. at(year) = start
    BY <1>3 DEF start
  <2>2. Contains(period, at(year))
    BY <1>1, <1>2, <2>1, OrderIsLinear DEF Contains
  <2>3. year \in period.periodStart.year..period.periodEnd.year
    BY <1>1, <1>2
  <2> QED BY <2>2, <2>3 DEF isAnnualChargeDueInBillingPeriod
<1>4. ASSUME isAnnualChargeDueInBillingPeriod(anniversary, anchorDay, period)
      PROVE  month = anniversary
  <2>1. PICK y \in period.periodStart.year..period.periodEnd.year : Contains(period, at(y))
    BY <1>4 DEF isAnnualChargeDueInBillingPeriod
  <2>2. y \in Nat /\ year <= y
    BY <1>1, <1>2, <2>1
  <2>3. at(y) \in Dates /\ at(y).year = y /\ at(y).month = anniversary
    BY <2>2, AnchorIsADate
  <2>4. ~Precedes(at(y), start) /\ Precedes(at(y), end)
    BY <1>1, <2>1 DEF Contains
  <2>5. ~(y = end.year /\ anniversary = end.month)
    <3>1. SUFFICES ASSUME y = end.year, anniversary = end.month PROVE FALSE
      OBVIOUS
    <3>2. at(y) = end
      BY <1>2, <3>1
    <3> QED BY <1>2, <2>4, <3>2, OrderIsLinear
  <2> HIDE DEF at
  <2> QED BY <1>2, <2>2, <2>3, <2>4, <2>5 DEF Precedes
<1> QED BY <1>3, <1>4 DEF period

-----------------------------------------------------------------------------
(* Generations of invoices.                                                *)

\* The periods that an anchor can give.
Anchored(day, period) ==
  \E year \in Nat, month \in 1..12 : period = resolveAnchoredPeriodForMonth(day, year, month)

\* The period of a month runs from date to date.
LEMMA PeriodOfMonth ==
  ASSUME NEW day \in AnchorDays, NEW year \in Nat, NEW month \in 1..12
  PROVE  /\ resolveAnchoredPeriodForMonth(day, year, month) \in Periods
         /\ resolveAnchoredPeriodForMonth(day, year, month).periodStart
              = billingAnchorDateInMonth(day, year, month)
         /\ AnchorToAnchor(day, year, month,
              resolveAnchoredPeriodForMonth(day, year, month).periodStart,
              resolveAnchoredPeriodForMonth(day, year, month).periodEnd)
<1> DEFINE start == billingAnchorDateInMonth(day, year, month)
           end == nextBillingAnchorDate(day, start)
<1> HIDE DEF start, end
<1>1. resolveAnchoredPeriodForMonth(day, year, month) = [periodStart |-> start, periodEnd |-> end]
  BY DEF resolveAnchoredPeriodForMonth, PeriodFrom, start, end
<1>2. AnchorToAnchor(day, year, month, start, end)
  BY NextIsLater DEF start, end
<1>3. start \in Dates /\ end \in Dates
  BY <1>2 DEF AnchorToAnchor
<1> QED BY <1>1, <1>2, <1>3 DEF Periods, start

\* The period of a day is the period of a month.
LEMMA CurrentIsAnchored ==
  ASSUME NEW day \in AnchorDays, NEW d \in Dates, d.year > 0
  PROVE  Anchored(day, resolveAnchoredBillingPeriod(day, d, "current"))
<1>1. PICK year \in Nat, month \in 1..12 :
        CurrentStart(day, d) = billingAnchorDateInMonth(day, year, month)
  BY StartOfPeriod
<1>2. resolveAnchoredBillingPeriod(day, d, "current") = PeriodFrom(day, CurrentStart(day, d))
  BY DEF resolveAnchoredBillingPeriod
<1> QED BY <1>1, <1>2 DEF Anchored, resolveAnchoredPeriodForMonth

\* The period of an earlier month is over when the one of a later month begins.
LEMMA EarlierIsOver ==
  ASSUME NEW day \in AnchorDays, NEW year \in Nat, NEW month \in 1..12,
         NEW after \in Nat, NEW next \in 1..12,
         year < after \/ (year = after /\ month < next)
  PROVE  ~Precedes(resolveAnchoredPeriodForMonth(day, after, next).periodStart,
                   resolveAnchoredPeriodForMonth(day, year, month).periodEnd)
<1> DEFINE end == resolveAnchoredPeriodForMonth(day, year, month).periodEnd
           start == resolveAnchoredPeriodForMonth(day, after, next).periodStart
<1> HIDE DEF end, start
<1>a. /\ resolveAnchoredPeriodForMonth(day, after, next).periodStart
             = billingAnchorDateInMonth(day, after, next)
      /\ AnchorToAnchor(day, after, next, start, resolveAnchoredPeriodForMonth(day, after, next).periodEnd)
  BY PeriodOfMonth DEF start
<1>b. AnchorToAnchor(day, year, month,
        resolveAnchoredPeriodForMonth(day, year, month).periodStart, end)
  BY PeriodOfMonth DEF end
<1>1. /\ end \in Dates /\ end = billingAnchorDateInMonth(day, end.year, end.month)
      /\ \/ month = 12 /\ end.year = year + 1 /\ end.month = 1
         \/ month # 12 /\ end.year = year /\ end.month = month + 1
  BY <1>b DEF AnchorToAnchor
<1>2. start \in Dates /\ start.year = after /\ start.month = next
      /\ start = billingAnchorDateInMonth(day, after, next)
  BY <1>a DEF start, AnchorToAnchor
<1>3. end.year < after \/ (end.year = after /\ end.month < next) \/ (end.year = after /\ end.month = next)
  BY <1>1
<1>4. CASE end.year = after /\ end.month = next
  BY <1>1, <1>2, <1>4, OrderIsLinear DEF end, start
<1>5. CASE end.year < after \/ (end.year = after /\ end.month < next)
  <2>1. Precedes(end, start)
    BY <1>2, <1>5 DEF Precedes
  <2> QED BY <2>1, <1>1, <1>2, OrderIsLinear DEF end, start
<1> QED BY <1>3, <1>4, <1>5 DEF end, start

\* Two periods of an anchor that have a day in common are the same.
LEMMA PeriodsApart ==
  ASSUME NEW day \in AnchorDays, NEW period, NEW other,
         Anchored(day, period), Anchored(day, other),
         Precedes(period.periodStart, other.periodEnd), Precedes(other.periodStart, period.periodEnd)
  PROVE  period = other
<1>1. PICK year \in Nat, month \in 1..12 : period = resolveAnchoredPeriodForMonth(day, year, month)
  BY DEF Anchored
<1>2. PICK after \in Nat, next \in 1..12 : other = resolveAnchoredPeriodForMonth(day, after, next)
  BY DEF Anchored
<1>3. ~(year < after \/ (year = after /\ month < next))
  BY <1>1, <1>2, EarlierIsOver
<1>4. ~(after < year \/ (after = year /\ next < month))
  BY <1>1, <1>2, EarlierIsOver
<1>5. year = after /\ month = next
  BY <1>3, <1>4
<1> QED BY <1>1, <1>2, <1>5

-----------------------------------------------------------------------------
(* The invariant.                                                           *)

\* What a generation knows follows from the anchor it has read.
KnowsIts(g) ==
  /\ g.anchor \in AnchorDays /\ Anchored(g.anchor, g.period)
  /\ g.includeAnnual = isAnnualChargeDueInBillingPeriod(anniversaryMonth, g.anchor, g.period)

RowAnchored(row) == row.anchor \in AnchorDays /\ Anchored(row.anchor, row.period)

AnnualDue(row) ==
  row.type = "annual" =>
    /\ Billed("monthly", row.period)
    /\ isAnnualChargeDueInBillingPeriod(anniversaryMonth, row.anchor, row.period)

\* Who is at the annual invoice has a monthly one and is owed it.
AtTheAnnual(r) ==
  pc[r] \in {"findAnnual", "insertAnnual"} =>
    \A g \in loc[r] : g.includeAnnual /\ Billed("monthly", g.period)

IInv ==
  /\ TypeOK
  /\ \A row \in invoices : RowAnchored(row)
  /\ \A row \in invoices : AnnualDue(row)
  /\ \A r \in Requests : \A g \in loc[r] : KnowsIts(g)
  /\ \A r \in Requests : AtTheAnnual(r)

LEMMA InitIInv == Init => IInv
BY GenerationAssumption DEF Init, IInv, TypeOK, AtTheAnnual

\* Steps that touch the state of one generation only.
LEMMA BeginPreserves ==
  ASSUME IInv, NEW r \in Requests, NEW period \in Periods, Anchored(anchor, period), Begin(r, period)
  PROVE  IInv'
<1> DEFINE g == [period |-> period, anchor |-> anchor,
                 includeAnnual |-> isAnnualChargeDueInBillingPeriod(anniversaryMonth, anchor, period)]
<1>1. anchor \in Anchors /\ anchor \in AnchorDays
  BY GenerationAssumption DEF IInv, TypeOK
<1>2. g.includeAnnual \in BOOLEAN
  BY DEF isAnnualChargeDueInBillingPeriod
<1>3. g \in [period : Periods, anchor : Anchors, includeAnnual : BOOLEAN]
  BY <1>1, <1>2
<1>4. KnowsIts(g)
  BY <1>1 DEF KnowsIts
<1> HIDE DEF g
<1>6. /\ loc' = [loc EXCEPT ![r] = {g}] /\ pc' = [pc EXCEPT ![r] = "findMonthly"]
      /\ UNCHANGED <<anchor, invoices, failures>>
  BY DEF Begin, g
<1>7. TypeOK'
  BY <1>3, <1>6 DEF IInv, TypeOK
<1>8. \A q \in Requests : \A h \in loc'[q] : KnowsIts(h)
  BY <1>4, <1>6 DEF IInv, TypeOK
<1>9. \A q \in Requests : AtTheAnnual(q)'
  BY <1>6 DEF IInv, TypeOK, AtTheAnnual, Billed
<1>10. \A row \in invoices : AnnualDue(row)'
  BY <1>6 DEF IInv, AnnualDue, Billed
<1> QED BY <1>6, <1>7, <1>8, <1>9, <1>10 DEF IInv, KnowsIts, RowAnchored

\* A step that ends generation r or sends it on without a new row.
LEMMA MovePreserves ==
  ASSUME IInv, NEW r \in Requests, pc[r] # "idle", UNCHANGED <<anchor, invoices>>, failures' \in Nat,
         NEW stage \in {"insertMonthly", "findAnnual", "insertAnnual"},
         Finish(r) \/ (Goto(r, stage) /\ (stage # "insertMonthly" =>
                        \A g \in loc[r] : g.includeAnnual /\ Billed("monthly", g.period)))
  PROVE  IInv'
<1>1. TypeOK'
  <2>1. CASE Finish(r)
    BY <2>1 DEF IInv, TypeOK, Finish
  <2>2. CASE Goto(r, stage)
    BY <2>2 DEF IInv, TypeOK, Goto
  <2> QED BY <2>1, <2>2
<1>2. \A row \in invoices : AnnualDue(row)'
  BY DEF IInv, AnnualDue, Billed
<1>3. \A q \in Requests : \A h \in loc'[q] : KnowsIts(h)
  BY DEF IInv, TypeOK, Finish, Goto
<1>4. ASSUME NEW q \in Requests PROVE AtTheAnnual(q)'
  <2>1. CASE Finish(r)
    BY <2>1 DEF IInv, TypeOK, Finish, AtTheAnnual, Billed
  <2>2. CASE Goto(r, stage) /\ (stage # "insertMonthly" =>
               \A g \in loc[r] : g.includeAnnual /\ Billed("monthly", g.period))
    BY <2>2 DEF IInv, TypeOK, Goto, AtTheAnnual, Billed
  <2> QED BY <2>1, <2>2
<1> QED BY <1>1, <1>2, <1>3, <1>4 DEF IInv, KnowsIts, RowAnchored

\* What a new row has to bring: it is anchored and, if annual, due with its monthly one.
LEMMA InsertKeepsRows ==
  ASSUME IInv, NEW g \in [period : Periods, anchor : Anchors, includeAnnual : BOOLEAN], KnowsIts(g),
         NEW type \in {"monthly", "annual"},
         invoices' = invoices \cup {Row(type, g.period, g.anchor)},
         type = "annual" => g.includeAnnual /\ Billed("monthly", g.period)
  PROVE  /\ invoices' \subseteq [type : {"monthly", "annual"}, period : Periods, anchor : Anchors]
         /\ \A row \in invoices' : RowAnchored(row)
         /\ \A row \in invoices' : AnnualDue(row)'
         /\ Billed(type, g.period)'
         /\ \A period : Billed("monthly", period) => Billed("monthly", period)'
<1> DEFINE new == Row(type, g.period, g.anchor)
<1>1. /\ new \in [type : {"monthly", "annual"}, period : Periods, anchor : Anchors]
      /\ new.type = type /\ new.period = g.period /\ new.anchor = g.anchor
  BY DEF Row
<1> HIDE DEF new
<1>2. invoices' = invoices \cup {new}
  BY DEF new
<1>3. \A period : Billed("monthly", period) => Billed("monthly", period)'
  BY <1>2 DEF Billed
<1>4. AnnualDue(new)'
  BY <1>1, <1>3 DEF AnnualDue, KnowsIts
<1>5. \A row \in invoices : AnnualDue(row)'
  BY <1>3 DEF IInv, AnnualDue
<1>6. RowAnchored(new)
  BY <1>1 DEF RowAnchored, KnowsIts
<1> QED BY <1>1, <1>2, <1>3, <1>4, <1>5, <1>6 DEF IInv, TypeOK, Billed, RowAnchored

LEMMA InsertMonthlyPreserves == ASSUME IInv, NEW r \in Requests, InsertMonthly(r) PROVE IInv'
<1>1. PICK g \in loc[r] :
        IF Billed("monthly", g.period)
          THEN Finish(r) /\ UNCHANGED invoices
          ELSE invoices' = invoices \cup {Row("monthly", g.period, g.anchor)} /\ AfterMonthly(r, g)
  BY DEF InsertMonthly
<1>2. pc[r] = "insertMonthly" /\ UNCHANGED <<anchor, failures>>
  BY DEF InsertMonthly
<1>3. CASE Billed("monthly", g.period)
  BY <1>1, <1>2, <1>3, MovePreserves DEF IInv, TypeOK
<1>4. CASE ~Billed("monthly", g.period)
  <2>1. /\ g \in [period : Periods, anchor : Anchors, includeAnnual : BOOLEAN] /\ KnowsIts(g)
        /\ \A h \in loc[r] : h = g
    BY <1>1 DEF IInv, TypeOK
  <2>2. /\ invoices' \subseteq [type : {"monthly", "annual"}, period : Periods, anchor : Anchors]
        /\ \A row \in invoices' : RowAnchored(row)
        /\ \A row \in invoices' : AnnualDue(row)'
        /\ Billed("monthly", g.period)'
        /\ \A period : Billed("monthly", period) => Billed("monthly", period)'
    BY <1>1, <1>4, <2>1, InsertKeepsRows
  <2>3. CASE g.includeAnnual
    <3>1. Goto(r, "findAnnual")
      BY <1>1, <1>4, <2>3 DEF AfterMonthly
    <3>2. TypeOK'
      BY <1>2, <2>2, <3>1 DEF IInv, TypeOK, Goto
    <3>3. \A q \in Requests : AtTheAnnual(q)'
      BY <2>1, <2>2, <2>3, <3>1 DEF IInv, TypeOK, Goto, AtTheAnnual
    <3> QED BY <2>2, <3>1, <3>2, <3>3 DEF IInv, Goto, KnowsIts, RowAnchored
  <2>4. CASE ~g.includeAnnual
    <3>1. Finish(r)
      BY <1>1, <1>4, <2>4 DEF AfterMonthly
    <3>2. TypeOK'
      BY <1>2, <2>2, <3>1 DEF IInv, TypeOK, Finish
    <3>3. \A q \in Requests : AtTheAnnual(q)'
      BY <2>2, <3>1 DEF IInv, TypeOK, Finish, AtTheAnnual
    <3>4. \A q \in Requests : \A h \in loc'[q] : KnowsIts(h)
      BY <3>1 DEF IInv, TypeOK, Finish
    <3> QED BY <2>2, <3>2, <3>3, <3>4 DEF IInv, KnowsIts, RowAnchored
  <2> QED BY <2>3, <2>4
<1> QED BY <1>3, <1>4

LEMMA InsertAnnualPreserves == ASSUME IInv, NEW r \in Requests, InsertAnnual(r) PROVE IInv'
<1>1. PICK g \in loc[r] :
        invoices' = IF Billed("annual", g.period) THEN invoices
                    ELSE invoices \cup {Row("annual", g.period, g.anchor)}
  BY DEF InsertAnnual
<1>2. pc[r] = "insertAnnual" /\ Finish(r) /\ UNCHANGED <<anchor, failures>>
  BY DEF InsertAnnual
<1>3. CASE Billed("annual", g.period)
  BY <1>1, <1>2, <1>3, MovePreserves DEF IInv, TypeOK
<1>4. CASE ~Billed("annual", g.period)
  <2>1. /\ g \in [period : Periods, anchor : Anchors, includeAnnual : BOOLEAN] /\ KnowsIts(g)
        /\ g.includeAnnual /\ Billed("monthly", g.period)
    BY <1>1, <1>2 DEF IInv, TypeOK, AtTheAnnual
  <2>2. /\ invoices' \subseteq [type : {"monthly", "annual"}, period : Periods, anchor : Anchors]
        /\ \A row \in invoices' : RowAnchored(row)
        /\ \A row \in invoices' : AnnualDue(row)'
        /\ \A period : Billed("monthly", period) => Billed("monthly", period)'
    BY <1>1, <1>4, <2>1, InsertKeepsRows
  <2>3. TypeOK'
    BY <1>2, <2>2 DEF IInv, TypeOK, Finish
  <2>4. \A q \in Requests : AtTheAnnual(q)'
    BY <1>2, <2>2 DEF IInv, TypeOK, Finish, AtTheAnnual
  <2>5. \A q \in Requests : \A h \in loc'[q] : KnowsIts(h)
    BY <1>2 DEF IInv, TypeOK, Finish
  <2> QED BY <2>2, <2>3, <2>4, <2>5 DEF IInv, KnowsIts, RowAnchored
<1> QED BY <1>3, <1>4

\* Every step keeps the invariant.
LEMMA NextIInv == ASSUME IInv, [Next]_vars PROVE IInv'
<1>0. anchor \in Anchors /\ anchor \in AnchorDays
  BY GenerationAssumption DEF IInv, TypeOK
<1>1. ASSUME NEW r \in Requests, generateCurrent(r) PROVE IInv'
  <2>1. PICK today \in Days : Begin(r, resolveAnchoredBillingPeriod(anchor, today, "current"))
    BY <1>1 DEF generateCurrent
  <2>2. Anchored(anchor, resolveAnchoredBillingPeriod(anchor, today, "current"))
    BY <1>0, CurrentIsAnchored, GenerationAssumption
  <2>3. resolveAnchoredBillingPeriod(anchor, today, "current") \in Periods
    BY <1>0, <2>2, PeriodOfMonth DEF Anchored
  <2> QED BY <2>1, <2>2, <2>3, BeginPreserves
<1>2. ASSUME NEW r \in Requests, createManual(r) PROVE IInv'
  <2>1. PICK month \in Months : Begin(r, resolveAnchoredPeriodForMonth(anchor, month[1], month[2]))
    BY <1>2 DEF createManual
  <2>2. month[1] \in Nat /\ month[2] \in 1..12
    BY GenerationAssumption
  <2>3. Anchored(anchor, resolveAnchoredPeriodForMonth(anchor, month[1], month[2]))
    BY <2>2 DEF Anchored
  <2>4. resolveAnchoredPeriodForMonth(anchor, month[1], month[2]) \in Periods
    BY <1>0, <2>2, PeriodOfMonth
  <2> QED BY <2>1, <2>3, <2>4, BeginPreserves
<1>3. ASSUME NEW r \in Requests, FindMonthly(r) PROVE IInv'
  <2>1. PICK g \in loc[r] :
          IF Billed("monthly", g.period) THEN AfterMonthly(r, g) ELSE Goto(r, "insertMonthly")
    BY <1>3 DEF FindMonthly
  <2>2. pc[r] = "findMonthly" /\ UNCHANGED <<anchor, invoices, failures>>
    BY <1>3 DEF FindMonthly
  <2>3. failures' \in Nat /\ \A h \in loc[r] : h = g
    BY <2>1, <2>2 DEF IInv, TypeOK
  <2>4. \/ Finish(r) \/ Goto(r, "insertMonthly")
        \/ Goto(r, "findAnnual") /\ g.includeAnnual /\ Billed("monthly", g.period)
    BY <2>1 DEF AfterMonthly
  <2> QED BY <2>2, <2>3, <2>4, MovePreserves
<1>4. ASSUME NEW r \in Requests, FindAnnual(r) PROVE IInv'
  <2>1. Finish(r) \/ Goto(r, "insertAnnual")
    BY <1>4 DEF FindAnnual
  <2>2. pc[r] = "findAnnual" /\ UNCHANGED <<anchor, invoices, failures>> /\ failures' \in Nat
    BY <1>4 DEF FindAnnual, IInv, TypeOK
  <2>3. \A g \in loc[r] : g.includeAnnual /\ Billed("monthly", g.period)
    BY <2>2 DEF IInv, AtTheAnnual
  <2> QED BY <2>1, <2>2, <2>3, MovePreserves
<1>5. ASSUME NEW r \in Requests, Fail(r) PROVE IInv'
  <2>1. pc[r] # "idle" /\ Finish(r) /\ UNCHANGED <<anchor, invoices>> /\ failures' \in Nat
    BY <1>5, GenerationAssumption DEF Fail, IInv, TypeOK
  <2> QED BY <2>1, MovePreserves
<1>6. CASE updateAcademy
  BY <1>6 DEF updateAcademy, IInv, TypeOK, AtTheAnnual, AnnualDue, Billed, RowAnchored, KnowsIts
<1>7. CASE UNCHANGED vars
  BY <1>7 DEF vars, IInv, TypeOK, AtTheAnnual, AnnualDue, Billed, RowAnchored, KnowsIts
<1> QED
  BY <1>1, <1>2, <1>3, <1>4, <1>5, <1>6, <1>7, InsertMonthlyPreserves, InsertAnnualPreserves DEF Next

LEMMA Invariance == Spec => []IInv
BY InitIInv, NextIInv, PTL DEF Spec

-----------------------------------------------------------------------------

\* The types of the variables (TypeOK), in every reachable state.
THEOREM TypeCorrect == Spec => []TypeOK
<1>1. IInv => TypeOK
  BY DEF IInv
<1> QED BY <1>1, Invariance, PTL

\* No two invoices of one type bill the same day, as long as the anchor stays: two anchored
\* periods are one, or the earlier is over when the later begins.
THEOREM BilledOnce == Spec => []NothingBilledTwice
<1>1. ASSUME IInv PROVE NothingBilledTwice
  <2> SUFFICES ASSUME NEW row \in invoices, NEW other \in invoices,
                      row.type = other.type, row.anchor = other.anchor, Overlap(row, other)
               PROVE  row = other
    BY DEF NothingBilledTwice
  <2>1. row.anchor \in AnchorDays /\ Anchored(row.anchor, row.period) /\ Anchored(row.anchor, other.period)
    BY <1>1 DEF IInv, RowAnchored
  <2>2. row.period = other.period
    BY <2>1, PeriodsApart DEF Overlap
  <2> QED BY <1>1, <2>2 DEF IInv, TypeOK
<1> QED BY <1>1, Invariance, PTL

\* An annual invoice stands beside the monthly one of its period, which contains the
\* anniversary.
THEOREM AnnualBesideMonthly == Spec => []AnnualComesWithItsMonth
<1>1. IInv => AnnualComesWithItsMonth
  BY DEF IInv, AnnualDue, AnnualComesWithItsMonth, isAnnualChargeDueInBillingPeriod
<1> QED BY <1>1, Invariance, PTL

\* A generation that ends without an error has left all that its period owes.
THEOREM NothingLeftOut == Spec => CompleteWhenItEnds
<1> DEFINE Ends(r) == pc[r] # "idle" /\ pc'[r] = "idle" /\ failures' = failures /\ ~Refused(r)
<1>1. ASSUME IInv, Next, NEW r \in Requests, Ends(r) PROVE EndsComplete(r)
  <2>0. \A g, h \in loc[r] : g = h
    BY <1>1 DEF IInv, TypeOK
  <2>1. ASSUME NEW q \in Requests, q # r,
               generateCurrent(q) \/ createManual(q) \/ FindMonthly(q) \/ InsertMonthly(q)
                 \/ FindAnnual(q) \/ InsertAnnual(q)
        PROVE  FALSE
    BY <1>1, <2>1 DEF generateCurrent, createManual, Begin, FindMonthly, InsertMonthly, FindAnnual,
                      InsertAnnual, AfterMonthly, Goto, Finish, IInv, TypeOK
  <2>2. ASSUME NEW q \in Requests, Fail(q) PROVE FALSE
    BY <1>1, <2>2, GenerationAssumption DEF Fail, IInv, TypeOK
  <2>3. CASE generateCurrent(r) \/ createManual(r)
    BY <1>1, <2>3 DEF generateCurrent, createManual, Begin
  <2>4. CASE FindMonthly(r)
    BY <1>1, <2>0, <2>4 DEF FindMonthly, AfterMonthly, Goto, Finish, IInv, TypeOK, EndsComplete, Billed
  <2>5. CASE InsertMonthly(r)
    <3>1. PICK g \in loc[r] :
            /\ ~Billed("monthly", g.period)
            /\ invoices' = invoices \cup {Row("monthly", g.period, g.anchor)} /\ AfterMonthly(r, g)
      BY <1>1, <2>0, <2>5 DEF InsertMonthly, Refused
    <3>2. ~g.includeAnnual
      BY <1>1, <2>5, <3>1 DEF AfterMonthly, Goto, InsertMonthly, IInv, TypeOK
    <3>3. Billed("monthly", g.period)'
      <4>1. Row("monthly", g.period, g.anchor) \in invoices'
        BY <3>1
      <4>2. /\ Row("monthly", g.period, g.anchor).type = "monthly"
            /\ Row("monthly", g.period, g.anchor).period = g.period
        BY DEF Row
      <4> QED BY <4>1, <4>2 DEF Billed
    <3> QED BY <2>0, <3>1, <3>2, <3>3 DEF EndsComplete
  <2>6. CASE FindAnnual(r)
    <3>1. PICK g \in loc[r] : Billed("annual", g.period)
      BY <1>1, <2>6 DEF FindAnnual, Goto, IInv, TypeOK
    <3>2. Billed("monthly", g.period) /\ UNCHANGED invoices
      BY <1>1, <2>6 DEF FindAnnual, IInv, AtTheAnnual
    <3> QED BY <2>0, <3>1, <3>2 DEF EndsComplete, Billed
  <2>7. CASE InsertAnnual(r)
    <3>1. PICK g \in loc[r] :
            invoices' = IF Billed("annual", g.period) THEN invoices
                        ELSE invoices \cup {Row("annual", g.period, g.anchor)}
      BY <2>7 DEF InsertAnnual
    <3>2. Billed("monthly", g.period)
      BY <1>1, <2>7 DEF InsertAnnual, IInv, AtTheAnnual
    <3>3. Billed("annual", g.period)'
      <4>1. /\ Row("annual", g.period, g.anchor).type = "annual"
            /\ Row("annual", g.period, g.anchor).period = g.period
        BY DEF Row
      <4>2. CASE Billed("annual", g.period)
        BY <3>1, <4>2 DEF Billed
      <4>3. CASE ~Billed("annual", g.period)
        <5>1. Row("annual", g.period, g.anchor) \in invoices'
          BY <3>1, <4>3
        <5> QED BY <4>1, <5>1 DEF Billed
      <4> QED BY <4>2, <4>3
    <3>4. Billed("monthly", g.period)'
      BY <3>1, <3>2 DEF Billed
    <3> QED BY <2>0, <3>3, <3>4 DEF EndsComplete
  <2>8. CASE updateAcademy
    BY <1>1, <2>8 DEF updateAcademy
  <2> QED BY <1>1, <2>1, <2>2, <2>3, <2>4, <2>5, <2>6, <2>7, <2>8 DEF Next
<1>2. ASSUME IInv, [Next]_vars
      PROVE  [\A r \in Requests : Ends(r) => EndsComplete(r)]_vars
  BY <1>1, <1>2
<1>3. (\A r \in Requests : Ends(r) => EndsComplete(r))
        <=> (\A r \in Requests : pc[r] # "idle" /\ pc'[r] = "idle" /\ failures' = failures
                                   /\ ~Refused(r) => EndsComplete(r))
  OBVIOUS
<1> QED BY <1>2, Invariance, PTL DEF Spec, CompleteWhenItEnds
=============================================================================
