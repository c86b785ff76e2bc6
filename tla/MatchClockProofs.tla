-------------------------- MODULE MatchClockProofs --------------------------
(***************************************************************************)
(* What holds of MatchClock for any number of concurrent commands, any     *)
(* number of periods and any adjustment.                                   *)
(***************************************************************************)
EXTENDS MatchClock, TLAPS

\* Since kick-off, a row counts no more than has passed and was ever granted.
Bounded(c) ==
  IF c.running THEN c.started <= now /\ c.elapsed - c.started <= credit - kickoff
               ELSE c.elapsed <= credit + (now - kickoff)

\* A row that makes sense, read from the match or about to be written to it.
Sound(c) == Coherent(c) /\ Bounded(c)

Holding(r) == pc[r] \in {"compute", "write"}

IInv ==
  /\ TypeOK
  /\ Coherent(clock)
  /\ kickoff = Null => clock = NewClock /\ status # "in_progress" /\ credit = 0
  /\ kickoff # Null => kickoff <= now /\ Bounded(clock)
  /\ \A r \in Requests :
       /\ Holding(r) => kickoff # Null /\ Sound(loc[r].row)
       /\ pc[r] = "status" /\ loc[r].target = "finished" => kickoff # Null

\* The empty columns.
LEMMA NewClockType == NewClock \in Clocks /\ Coherent(NewClock)
BY ClockAssumption DEF NewClock, Clocks, Coherent

\* The invariant holds when the match is scheduled.
LEMMA InitInvariant == Init => IInv
<1> SUFFICES ASSUME Init PROVE IInv
  OBVIOUS
<1>1. NoLocals \in Locals
  BY NewClockType, ClockAssumption DEF NoLocals, Locals, MatchStatus
<1>2. TypeOK
  BY <1>1, NewClockType DEF Init, TypeOK, MatchStatus
<1> QED
  BY <1>2, NewClockType DEF Init, IInv, Holding

\* Kick-off makes columns that make sense.
LEMMA InitialSound ==
  ASSUME now \in Nat, credit \in Nat, NEW k \in Nat, k <= now
  PROVE  /\ buildInitialClockState(now) \in Clocks
         /\ Coherent(buildInitialClockState(now))
         /\ buildInitialClockState(now).started = now
         /\ buildInitialClockState(now).elapsed = 0
         /\ buildInitialClockState(now).running
BY ClockAssumption DEF buildInitialClockState, Clocks, Coherent

\* The fields of a row.
LEMMA RowFields ==
  ASSUME NEW c \in Clocks
  PROVE  /\ c.period \in 1..MaxPeriods /\ c.elapsed \in Nat /\ c.running \in BOOLEAN
         /\ c.started \in Nat \cup {Null} /\ c.paused \in Nat \cup {Null}
BY DEF Clocks

\* Whatever a command makes of a row that makes sense makes sense.
LEMMA CommandsSound ==
  ASSUME now \in Nat, credit \in Nat, kickoff \in Nat, kickoff <= now,
         NEW c \in Clocks, Sound(c), NEW n \in 1..MaxPeriods
  PROVE  /\ buildPauseClockState(c, now) \in Clocks /\ Sound(buildPauseClockState(c, now))
         /\ buildResumeClockState(c, now) \in Clocks /\ Sound(buildResumeClockState(c, now))
         /\ HasNextPeriod(c, n) =>
              /\ buildNextPeriodClockState(c, now) \in Clocks
              /\ Sound(buildNextPeriodClockState(c, now))
<1>0. /\ c.elapsed \in Nat /\ c.started \in Nat \cup {Null} /\ c.paused \in Nat \cup {Null}
      /\ c.running \in BOOLEAN /\ Null \notin Int /\ Coherent(c) /\ Bounded(c)
  BY RowFields, ClockAssumption DEF Sound
<1>1. buildPauseClockState(c, now) \in Clocks /\ Sound(buildPauseClockState(c, now))
  <2>1. CASE c.running
    <3> DEFINE e == ElapsedAt(c, now)
               d == [c EXCEPT !.running = FALSE, !.elapsed = e, !.started = Null, !.paused = now]
    <3>1. ElapsedAt(c, now) \in Nat /\ ElapsedAt(c, now) <= credit + (now - kickoff)
      BY <1>0, <2>1 DEF ElapsedAt, Bounded, Coherent
    <3>2. buildPauseClockState(c, now) = d
      BY <2>1 DEF buildPauseClockState
    <3>3. e = ElapsedAt(c, now) /\ e \in Nat
      BY <3>1
    <3> HIDE DEF e
    <3>4. /\ d \in Clocks /\ ~d.running /\ d.elapsed = e /\ d.started = Null
      BY <3>3 DEF Clocks
    <3> HIDE DEF d
    <3> QED
      BY <3>1, <3>2, <3>3, <3>4 DEF Sound, Coherent, Bounded
  <2>2. CASE ~c.running
    <3> DEFINE d == [c EXCEPT !.paused = now]
    <3>1. /\ d \in Clocks /\ d.running = c.running /\ d.elapsed = c.elapsed
          /\ d.started = c.started
      BY DEF Clocks
    <3>2. buildPauseClockState(c, now) = d
      BY <2>2 DEF buildPauseClockState
    <3> HIDE DEF d
    <3> QED
      BY <1>0, <2>2, <3>1, <3>2 DEF Sound, Coherent, Bounded
  <2> QED
    BY <2>1, <2>2
<1>2. buildResumeClockState(c, now) \in Clocks /\ Sound(buildResumeClockState(c, now))
  <2>1. CASE c.running
    <3> DEFINE d == [c EXCEPT !.paused = Null]
    <3>1. /\ d \in Clocks /\ d.running = c.running /\ d.elapsed = c.elapsed
          /\ d.started = c.started /\ d.paused = Null
      BY DEF Clocks
    <3>2. buildResumeClockState(c, now) = d
      BY <2>1 DEF buildResumeClockState
    <3> HIDE DEF d
    <3> QED
      BY <1>0, <2>1, <3>1, <3>2 DEF Sound, Coherent, Bounded
  <2>2. CASE ~c.running
    <3> DEFINE d == [c EXCEPT !.running = TRUE, !.started = now, !.paused = Null]
    <3>1. /\ d \in Clocks /\ d.running /\ d.elapsed = c.elapsed
          /\ d.started = now /\ d.paused = Null
      BY DEF Clocks
    <3>2. buildResumeClockState(c, now) = d
      BY <2>2 DEF buildResumeClockState
    <3> HIDE DEF d
    <3> QED
      BY <1>0, <2>2, <3>1, <3>2 DEF Sound, Coherent, Bounded
  <2> QED
    BY <2>1, <2>2
<1>3. ASSUME HasNextPeriod(c, n)
      PROVE  /\ buildNextPeriodClockState(c, now) \in Clocks
             /\ Sound(buildNextPeriodClockState(c, now))
  BY <1>3, ClockAssumption DEF HasNextPeriod, buildNextPeriodClockState, Sound, Coherent, Bounded, Clocks
<1> QED
  BY <1>1, <1>2, <1>3

\* An adjustment makes sense once the seconds it sets are credited.
LEMMA AdjustSound ==
  ASSUME now \in Nat, kickoff \in Nat, kickoff <= now, NEW c \in Clocks, Sound(c),
         NEW minute \in Adjustments
  PROVE  LET adjusted == buildAdjustMinuteClockState(c, now, minute) IN
         /\ adjusted \in Clocks /\ Coherent(adjusted)
         /\ adjusted.running => adjusted.started = now
<1> DEFINE clamped == IF minute > MATCH_CLOCK_MINUTE_MAX THEN MATCH_CLOCK_MINUTE_MAX ELSE minute
<1>1. clamped \in Nat
  BY ClockAssumption
<1>2. clamped * SecondsPerMinute \in Nat
  BY <1>1, ClockAssumption
<1> HIDE DEF clamped
<1>3. buildAdjustMinuteClockState(c, now, minute) =
        [c EXCEPT !.elapsed = clamped * SecondsPerMinute,
                  !.started = IF c.running THEN now ELSE Null,
                  !.paused  = IF c.running THEN Null ELSE now]
  BY DEF buildAdjustMinuteClockState, clamped
<1>4. /\ c.running \in BOOLEAN /\ Coherent(c) /\ Null \notin Int
  BY RowFields, ClockAssumption DEF Sound
<1> DEFINE seconds == clamped * SecondsPerMinute
           s == IF c.running THEN now ELSE Null
           u == IF c.running THEN Null ELSE now
           d == [c EXCEPT !.elapsed = seconds, !.started = s, !.paused = u]
<1>5. seconds \in Nat /\ s \in Nat \cup {Null} /\ u \in Nat \cup {Null}
  BY <1>2
<1>6. buildAdjustMinuteClockState(c, now, minute) = d
  BY <1>3
<1>7. s = IF c.running THEN now ELSE Null
  OBVIOUS
<1>8. u = IF c.running THEN Null ELSE now
  OBVIOUS
<1> HIDE DEF seconds, s, u
<1>9. /\ d \in Clocks /\ d.running = c.running /\ d.started = s /\ d.paused = u
  BY <1>5 DEF Clocks
<1> HIDE DEF d
<1> QED
  BY <1>4, <1>6, <1>7, <1>8, <1>9 DEF Coherent

\* Every step keeps the invariant.
LEMMA NextInvariant == IInv /\ [Next]_vars => IInv'
<1> SUFFICES ASSUME IInv, [Next]_vars PROVE IInv'
  OBVIOUS
<1>0. /\ TypeOK /\ Null \notin Int
      /\ \A q \in Requests : loc[q].row \in Clocks /\ loc[q].target \in MatchStatus
      /\ \A q \in Requests : loc[q].periods \in 1..MaxPeriods
      /\ NoLocals \in Locals
  BY NewClockType, ClockAssumption DEF IInv, TypeOK, NoLocals, Locals, MatchStatus
<1>1. ASSUME Tick PROVE IInv'
  BY <1>0, <1>1 DEF Tick, IInv, TypeOK, Holding, Sound, Bounded, Coherent, Clocks, history
<1>2. ASSUME NEW r \in Requests, updateMatchStatus(r) PROVE IInv'
  <2>1. PICK next \in MatchStatus :
          <<status, next>> \in Transitions /\ loc' = [loc EXCEPT ![r].target = next]
    BY <1>2 DEF updateMatchStatus
  <2>2. next = "finished" => kickoff # Null
    BY <2>1 DEF IInv, Transitions
  <2>3. TypeOK'
    BY <1>0, <1>2, <2>1 DEF updateMatchStatus, TypeOK, Locals, history
  <2> QED
    BY <1>0, <1>2, <2>1, <2>2, <2>3
       DEF updateMatchStatus, IInv, TypeOK, Locals, Holding, Sound, Bounded, Coherent, history
<1>3. ASSUME NEW r \in Requests, StatusUpdate(r) PROVE IInv'
  <2> USE <1>3 DEF StatusUpdate
  <2>1. /\ \A q \in Requests \ {r} : pc'[q] = pc[q] /\ loc'[q] = loc[q]
        /\ pc'[r] = "idle" /\ status' \in MatchStatus /\ UNCHANGED <<periods, now, credit>>
    BY <1>0 DEF TypeOK
  <2>2. CASE status' = "finished"
    <3>1. kickoff \in Nat /\ kickoff' = kickoff /\ kickoff <= now /\ Bounded(clock)
      BY <2>2 DEF IInv, TypeOK
    <3>2. clock' = Stopped(clock, now)
      BY <2>2
    <3>3. /\ clock \in Clocks /\ clock' \in Clocks /\ ~clock'.running /\ clock'.started = Null
          /\ clock'.elapsed = clock.elapsed
      BY <1>0, <3>2 DEF Stopped, TypeOK, Clocks
    <3>4. Bounded(clock)' /\ Coherent(clock')
      <4>1. /\ clock.elapsed \in Nat /\ clock.started \in Nat \cup {Null}
            /\ clock.running \in BOOLEAN /\ Coherent(clock) /\ now \in Nat /\ credit \in Nat
        BY <1>0, <3>3, RowFields DEF IInv, TypeOK
      <4>2. clock.elapsed <= credit + (now - kickoff)
        BY <1>0, <3>1, <4>1 DEF Bounded, Coherent
      <4> QED
        BY <2>1, <3>1, <3>3, <4>2 DEF Bounded, Coherent
    <3>5. TypeOK'
      BY <1>0, <2>1, <3>1, <3>3 DEF TypeOK
    <3> QED
      BY <1>0, <2>1, <3>1, <3>3, <3>4, <3>5 DEF IInv, Holding, Sound, Bounded, Coherent, TypeOK
  <2>3. CASE status' = "in_progress"
    <3>1. kickoff' \in Nat /\ kickoff' <= now /\ (kickoff # Null => kickoff' = kickoff)
      BY <1>0, <2>3 DEF IInv, TypeOK
    <3>2. clock' = buildInitialClockState(now)
      BY <2>3
    <3>3. clock' \in Clocks /\ Coherent(clock')
      BY <1>0, <3>1, <3>2, InitialSound DEF TypeOK
    <3>4. Bounded(clock)'
      BY <1>0, <2>1, <3>1, <3>2, InitialSound DEF Bounded, TypeOK
    <3>5. TypeOK'
      BY <1>0, <2>1, <3>1, <3>3 DEF TypeOK
    <3>6. kickoff' # Null
      BY <1>0, <3>1
    <3> QED
      BY <1>0, <2>1, <3>1, <3>3, <3>4, <3>5, <3>6 DEF IInv, Holding, Sound, Bounded, Coherent, TypeOK
  <2>4. CASE status' \notin {"finished", "in_progress"}
    <3>1. UNCHANGED <<clock, kickoff>>
      BY <2>4
    <3>2. TypeOK'
      BY <1>0, <2>1, <3>1 DEF TypeOK
    <3> QED
      BY <1>0, <2>1, <2>4, <3>1, <3>2 DEF IInv, Holding, Sound, Bounded, Coherent
  <2> QED
    BY <2>2, <2>3, <2>4
<1>4. ASSUME NEW r \in Requests, applyCommand(r) PROVE IInv'
  <2>1. kickoff # Null /\ Sound(clock)
    BY <1>4 DEF applyCommand, IInv, Sound
  <2>2. TypeOK'
    BY <1>0, <1>4 DEF applyCommand, TypeOK, Locals, history
  <2> QED
    BY <1>0, <1>4, <2>1, <2>2
       DEF applyCommand, IInv, TypeOK, Holding, Sound, Bounded, Coherent, history
<1>5. ASSUME NEW r \in Requests, Compute(r) PROVE IInv'
  <2> DEFINE row == loc[r].row
  <2>1. row \in Clocks /\ Sound(row) /\ kickoff \in Nat /\ kickoff <= now
        /\ now \in Nat /\ credit \in Nat
    BY <1>0, <1>5 DEF Compute, IInv, Holding, TypeOK
  <2>2. PICK c : /\ loc' = [loc EXCEPT ![r].row = c]
                 /\ c \in Clocks /\ credit' \in Nat /\ credit <= credit'
                 /\ Coherent(c)
                 /\ IF c.running THEN c.started <= now /\ c.elapsed - c.started <= credit' - kickoff
                                 ELSE c.elapsed <= credit' + (now - kickoff)
    <3>0. ASSUME NEW c \in Clocks, Sound(c), UNCHANGED credit,
                 loc' = [loc EXCEPT ![r].row = c]
          PROVE  \E d : /\ loc' = [loc EXCEPT ![r].row = d]
                        /\ d \in Clocks /\ credit' \in Nat /\ credit <= credit'
                        /\ Coherent(d)
                        /\ IF d.running
                             THEN d.started <= now /\ d.elapsed - d.started <= credit' - kickoff
                             ELSE d.elapsed <= credit' + (now - kickoff)
      <4>1. credit' \in Nat /\ credit <= credit' /\ credit' = credit
        BY <2>1, <3>0
      <4>2. /\ Coherent(c)
            /\ IF c.running THEN c.started <= now /\ c.elapsed - c.started <= credit' - kickoff
                            ELSE c.elapsed <= credit' + (now - kickoff)
        BY <3>0, <4>1 DEF Sound, Bounded
      <4> QED
        BY <3>0, <4>1, <4>2
    <3>1. CASE loc' = [loc EXCEPT ![r].row = buildPauseClockState(row, now)] /\ UNCHANGED credit
      <4>1. buildPauseClockState(row, now) \in Clocks /\ Sound(buildPauseClockState(row, now))
        BY <1>0, <2>1, CommandsSound
      <4> QED
        BY <3>0, <3>1, <4>1
    <3>2. CASE loc' = [loc EXCEPT ![r].row = buildResumeClockState(row, now)] /\ UNCHANGED credit
      <4>1. buildResumeClockState(row, now) \in Clocks /\ Sound(buildResumeClockState(row, now))
        BY <1>0, <2>1, CommandsSound
      <4> QED
        BY <3>0, <3>2, <4>1
    <3>3. CASE /\ HasNextPeriod(row, loc[r].periods)
               /\ loc' = [loc EXCEPT ![r].row = buildNextPeriodClockState(row, now)]
               /\ UNCHANGED credit
      <4>1. /\ buildNextPeriodClockState(row, now) \in Clocks
            /\ Sound(buildNextPeriodClockState(row, now))
        BY <1>0, <2>1, <3>3, CommandsSound
      <4> QED
        BY <3>0, <3>3, <4>1
    <3>4. ASSUME NEW minute \in Adjustments,
                 loc' = [loc EXCEPT ![r].row = buildAdjustMinuteClockState(row, now, minute)],
                 credit' = IF buildAdjustMinuteClockState(row, now, minute).elapsed > credit
                             THEN buildAdjustMinuteClockState(row, now, minute).elapsed ELSE credit
          PROVE  \E c : /\ loc' = [loc EXCEPT ![r].row = c]
                        /\ c \in Clocks /\ credit' \in Nat /\ credit <= credit'
                        /\ Coherent(c)
                        /\ IF c.running
                             THEN c.started <= now /\ c.elapsed - c.started <= credit' - kickoff
                             ELSE c.elapsed <= credit' + (now - kickoff)
      <4> DEFINE adjusted == buildAdjustMinuteClockState(row, now, minute)
      <4>1. /\ adjusted \in Clocks /\ Coherent(adjusted)
            /\ adjusted.running => adjusted.started = now
        BY <2>1, AdjustSound
      <4>2. adjusted.elapsed \in Nat /\ credit' \in Nat /\ credit <= credit' /\ adjusted.elapsed <= credit'
        BY <2>1, <3>4, <4>1 DEF Clocks
      <4> HIDE DEF adjusted
      <4>3. IF adjusted.running
              THEN adjusted.started <= now /\ adjusted.elapsed - adjusted.started <= credit' - kickoff
              ELSE adjusted.elapsed <= credit' + (now - kickoff)
        BY <2>1, <4>1, <4>2
      <4>4. loc' = [loc EXCEPT ![r].row = adjusted]
        BY <3>4 DEF adjusted
      <4> QED
        BY <4>1, <4>2, <4>3, <4>4
    <3> QED
      BY <1>5, <3>1, <3>2, <3>3, <3>4 DEF Compute
  <2>3. UNCHANGED <<status, clock, periods, now, kickoff>> /\ pc' = [pc EXCEPT ![r] = "write"]
    BY <1>5 DEF Compute
  <2>4. /\ \A q \in Requests \ {r} : pc'[q] = pc[q] /\ loc'[q] = loc[q]
        /\ pc'[r] = "write" /\ loc'[r].row = c /\ loc'[r].target = loc[r].target
        /\ loc' \in [Requests -> Locals]
    BY <1>0, <2>2, <2>3 DEF TypeOK, Locals
  <2>5. TypeOK'
    BY <1>0, <2>2, <2>3, <2>4 DEF TypeOK
  <2>6. \A d \in Clocks : Coherent(d) /\ Bounded(d) => Bounded(d)'
    <3> SUFFICES ASSUME NEW d \in Clocks, Coherent(d), Bounded(d) PROVE Bounded(d)'
      OBVIOUS
    <3>1. d.elapsed \in Nat /\ d.started \in Nat \cup {Null} /\ d.running \in BOOLEAN
      BY RowFields
    <3> QED
      BY <1>0, <2>1, <2>2, <2>3, <3>1 DEF Bounded, Coherent
  <2>7. kickoff # Null
    BY <1>0, <2>1
  <2>8. ASSUME NEW q \in Requests, Holding(q)' PROVE Sound(loc[q].row)'
    <3>1. CASE q = r
      BY <2>2, <2>3, <2>4, <3>1 DEF Sound, Bounded, Coherent
    <3>2. CASE q # r
      BY <1>0, <2>4, <2>6, <2>8, <3>2 DEF Sound, IInv, Holding, Coherent, Bounded
    <3> QED
      BY <3>1, <3>2
  <2>9. Bounded(clock)' /\ Coherent(clock)'
    BY <1>0, <2>3, <2>6, <2>7 DEF IInv, TypeOK, Coherent, Bounded
  <2> QED
    BY <1>0, <2>1, <2>3, <2>4, <2>5, <2>7, <2>8, <2>9 DEF IInv, Holding
<1>6. ASSUME NEW r \in Requests, PersistState(r) PROVE IInv'
  <2> USE <1>6 DEF PersistState
  <2>1. clock' \in Clocks /\ Sound(clock)' /\ kickoff # Null /\ kickoff' = kickoff
    BY <1>0 DEF IInv, Holding, Sound, Bounded, Coherent, history
  <2>2. TypeOK'
    BY <1>0, <2>1 DEF TypeOK, history
  <2>3. /\ \A q \in Requests \ {r} : pc'[q] = pc[q] /\ loc'[q] = loc[q]
        /\ pc'[r] = "idle" /\ UNCHANGED <<now, credit, kickoff, status>>
    BY <1>0 DEF TypeOK, history
  <2> QED
    BY <1>0, <2>1, <2>2, <2>3 DEF IInv, Holding, Sound, Bounded, Coherent
<1>7. ASSUME NEW r \in Requests, updateMatch(r) PROVE IInv'
  <2>1. TypeOK'
    BY <1>0, <1>7 DEF updateMatch, TypeOK, Locals, history
  <2> QED
    BY <1>0, <1>7, <2>1
       DEF updateMatch, IInv, TypeOK, Holding, Sound, Bounded, Coherent, history
<1>8. ASSUME NEW r \in Requests, MatchUpdate(r) PROVE IInv'
  <2>1. TypeOK'
    BY <1>0, <1>8 DEF MatchUpdate, TypeOK, history
  <2> QED
    BY <1>0, <1>8, <2>1
       DEF MatchUpdate, IInv, TypeOK, Holding, Sound, Bounded, Coherent, history
<1>9. ASSUME UNCHANGED vars PROVE IInv'
  BY <1>9 DEF vars, IInv, TypeOK, Holding, Sound, Bounded, Coherent
<1> QED
  BY <1>1, <1>2, <1>3, <1>4, <1>5, <1>6, <1>7, <1>8, <1>9 DEF Next

\* The inductive invariant says what the properties say.
LEMMA InvariantSuffices == IInv => TypeOK /\ ColumnsAgree /\ NoTimeInvented
<1> SUFFICES ASSUME IInv PROVE TypeOK /\ ColumnsAgree /\ NoTimeInvented
  OBVIOUS
<1>1. CASE kickoff = Null
  BY <1>1 DEF IInv, ColumnsAgree, NoTimeInvented
<1>2. CASE kickoff # Null
  <2>1. ElapsedAt(clock, now) <= credit + (now - kickoff)
    BY <1>2, ClockAssumption DEF IInv, TypeOK, Clocks, Coherent, Bounded, ElapsedAt
  <2> QED
    BY <1>2, <2>1 DEF IInv, ColumnsAgree, NoTimeInvented
<1> QED
  BY <1>1, <1>2

\* Every variable keeps its type.
THEOREM ClockTypeCorrect == Spec => []TypeOK
BY InitInvariant, NextInvariant, InvariantSuffices, PTL DEF Spec

\* However concurrent commands overwrite one another, the clock columns written
\* by updateClockState and updateStatus make sense together.
THEOREM ClockColumnsAgree == Spec => []ColumnsAgree
BY InitInvariant, NextInvariant, InvariantSuffices, PTL DEF Spec

\* No interleaving of clock commands, kick-off and full time shows more time
\* than has passed since kick-off on top of what the coach has set.
THEOREM ClockInventsNoTime == Spec => []NoTimeInvented
BY InitInvariant, NextInvariant, InvariantSuffices, PTL DEF Spec

-----------------------------------------------------------------------------
(* Commands served one at a time implement a stopwatch.                     *)

OneAtATime == \A q, r \in Requests : q = r

\* What the one request in progress read is still so.
StillSo ==
  \A r \in Requests :
    /\ pc[r] = "compute" => loc[r].row = clock /\ loc[r].periods = periods
    /\ Holding(r) => status = "in_progress"
    /\ pc[r] = "status" => <<status, loc[r].target>> \in Transitions
    /\ pc[r] = "edit" => status \in EDITABLE_STATUSES

\* The invariants together, of which the refinement makes use.
SerialInv == IInv /\ StillSo

\* Every step keeps what was read, one request at a time.
LEMMA StillSoNext == OneAtATime /\ SerialInv /\ [Next]_vars => StillSo'
<1> SUFFICES ASSUME OneAtATime, SerialInv, [Next]_vars PROVE StillSo'
  OBVIOUS
<1>0. TypeOK /\ \A q, r \in Requests : q = r
  BY DEF SerialInv, IInv, OneAtATime
<1>1. CASE Tick
  BY <1>0, <1>1 DEF Tick, SerialInv, StillSo, Holding
<1>2. ASSUME NEW r \in Requests, updateMatchStatus(r) PROVE StillSo'
  BY <1>0, <1>2 DEF updateMatchStatus, SerialInv, StillSo, Holding, TypeOK, Locals
<1>3. ASSUME NEW r \in Requests, StatusUpdate(r) \/ MatchUpdate(r) \/ PersistState(r)
      PROVE  StillSo'
  BY <1>0, <1>3 DEF StatusUpdate, MatchUpdate, PersistState, StillSo, Holding, TypeOK
<1>4. ASSUME NEW r \in Requests, updateMatch(r) PROVE StillSo'
  BY <1>0, <1>4 DEF updateMatch, SerialInv, StillSo, Holding, TypeOK
<1>5. ASSUME NEW r \in Requests, applyCommand(r) PROVE StillSo'
  BY <1>0, <1>5 DEF applyCommand, SerialInv, StillSo, Holding, TypeOK, Locals
<1>6. ASSUME NEW r \in Requests, Compute(r) PROVE StillSo'
  BY <1>0, <1>6 DEF Compute, SerialInv, StillSo, Holding, TypeOK
<1>7. CASE UNCHANGED vars
  BY <1>7 DEF vars, SerialInv, StillSo, Holding
<1> QED
  BY <1>1, <1>2, <1>3, <1>4, <1>5, <1>6, <1>7 DEF Next

\* Of a single slot, the slots about to write are that one or none.
LEMMA OnlyWriter ==
  ASSUME OneAtATime, NEW r \in Requests, NEW p
  PROVE  LET writers == {q \in Requests : p[q] = "write"} IN
         IF p[r] = "write" THEN writers # {} /\ (CHOOSE q \in writers : TRUE) = r
                           ELSE writers = {}
<1> DEFINE writers == {q \in Requests : p[q] = "write"}
<1>1. CASE p[r] = "write"
  <2>1. r \in writers
    BY <1>1
  <2>2. (CHOOSE q \in writers : TRUE) \in writers
    BY <2>1
  <2>3. (CHOOSE q \in writers : TRUE) = r
    BY <2>2 DEF OneAtATime
  <2> QED
    BY <1>1, <2>1, <2>3
<1>2. CASE p[r] # "write"
  BY <1>2 DEF OneAtATime
<1> QED
  BY <1>1, <1>2

\* The row in force, before a step and after it: the one a request is about to
\* write, or that of the match.
LEMMA RowInForce ==
  ASSUME OneAtATime, NEW r \in Requests
  PROVE  /\ pc[r] = "write" => InForce = loc[r].row
         /\ pc[r] # "write" => InForce = clock
         /\ pc'[r] = "write" => InForce' = loc'[r].row
         /\ pc'[r] # "write" => InForce' = clock'
<1>1. /\ pc[r] = "write" => InForce = loc[r].row
      /\ pc[r] # "write" => InForce = clock
  BY OnlyWriter DEF InForce
<1>2. /\ pc'[r] = "write" => InForce' = loc'[r].row
      /\ pc'[r] # "write" => InForce' = clock'
  BY OnlyWriter DEF InForce
<1> QED
  BY <1>1, <1>2

\* What the elapsed time of a row comes to.
LEMMA Elapsed ==
  ASSUME NEW c \in Clocks, NEW t \in Nat
  PROVE  /\ ElapsedAt(c, t) \in Nat /\ c.elapsed \in 0..ElapsedAt(c, t)
         /\ ~c.running => ElapsedAt(c, t) = c.elapsed
         /\ c.started = t => ElapsedAt(c, t) = c.elapsed
         /\ c.running /\ Coherent(c) /\ c.started <= t
              => ElapsedAt(c, t + 1) = ElapsedAt(c, t) + 1
<1>1. /\ c.elapsed \in Nat /\ c.running \in BOOLEAN /\ c.started \in Nat \cup {Null}
      /\ Null \notin Int
  BY RowFields, ClockAssumption
<1> QED
  BY <1>1 DEF ElapsedAt, Coherent

\* The row in force makes sense.
LEMMA InForceSound ==
  ASSUME OneAtATime, IInv
  PROVE  /\ InForce \in Clocks /\ Coherent(InForce)
         /\ InForce.running => InForce.started <= now
<1>1. /\ clock \in Clocks /\ Coherent(clock) /\ (clock.running => clock.started <= now)
  BY DEF IInv, TypeOK, Bounded, NewClock
<1>2. ASSUME NEW r \in Requests, pc[r] = "write"
      PROVE  /\ loc[r].row \in Clocks /\ Coherent(loc[r].row)
             /\ loc[r].row.running => loc[r].row.started <= now
  BY <1>2 DEF IInv, TypeOK, Locals, Holding, Sound, Bounded
<1>3. CASE Requests = {}
  BY <1>1, <1>3 DEF InForce
<1>4. ASSUME NEW r \in Requests
      PROVE  InForce = clock \/ (pc[r] = "write" /\ InForce = loc[r].row)
  <2>1. CASE pc[r] = "write"
    BY <1>4, <2>1, RowInForce
  <2>2. CASE pc[r] # "write"
    BY <1>4, <2>2, RowInForce
  <2> QED
    BY <2>1, <2>2
<1> QED
  BY <1>1, <1>2, <1>3, <1>4

\* A second that passes is one on the stopwatch, if it goes.
LEMMA TickIsASecond ==
  ASSUME OneAtATime, IInv, Tick
  PROVE  [Stopwatch!StopwatchNext]_(Stopwatch!stopwatch)
<1>1. /\ InForce' = InForce /\ status' = status /\ periods' = periods /\ now' = now + 1
  BY DEF Tick, InForce, history
<1>2. InForce \in Clocks /\ Coherent(InForce) /\ (InForce.running => InForce.started <= now)
  BY InForceSound
<1>3. now \in Nat /\ now + 1 \in Nat
  BY DEF IInv, TypeOK
<1>4. CASE Shown /\ InForce.running
  <2>1. ElapsedAt(InForce', now') = ElapsedAt(InForce, now) + 1
    BY <1>1, <1>2, <1>3, <1>4, Elapsed
  <2>2. Stopwatch!Second
    BY <1>1, <1>4, <2>1 DEF Stopwatch!Second, Shown
  <2> QED
    BY <2>2 DEF Stopwatch!StopwatchNext
<1>5. CASE ~(Shown /\ InForce.running)
  <2>1. Shown => ElapsedAt(InForce', now') = ElapsedAt(InForce, now)
    BY <1>1, <1>2, <1>3, <1>5, Elapsed
  <2> QED
    BY <1>1, <1>5, <2>1 DEF Stopwatch!stopwatch, Shown
<1> QED
  BY <1>4, <1>5

\* Requests that read, check, or write what is in force already are not seen.
LEMMA UnseenSteps ==
  ASSUME OneAtATime, SerialInv, NEW r \in Requests,
         updateMatchStatus(r) \/ updateMatch(r) \/ applyCommand(r) \/ PersistState(r)
  PROVE  UNCHANGED Stopwatch!stopwatch
<1>0. TypeOK
  BY DEF SerialInv, IInv
<1>2. UNCHANGED <<status, periods, now>>
  BY DEF updateMatchStatus, updateMatch, applyCommand, PersistState, history
<1>5. InForce' = InForce
  BY <1>0, RowInForce DEF updateMatchStatus, updateMatch, applyCommand, PersistState, TypeOK
<1> QED
  BY <1>2, <1>5 DEF Stopwatch!stopwatch, Shown

\* The status of the match moves the stopwatch.
LEMMA StatusMovesStopwatch ==
  ASSUME OneAtATime, SerialInv, NEW r \in Requests, StatusUpdate(r)
  PROVE  Stopwatch!StopwatchNext
<1>0. TypeOK
  BY DEF SerialInv, IInv
<1>1. /\ pc[r] = "status" /\ pc'[r] = "idle" /\ status' = loc[r].target
      /\ periods' = periods /\ now' = now /\ now \in Nat /\ periods \in 1..MaxPeriods
      /\ <<status, status'>> \in Transitions
  BY <1>0 DEF StatusUpdate, SerialInv, StillSo, TypeOK
<1>2. InForce = clock /\ InForce' = clock' /\ clock \in Clocks
  BY <1>0, <1>1, RowInForce DEF TypeOK
<1>3. CASE status' = "in_progress"
  <2>1. clock' = buildInitialClockState(now)
    BY <1>3 DEF StatusUpdate
  <2>2. /\ clock'.period = 1 /\ clock'.running /\ clock'.elapsed = 0 /\ clock'.started = now
    BY <2>1 DEF buildInitialClockState
  <2>3. ElapsedAt(clock', now') = 0
    BY <1>1, <2>2 DEF ElapsedAt
  <2>4. status = "scheduled" /\ 1 \in 1..periods
    BY <1>1, <1>3, ClockAssumption DEF Transitions
  <2>5. Stopwatch!KickOff
    BY <1>1, <1>2, <1>3, <2>2, <2>3, <2>4 DEF Stopwatch!KickOff, Stopwatch!StartPeriod, Shown
  <2> QED
    BY <2>5 DEF Stopwatch!StopwatchNext
<1>4. CASE status' = "finished"
  <2>1. clock' = Stopped(clock, now)
    BY <1>4 DEF StatusUpdate
  <2>2. /\ clock'.period = clock.period /\ ~clock'.running /\ clock'.elapsed = clock.elapsed
    BY <1>2, <2>1 DEF Stopped, Clocks
  <2>3. ElapsedAt(clock', now') = clock.elapsed
    BY <2>2 DEF ElapsedAt
  <2>4. /\ ElapsedAt(clock', now') \in 0..ElapsedAt(clock, now)
        /\ ~clock.running => ElapsedAt(clock', now') = ElapsedAt(clock, now)
    BY <1>1, <1>2, <2>3, Elapsed
  <2>5. status = "in_progress"
    BY <1>1, <1>4 DEF Transitions
  <2>6. Stopwatch!FullTime
    BY <1>1, <1>2, <1>4, <2>2, <2>4, <2>5 DEF Stopwatch!FullTime, Shown
  <2> QED
    BY <2>6 DEF Stopwatch!StopwatchNext
<1>5. CASE status' = "cancelled"
  <2>1. status \in {"scheduled", "in_progress"}
    BY <1>1, <1>5 DEF Transitions
  <2>2. Stopwatch!CallOff
    BY <1>1, <1>5, <2>1 DEF Stopwatch!CallOff, Shown
  <2> QED
    BY <2>2 DEF Stopwatch!StopwatchNext
<1> QED
  BY <1>1, <1>3, <1>4, <1>5 DEF Transitions

\* The write of the periods is an edit.
LEMMA EditMovesStopwatch ==
  ASSUME OneAtATime, SerialInv, NEW r \in Requests, MatchUpdate(r)
  PROVE  Stopwatch!StopwatchNext
<1>0. TypeOK
  BY DEF SerialInv, IInv
<1>1. /\ pc[r] = "edit" /\ pc'[r] = "idle" /\ UNCHANGED <<status, clock, now>>
      /\ periods' \in 1..MaxPeriods /\ status \in EDITABLE_STATUSES
  BY <1>0 DEF MatchUpdate, SerialInv, StillSo, TypeOK, Locals
<1>2. InForce = clock /\ InForce' = clock'
  BY <1>0, <1>1, RowInForce
<1>3. Stopwatch!Edit
  BY <1>1, <1>2 DEF Stopwatch!Edit, Shown, EDITABLE_STATUSES
<1> QED
  BY <1>3 DEF Stopwatch!StopwatchNext

\* A command takes effect when it takes the time.
LEMMA ComputeMovesStopwatch ==
  ASSUME OneAtATime, SerialInv, NEW r \in Requests, Compute(r)
  PROVE  Stopwatch!StopwatchNext
<1> DEFINE c == loc[r].row
           d == loc'[r].row
<1>0. TypeOK
  BY DEF SerialInv, IInv
<1>1. /\ pc[r] = "compute" /\ pc'[r] = "write" /\ UNCHANGED <<status, clock, periods, now>>
      /\ status = "in_progress" /\ c = clock /\ loc[r].periods = periods
      /\ clock \in Clocks /\ Coherent(clock) /\ now \in Nat
  BY <1>0 DEF Compute, SerialInv, StillSo, Holding, TypeOK, IInv
<1>2. InForce = clock /\ InForce' = d
  BY <1>0, <1>1, RowInForce
<1>3. \/ d = buildPauseClockState(clock, now)
      \/ d = buildResumeClockState(clock, now)
      \/ HasNextPeriod(clock, periods) /\ d = buildNextPeriodClockState(clock, now)
      \/ \E minute \in Adjustments : d = buildAdjustMinuteClockState(clock, now, minute)
  <2>1. \A e : loc' = [loc EXCEPT ![r].row = e] => loc'[r].row = e
    BY <1>0 DEF TypeOK, Locals
  <2> QED
    BY <1>1, <2>1 DEF Compute
<1>4. /\ clock.period \in 1..MaxPeriods /\ clock.elapsed \in Nat /\ clock.running \in BOOLEAN
  BY <1>1, RowFields
<1> HIDE DEF d
<1>5. CASE d = buildPauseClockState(clock, now)
  <2>1. d.period = clock.period /\ ~d.running /\ d.elapsed = ElapsedAt(clock, now)
    BY <1>1, <1>5, Elapsed DEF buildPauseClockState, Clocks
  <2>2. ElapsedAt(d, now') = ElapsedAt(clock, now)
    BY <2>1 DEF ElapsedAt
  <2>3. Stopwatch!Pause
    BY <1>1, <1>2, <2>1, <2>2 DEF Stopwatch!Pause, Shown
  <2> QED
    BY <2>3 DEF Stopwatch!StopwatchNext
<1>6. CASE d = buildResumeClockState(clock, now)
  <2>1. /\ d.period = clock.period /\ d.running /\ d.elapsed = clock.elapsed
        /\ d.started = IF clock.running THEN clock.started ELSE now
    BY <1>1, <1>6 DEF buildResumeClockState, Clocks
  <2>2. ElapsedAt(d, now') = ElapsedAt(clock, now)
    BY <1>1, <1>4, <2>1 DEF ElapsedAt
  <2>3. Stopwatch!Resume
    BY <1>1, <1>2, <2>1, <2>2 DEF Stopwatch!Resume, Shown
  <2> QED
    BY <2>3 DEF Stopwatch!StopwatchNext
<1>7. CASE HasNextPeriod(clock, periods) /\ d = buildNextPeriodClockState(clock, now)
  <2>1. /\ d.period = clock.period + 1 /\ d.running /\ d.elapsed = 0 /\ d.started = now
    BY <1>7 DEF buildNextPeriodClockState
  <2>2. ElapsedAt(d, now') = 0
    BY <1>1, <2>1 DEF ElapsedAt
  <2>3. clock.period + 1 \in 1..periods
    BY <1>0, <1>4, <1>7 DEF HasNextPeriod, TypeOK
  <2>4. Stopwatch!NextPeriod
    BY <1>1, <1>2, <2>1, <2>2, <2>3 DEF Stopwatch!NextPeriod, Stopwatch!StartPeriod, Shown
  <2> QED
    BY <2>4 DEF Stopwatch!StopwatchNext
<1>8. ASSUME NEW minute \in Adjustments, d = buildAdjustMinuteClockState(clock, now, minute)
      PROVE  Stopwatch!StopwatchNext
  <2> DEFINE clamped == IF minute > MATCH_CLOCK_MINUTE_MAX THEN MATCH_CLOCK_MINUTE_MAX ELSE minute
  <2>1. clamped \in 0..MATCH_CLOCK_MINUTE_MAX
    BY ClockAssumption
  <2>2. /\ d.period = clock.period /\ d.running = clock.running
        /\ d.elapsed = clamped * SecondsPerMinute
        /\ d.running => d.started = now
    BY <1>1, <1>8 DEF buildAdjustMinuteClockState, Clocks
  <2> HIDE DEF clamped
  <2>3. ElapsedAt(d, now') = clamped * SecondsPerMinute
    BY <1>1, <2>2 DEF ElapsedAt
  <2>4. Stopwatch!Adjust
    BY <1>1, <1>2, <2>1, <2>2, <2>3 DEF Stopwatch!Adjust, Shown
  <2> QED
    BY <2>4 DEF Stopwatch!StopwatchNext
<1> QED
  BY <1>3, <1>5, <1>6, <1>7, <1>8

\* Every step is one of the stopwatch or none.
LEMMA StepsAreStopwatchSteps ==
  OneAtATime /\ SerialInv /\ [Next]_vars => [Stopwatch!StopwatchNext]_(Stopwatch!stopwatch)
<1> SUFFICES ASSUME OneAtATime, SerialInv, [Next]_vars
             PROVE  [Stopwatch!StopwatchNext]_(Stopwatch!stopwatch)
  OBVIOUS
<1>1. CASE Tick
  BY <1>1, TickIsASecond DEF SerialInv
<1>2. ASSUME NEW r \in Requests,
             \/ updateMatchStatus(r) \/ StatusUpdate(r) \/ updateMatch(r) \/ MatchUpdate(r)
             \/ applyCommand(r) \/ Compute(r) \/ PersistState(r)
      PROVE  [Stopwatch!StopwatchNext]_(Stopwatch!stopwatch)
  BY <1>2, UnseenSteps, StatusMovesStopwatch, EditMovesStopwatch, ComputeMovesStopwatch
<1>3. CASE UNCHANGED vars
  BY <1>3 DEF vars, Stopwatch!stopwatch, InForce, Shown
<1> QED
  BY <1>1, <1>2, <1>3 DEF Next

\* Commands served one at a time implement the stopwatch: what the columns show moves
\* as it does, however long a command waits between its read, the time and its write.
THEOREM ClockIsAStopwatch == ASSUME OneAtATime PROVE Spec => ImplementsStopwatch
<1>1. Init => Stopwatch!StopwatchInit
  BY DEF Init, Stopwatch!StopwatchInit, Shown
<1>2. Init => SerialInv
  BY InitInvariant DEF Init, SerialInv, StillSo, Holding
<1>3. SerialInv /\ [Next]_vars => SerialInv'
  BY NextInvariant, StillSoNext DEF SerialInv
<1>4. SerialInv /\ [Next]_vars => [Stopwatch!StopwatchNext]_(Stopwatch!stopwatch)
  BY StepsAreStopwatchSteps
<1> QED
  BY <1>1, <1>2, <1>3, <1>4, PTL DEF Spec, ImplementsStopwatch, Stopwatch!StopwatchSpec
=============================================================================
