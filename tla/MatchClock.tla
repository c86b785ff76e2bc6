----------------------------- MODULE MatchClock -----------------------------
(***************************************************************************)
(* The clock of a match: five columns of its row, from which the time      *)
(* played is computed, and the requests that write them.                   *)
(*                                                                         *)
(* A clock command reads the row, takes the time, works out the new        *)
(* columns and writes them all back under no condition; kick-off and full  *)
(* time write them as well.  Times are whole seconds, what the columns     *)
(* keep; a minute has SecondsPerMinute of them.  How many periods there    *)
(* are may be edited as well, before the match and during it.  The row in  *)
(* the audit log that ends each request is left out.                       *)
(***************************************************************************)
EXTENDS Integers

CONSTANTS
  Requests,          \* slots for requests being served at the same time
  MaxPeriods,        \* the most periods a match may have
  SecondsPerMinute,
  MATCH_CLOCK_MINUTE_MAX,
  Adjustments,       \* minutes the coach may set the clock to
  MaxTime,           \* bound: the last second
  Null

ASSUME ClockAssumption ==
  /\ MaxPeriods \in Nat \ {0}
  /\ SecondsPerMinute \in Nat \ {0}
  /\ MATCH_CLOCK_MINUTE_MAX \in Nat
  /\ Adjustments \subseteq Nat
  /\ MaxTime \in Nat
  /\ Null \notin Int

VARIABLES
  status,   \* matches.status
  clock,    \* the clock_* columns
  periods,  \* periods of the match (effective configuration)
  now,      \* the time
  pc,       \* pc[r]: the next statement of the request in slot r
  loc,      \* loc[r]: the row read, or to be written, with its periods; or the new status
  kickoff,  \* history: when the match first kicked off
  credit    \* history: the most seconds any adjustment has set

vars == <<status, clock, periods, now, pc, loc, kickoff, credit>>
history == <<kickoff, credit>>

MatchStatus == {"scheduled", "in_progress", "finished", "cancelled"}
Transitions == { <<"scheduled", "in_progress">>, <<"scheduled", "cancelled">>,
                 <<"in_progress", "finished">>, <<"in_progress", "cancelled">> }
EDITABLE_STATUSES == {"scheduled", "in_progress"}

NewClock == [period |-> 1, elapsed |-> 0, running |-> FALSE, started |-> Null, paused |-> Null]
NoLocals == [row |-> NewClock, periods |-> 1, target |-> "scheduled"]

\* computeElapsedSecondsInPeriod
ElapsedAt(c, t) ==
  IF c.running /\ c.started # Null /\ t > c.started THEN c.elapsed + (t - c.started)
                                                   ELSE c.elapsed

-----------------------------------------------------------------------------
(* The state builders, with the pause time applyCommand sets beside them.   *)

buildInitialClockState(t) ==
  [period |-> 1, elapsed |-> 0, running |-> TRUE, started |-> t, paused |-> Null]

\* Mutant: pausing keeps the seconds accumulated before the running stretch.
MutPauseForgetsStretch(c, t) ==
  IF c.running THEN [c EXCEPT !.running = FALSE, !.started = Null, !.paused = t]
               ELSE [c EXCEPT !.paused = t]

buildPauseClockState(c, t) ==
  IF c.running
    THEN [c EXCEPT !.running = FALSE, !.elapsed = ElapsedAt(c, t),
                   !.started = Null, !.paused = t]
    ELSE [c EXCEPT !.paused = t]

\* Mutant: resuming a running clock books the stretch and counts it again.
MutResumeCountsTwice(c, t) ==
  IF c.running THEN [c EXCEPT !.elapsed = ElapsedAt(c, t), !.paused = Null]
               ELSE [c EXCEPT !.running = TRUE, !.started = t, !.paused = Null]

buildResumeClockState(c, t) ==
  IF c.running THEN [c EXCEPT !.paused = Null]
               ELSE [c EXCEPT !.running = TRUE, !.started = t, !.paused = Null]

\* The last period has no next one.
HasNextPeriod(c, periodsCount) == c.period < periodsCount

buildNextPeriodClockState(c, t) ==
  [period |-> c.period + 1, elapsed |-> 0, running |-> TRUE, started |-> t, paused |-> Null]

buildAdjustMinuteClockState(c, t, minute) ==
  LET clampedMinute == IF minute > MATCH_CLOCK_MINUTE_MAX THEN MATCH_CLOCK_MINUTE_MAX ELSE minute
  IN [c EXCEPT !.elapsed = clampedMinute * SecondsPerMinute,
               !.started = IF c.running THEN t ELSE Null,
               !.paused  = IF c.running THEN Null ELSE t]

-----------------------------------------------------------------------------
Init ==
  /\ status = "scheduled"
  /\ clock = NewClock
  /\ periods \in 1..MaxPeriods
  /\ now = 0
  /\ pc = [r \in Requests |-> "idle"]
  /\ loc = [r \in Requests |-> NoLocals]
  /\ kickoff = Null
  /\ credit = 0

Tick ==
  /\ now < MaxTime
  /\ now' = now + 1
  /\ UNCHANGED <<status, clock, periods, pc, loc, history>>

\* updateMatchStatus reads the row and checks the transition.
updateMatchStatus(r) ==
  /\ pc[r] = "idle"
  /\ \E next \in MatchStatus :
       /\ <<status, next>> \in Transitions
       /\ loc' = [loc EXCEPT ![r].target = next]
  /\ pc' = [pc EXCEPT ![r] = "status"]
  /\ UNCHANGED <<status, clock, periods, now, history>>

\* The columns at full time.  MySQL evaluates the assignments of an UPDATE from
\* left to right: clock_running is 0 by the time the CASE after it looks at it,
\* so that clock_elapsed_seconds keeps its value.
Stopped(c, t) == [c EXCEPT !.running = FALSE, !.started = Null, !.paused = t]

\* updateStatus.
StatusUpdate(r) ==
  /\ pc[r] = "status"
  /\ status' = loc[r].target
  /\ clock' = CASE status' = "finished"    -> Stopped(clock, now)
                [] status' = "in_progress" -> buildInitialClockState(now)
                [] OTHER                   -> clock
  /\ kickoff' = IF status' = "in_progress" /\ kickoff = Null THEN now ELSE kickoff
  /\ pc' = [pc EXCEPT ![r] = "idle"]
  /\ loc' = [loc EXCEPT ![r] = NoLocals]
  /\ UNCHANGED <<periods, now, credit>>

\* updateMatch reads the row of a match that is not over ...
updateMatch(r) ==
  /\ pc[r] = "idle"
  /\ status \in EDITABLE_STATUSES
  /\ \E n \in 1..MaxPeriods : loc' = [loc EXCEPT ![r].periods = n]
  /\ pc' = [pc EXCEPT ![r] = "edit"]
  /\ UNCHANGED <<status, clock, periods, now, history>>

\* ... and writes what was edited, whatever has become of the match.
MatchUpdate(r) ==
  /\ pc[r] = "edit"
  /\ periods' = loc[r].periods
  /\ pc' = [pc EXCEPT ![r] = "idle"]
  /\ loc' = [loc EXCEPT ![r] = NoLocals]
  /\ UNCHANGED <<status, clock, now, history>>

\* applyCommand reads the row of a match in progress ...
applyCommand(r) ==
  /\ pc[r] = "idle"
  /\ status = "in_progress"
  /\ loc' = [loc EXCEPT ![r].row = clock, ![r].periods = periods]
  /\ pc' = [pc EXCEPT ![r] = "compute"]
  /\ UNCHANGED <<status, clock, periods, now, history>>

\* ... takes the time once it knows the user is its coach and works out the new
\* columns from the row it read ...
Compute(r) ==
  LET row == loc[r].row
      Becomes(c) == loc' = [loc EXCEPT ![r].row = c]
  IN
  /\ pc[r] = "compute"
  /\ \/ Becomes(buildPauseClockState(row, now)) /\ UNCHANGED credit
     \/ Becomes(buildResumeClockState(row, now)) /\ UNCHANGED credit
     \/ /\ HasNextPeriod(row, loc[r].periods)
        /\ Becomes(buildNextPeriodClockState(row, now))
        /\ UNCHANGED credit
     \/ \E minute \in Adjustments :
          LET adjusted == buildAdjustMinuteClockState(row, now, minute) IN
          /\ Becomes(adjusted)
          /\ credit' = IF adjusted.elapsed > credit THEN adjusted.elapsed ELSE credit
  /\ pc' = [pc EXCEPT ![r] = "write"]
  /\ UNCHANGED <<status, clock, periods, now, kickoff>>

\* ... and writes them, whatever the row holds by now (updateClockState).
PersistState(r) ==
  /\ pc[r] = "write"
  /\ clock' = loc[r].row
  /\ pc' = [pc EXCEPT ![r] = "idle"]
  /\ loc' = [loc EXCEPT ![r] = NoLocals]
  /\ UNCHANGED <<status, periods, now, history>>

Next ==
  \/ Tick
  \/ \E r \in Requests :
       \/ updateMatchStatus(r) \/ StatusUpdate(r)
       \/ updateMatch(r) \/ MatchUpdate(r)
       \/ applyCommand(r) \/ Compute(r) \/ PersistState(r)

Spec == Init /\ [][Next]_vars

-----------------------------------------------------------------------------
(* What has to hold.                                                        *)

Clocks == [period : 1..MaxPeriods, elapsed : Nat, running : BOOLEAN,
           started : Nat \cup {Null}, paused : Nat \cup {Null}]

Locals == [row : Clocks, periods : 1..MaxPeriods, target : MatchStatus]

\* Type correctness of every variable.
TypeOK ==
  /\ status \in MatchStatus
  /\ clock \in Clocks
  /\ periods \in 1..MaxPeriods
  /\ now \in Nat
  /\ pc \in [Requests -> {"idle", "status", "edit", "compute", "write"}]
  /\ loc \in [Requests -> Locals]
  /\ kickoff \in Nat \cup {Null}
  /\ credit \in Nat

Coherent(c) ==
  /\ c.running => c.started # Null /\ c.paused = Null
  /\ ~c.running => c.started = Null

\* However the writes of concurrent commands, kick-off and full time fall, the
\* columns make sense together: a running clock has a start and no pause, a
\* stopped one has no start.
ColumnsAgree == Coherent(clock)

\* No interleaving invents time: the clock never shows more than has passed
\* since kick-off on top of the highest minute the coach has set it to.
NoTimeInvented ==
  IF kickoff = Null THEN clock = NewClock
                    ELSE ElapsedAt(clock, now) <= credit + (now - kickoff)

\* The clock is only controlled while the match is in progress: none goes on
\* in a match that is over.  Commands served one at a time keep it (it follows
\* from ImplementsStopwatch); two at once do not.
StoppedAfterTheMatch == status = "finished" => ~clock.running

\* Full time keeps the seconds of the stretch that was running.
FullTimeKeepsTheTime ==
  [][status' = "finished" /\ status # "finished" =>
       ElapsedAt(clock', now) = ElapsedAt(clock, now)]_<<status, clock>>

-----------------------------------------------------------------------------
(* The stopwatch that the columns stand for.  A command takes effect when   *)
(* it takes the time; the clock shows nothing before the match or once it   *)
(* is cancelled (buildClockDtoFromRow).                                     *)

InForce == LET writers == {r \in Requests : pc[r] = "write"}
           IN IF writers = {} THEN clock ELSE loc[CHOOSE r \in writers : TRUE].row
Shown == status \in {"in_progress", "finished"}

Stopwatch == INSTANCE MatchStopwatch WITH
  phase   <- status,
  periods <- periods,
  period  <- IF Shown THEN InForce.period ELSE 0,
  reading <- IF Shown THEN ElapsedAt(InForce, now) ELSE 0,
  going   <- Shown /\ InForce.running

\* Commands served one at a time move the clock as they move a stopwatch,
\* however long each waits between reading, taking the time and writing.
ImplementsStopwatch == Stopwatch!StopwatchSpec
=============================================================================
