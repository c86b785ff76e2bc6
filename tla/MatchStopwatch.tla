--------------------------- MODULE MatchStopwatch ---------------------------
(***************************************************************************)
(* What the coach sees as the clock of a match: a stopwatch that ticks     *)
(* while it goes, with a reading per period.                               *)
(***************************************************************************)
EXTENDS Naturals

CONSTANTS MaxPeriods, SecondsPerMinute, MATCH_CLOCK_MINUTE_MAX

VARIABLES
  phase,    \* the status of the match
  periods,  \* how many it is played in
  period,   \* the period being played, 0 when no clock is shown
  reading,  \* seconds played in the period
  going     \* the stopwatch is going

stopwatch == <<phase, periods, period, reading, going>>

StopwatchInit ==
  /\ phase = "scheduled"
  /\ periods \in 1..MaxPeriods
  /\ period = 0
  /\ reading = 0
  /\ going = FALSE

Second ==
  /\ going
  /\ reading' = reading + 1
  /\ UNCHANGED <<phase, periods, period, going>>

StartPeriod(n) ==
  /\ n \in 1..periods
  /\ period' = n
  /\ reading' = 0
  /\ going' = TRUE

KickOff ==
  /\ phase = "scheduled"
  /\ phase' = "in_progress"
  /\ StartPeriod(1)
  /\ UNCHANGED periods

Pause ==
  /\ phase = "in_progress"
  /\ going' = FALSE
  /\ UNCHANGED <<phase, periods, period, reading>>

Resume ==
  /\ phase = "in_progress"
  /\ going' = TRUE
  /\ UNCHANGED <<phase, periods, period, reading>>

NextPeriod ==
  /\ phase = "in_progress"
  /\ StartPeriod(period + 1)
  /\ UNCHANGED <<phase, periods>>

Adjust ==
  /\ phase = "in_progress"
  /\ \E minute \in 0..MATCH_CLOCK_MINUTE_MAX : reading' = minute * SecondsPerMinute
  /\ UNCHANGED <<phase, periods, period, going>>

\* Full time stops it; the seconds since it last started may be lost.
FullTime ==
  /\ phase = "in_progress"
  /\ phase' = "finished"
  /\ going' = FALSE
  /\ reading' \in 0..reading
  /\ ~going => reading' = reading
  /\ UNCHANGED <<periods, period>>

CallOff ==
  /\ phase \in {"scheduled", "in_progress"}
  /\ phase' = "cancelled"
  /\ period' = 0
  /\ reading' = 0
  /\ going' = FALSE
  /\ UNCHANGED periods

\* The periods may be fewer than the one being played by then.
Edit ==
  /\ phase \in {"scheduled", "in_progress"}
  /\ periods' \in 1..MaxPeriods
  /\ UNCHANGED <<phase, period, reading, going>>

StopwatchNext ==
  \/ Second \/ KickOff \/ Pause \/ Resume \/ NextPeriod \/ Adjust \/ FullTime \/ CallOff
  \/ Edit

StopwatchSpec == StopwatchInit /\ [][StopwatchNext]_stopwatch
=============================================================================
