------------------------------- MODULE Schedules -------------------------------
(***************************************************************************)
(* When a reminder runs: a time on the clock of a zone is turned into an     *)
(* instant (src/store/cron-schedule.ts), and every poll that finds a daily   *)
(* reminder due computes its next instant (src/store/cron-store.ts).        *)
(*                                                                         *)
(* Instants are counted in half hours on a line, a day has DayLength of      *)
(* them.  A zone changes its offset once.  A formatter asked for no 12-hour  *)
(* clock prints the first hour of a day as 0 or as 24, depending on the      *)
(* engine: midnight is what it adds.  Bounds: the zones and MaxNow.          *)
(***************************************************************************)
EXTENDS Integers

CONSTANTS
    Zones,       \* [before, after: offsets, at: the instant of the change]
    DayLength,
    MaxNow

VARIABLES zone, midnight, cron, now

scheduleVars == <<zone, midnight, cron, now>>

HourLength == 2
NoCron == [status |-> "none"]

Init ==
    /\ zone \in Zones
    /\ midnight \in {0, DayLength}
    /\ cron = NoCron
    /\ now = DayLength

clock(t) == t + (IF t < zone.at THEN zone.before ELSE zone.after)
dayOf(t) == clock(t) \div DayLength

getZonedDateTimeParts(t) ==
    LET time == clock(t) % DayLength
    IN  [day |-> dayOf(t), time |-> IF time < HourLength THEN time + midnight ELSE time]

getTimeZoneOffset(t) ==
    LET parts == getZonedDateTimeParts(t)
    IN  parts.day * DayLength + parts.time - t

Mut_zonedLocalToUtc(day, time) ==
    LET local == day * DayLength + time
    IN  local - getTimeZoneOffset(local)

\* The local time taken for an instant is corrected four times by the offset at the last guess.
zonedLocalToUtc(day, time) ==
    LET local == day * DayLength + time
        corrected(guess) == local - getTimeZoneOffset(guess)
    IN  corrected(corrected(corrected(corrected(local))))

computeDailyNextRunAt(time, from) ==
    LET today == getZonedDateTimeParts(from).day
    IN  IF zonedLocalToUtc(today, time) > from THEN zonedLocalToUtc(today, time)
                                               ELSE zonedLocalToUtc(today + 1, time)

computeCronNextRunAt(kind, day, time, from) ==
    IF kind = "once" THEN zonedLocalToUtc(day, time) ELSE computeDailyNextRunAt(time, from)

\* The hour of a daily reminder is checked; the time of a single one may lie
\* past the end of its day, and its instant in the past.
createSessionCron(kind, day, time) ==
    /\ cron = NoCron
    /\ kind = "daily" => time < DayLength
    /\ cron' = [status |-> "active", kind |-> kind, day |-> day, time |-> time,
                from |-> IF kind = "once" THEN 0 ELSE now,
                next |-> computeCronNextRunAt(kind, day, time, now), ran |-> 0]
    /\ UNCHANGED <<zone, midnight, now>>

Due == cron # NoCron /\ cron.status = "active" /\ cron.next <= now

completeCron ==
    /\ Due /\ cron.kind = "once"
    /\ cron' = [cron EXCEPT !.status = "completed", !.ran = cron.next]
    /\ UNCHANGED <<zone, midnight, now>>

\* The next run is computed from a second after the poll: strictly after now.
advanceDailyCron ==
    /\ Due /\ cron.kind = "daily"
    /\ cron' = [cron EXCEPT !.from = now, !.ran = cron.next,
                            !.next = computeCronNextRunAt("daily", 0, cron.time, now)]
    /\ UNCHANGED <<zone, midnight, now>>

\* The daemon may be down while time passes.
Tick ==
    /\ now < MaxNow
    /\ now' = now + 1
    /\ UNCHANGED <<zone, midnight, cron>>

Next ==
    \/ \E kind \in {"once", "daily"}, day \in 1..2, time \in 0..(DayLength + 1) : createSessionCron(kind, day, time)
    \/ completeCron
    \/ advanceDailyCron
    \/ Tick

Spec == Init /\ [][Next]_scheduleVars

=============================================================================
