--------------------------- MODULE LibraryDataProofs ---------------------------
(***************************************************************************)
(* Theorems about the parts of Library that compute: local times and        *)
(* instants, what became of the actions of a turn, which messages are         *)
(* remembered.                                                               *)
(***************************************************************************)
EXTENDS LibraryProps, SequenceTheorems, FiniteSetTheorems, TLAPS

-----------------------------------------------------------------------------
(* Schedules: arithmetic of days. *)

\* An instant is so many days and a rest of less than a day.
LEMMA Division ==
  ASSUME NEW t \in Int
  PROVE  /\ t \div DayLength \in Int /\ t % DayLength \in Int
         /\ t = (t \div DayLength) * DayLength + (t % DayLength)
         /\ 0 <= t % DayLength /\ t % DayLength < DayLength
BY ScheduleAssumption

\* The days before another day are at least a day earlier.
LEMMA EarlierDay ==
  ASSUME NEW i \in Int, NEW j \in Int, i < j
  PROVE  i * DayLength + DayLength <= j * DayLength
<1>1. (j - i - 1) * DayLength >= 0  BY ScheduleAssumption
<1>2. (j - i - 1) * DayLength = j * DayLength - i * DayLength - DayLength  BY ScheduleAssumption
<1>3. i * DayLength \in Int /\ j * DayLength \in Int  BY ScheduleAssumption
<1> QED BY <1>1, <1>2, <1>3, ScheduleAssumption

\* Days and rest are found again.
LEMMA Quotient ==
  ASSUME NEW q \in Int, NEW r \in Int, 0 <= r, r < DayLength
  PROVE  /\ (q * DayLength + r) \div DayLength = q
         /\ (q * DayLength + r) % DayLength = r
<1> DEFINE t == q * DayLength + r
<1>1. t \in Int /\ q * DayLength \in Int  BY ScheduleAssumption
<1>2. t = q * DayLength + r  OBVIOUS
<1> HIDE DEF t
<1>3. /\ t \div DayLength \in Int /\ t % DayLength \in Int
      /\ t = (t \div DayLength) * DayLength + (t % DayLength)
      /\ 0 <= t % DayLength /\ t % DayLength < DayLength
  BY <1>1, Division
<1>4. (t \div DayLength) * DayLength \in Int  BY <1>3, ScheduleAssumption
<1>5. t \div DayLength = q
  <2>1. CASE t \div DayLength < q  BY <2>1, <1>1, <1>2, <1>3, <1>4, EarlierDay, ScheduleAssumption
  <2>2. CASE t \div DayLength > q  BY <2>2, <1>1, <1>2, <1>3, <1>4, EarlierDay, ScheduleAssumption
  <2> QED BY <2>1, <2>2, <1>3
<1>6. t % DayLength = r  BY <1>1, <1>2, <1>3, <1>4, <1>5, ScheduleAssumption
<1> QED BY <1>5, <1>6 DEF t

Local(d, time) == d * DayLength + time
Change == zone.after - zone.before

ZoneTyped == zone \in Zones /\ midnight \in {0, DayLength}

LEMMA ZoneFacts ==
  ASSUME ZoneTyped
  PROVE  /\ zone.at \in Int /\ zone.before \in Int /\ zone.after \in Int /\ Change \in Int
         /\ -DayLength < zone.before /\ zone.before < DayLength
         /\ -DayLength < zone.after /\ zone.after < DayLength
         /\ 3 * Change < DayLength /\ -3 * Change < DayLength
         /\ DayLength \in Nat /\ DayLength > 0
         /\ \A t \in Int : S!clock(t) = (IF t < zone.at THEN t + zone.before ELSE t + zone.after) /\ S!clock(t) \in Int
<1>1. /\ zone.at \in Int /\ zone.before \in (1 - DayLength)..(DayLength - 1) /\ zone.after \in (1 - DayLength)..(DayLength - 1)
      /\ 3 * (zone.after - zone.before) < DayLength /\ 3 * (zone.before - zone.after) < DayLength
  BY ScheduleAssumption DEF ZoneTyped
<1> QED BY <1>1, ScheduleAssumption DEF Change, S!clock

\* What the offset comes to.
LEMMA Offset ==
  ASSUME ZoneTyped, NEW t \in Int
  PROVE  S!getTimeZoneOffset(t) =
            (IF t < zone.at THEN zone.before ELSE zone.after)
            + (IF S!clock(t) % DayLength < S!HourLength THEN midnight ELSE 0)
<1> DEFINE c == S!clock(t)
<1>1. c \in Int /\ c = (IF t < zone.at THEN t + zone.before ELSE t + zone.after) /\ zone.before \in Int /\ zone.after \in Int
  BY ZoneFacts
<1>2. /\ c \div DayLength \in Int /\ c % DayLength \in Int
      /\ c = (c \div DayLength) * DayLength + (c % DayLength)
  BY <1>1, Division
<1>3. midnight \in Int /\ (c \div DayLength) * DayLength \in Int  BY <1>2, ScheduleAssumption DEF ZoneTyped
<1>4. S!getTimeZoneOffset(t) = (c \div DayLength) * DayLength
                                + (IF c % DayLength < S!HourLength THEN (c % DayLength) + midnight ELSE c % DayLength) - t
  BY DEF S!getTimeZoneOffset, S!getZonedDateTimeParts, S!dayOf
<1> HIDE DEF c
<1>5. S!getTimeZoneOffset(t) = c + (IF c % DayLength < S!HourLength THEN midnight ELSE 0) - t
  <2>1. CASE c % DayLength < S!HourLength  BY <1>2, <1>3, <1>4, <2>1
  <2>2. CASE ~(c % DayLength < S!HourLength)  BY <1>2, <1>3, <1>4, <2>2
  <2> QED BY <2>1, <2>2
<1>6. S!getTimeZoneOffset(t) = (IF t < zone.at THEN zone.before ELSE zone.after)
                                + (IF c % DayLength < S!HourLength THEN midnight ELSE 0)
  <2>1. CASE c % DayLength < S!HourLength  BY <1>1, <1>3, <1>5, <2>1
  <2>2. CASE ~(c % DayLength < S!HourLength)  BY <1>1, <1>3, <1>5, <2>2
  <2> QED BY <2>1, <2>2
<1> QED BY <1>6 DEF c

\* Where the four attempts end, when midnight is printed as 0: at the instant that shows the
\* local time, at the first guess if two do, and if none does an hour off.
LEMMA Attempts ==
  ASSUME ZoneTyped, midnight = 0, NEW d \in Int, NEW time \in Int
  PROVE  S!zonedLocalToUtc(d, time) =
            (IF Local(d, time) < zone.at
             THEN (IF Local(d, time) - zone.before < zone.at THEN Local(d, time) - zone.before ELSE Local(d, time) - zone.after)
             ELSE (IF Local(d, time) - zone.after >= zone.at THEN Local(d, time) - zone.after ELSE Local(d, time) - zone.before))
<1> DEFINE L == Local(d, time)
           corrected(g) == L - S!getTimeZoneOffset(g)
<1>1. L \in Int  BY ScheduleAssumption DEF Local
<1>2. zone.at \in Int /\ zone.before \in Int /\ zone.after \in Int  BY ZoneFacts
<1>3. S!zonedLocalToUtc(d, time) = corrected(corrected(corrected(corrected(L))))  BY DEF S!zonedLocalToUtc, Local
<1>4. \A g \in Int : corrected(g) = (IF g < zone.at THEN L - zone.before ELSE L - zone.after)  BY <1>1, <1>2, Offset
<1> HIDE DEF L, corrected
<1>5. \A g \in Int : corrected(g) \in Int  BY <1>1, <1>2, <1>4
<1>6. S!zonedLocalToUtc(d, time) =
            (IF L < zone.at
             THEN (IF L - zone.before < zone.at THEN L - zone.before ELSE L - zone.after)
             ELSE (IF L - zone.after >= zone.at THEN L - zone.after ELSE L - zone.before))
  BY <1>1, <1>2, <1>3, <1>4, <1>5
<1> QED BY <1>6 DEF L

\* Where midnight is printed as 24, likewise for a zone that keeps its offset and a time after
\* the first hour.
LEMMA AttemptsFrom24 ==
  ASSUME ZoneTyped, midnight = DayLength, zone.before = zone.after,
         NEW d \in Int, NEW time \in Int, ~(time % DayLength < S!HourLength)
  PROVE  S!zonedLocalToUtc(d, time) = Local(d, time) - zone.after
<1> DEFINE L == Local(d, time)
           corrected(g) == L - S!getTimeZoneOffset(g)
<1>1. L \in Int  BY ScheduleAssumption DEF Local
<1>2. zone.after \in Int /\ DayLength \in Int /\ \A t \in Int : S!clock(t) = t + zone.after  BY ZoneFacts
<1>3. S!zonedLocalToUtc(d, time) = corrected(corrected(corrected(corrected(L))))  BY DEF S!zonedLocalToUtc, Local
<1>4. \A e \in Int : Local(e, time) % DayLength = time % DayLength
  <2> TAKE e \in Int
  <2>1. time \div DayLength \in Int /\ time = (time \div DayLength) * DayLength + (time % DayLength)
    BY Division
  <2>2. Local(e, time) = (e + (time \div DayLength)) * DayLength + (time % DayLength)
    BY <2>1, Division, ScheduleAssumption DEF Local
  <2> QED BY <2>1, <2>2, Quotient, Division
<1>5. L - DayLength = Local(d - 1, time)  BY ScheduleAssumption DEF Local
<1>6. corrected(L - zone.after) = L - zone.after
  <2>1. S!clock(L - zone.after) = L  BY <1>1, <1>2
  <2> QED BY <1>1, <1>2, <1>4, <2>1, Offset
<1>7. corrected(L - zone.after - DayLength) = L - zone.after
  <2>1. S!clock(L - zone.after - DayLength) = L - DayLength  BY <1>1, <1>2
  <2>2. ~((L - DayLength) % DayLength < S!HourLength)  BY <1>4, <1>5
  <2> QED BY <1>1, <1>2, <2>1, <2>2, Offset
<1>8. corrected(L) \in {L - zone.after, L - zone.after - DayLength}
  <2>1. corrected(L) = L - (zone.after + (IF S!clock(L) % DayLength < S!HourLength THEN DayLength ELSE 0))
    BY <1>1, <1>2, Offset
  <2> HIDE DEF L, corrected
  <2> QED BY <1>1, <1>2, <2>1
<1> HIDE DEF L, corrected
<1>9. S!zonedLocalToUtc(d, time) = L - zone.after  BY <1>3, <1>6, <1>7, <1>8
<1> QED BY <1>9 DEF L

Instants(d) == (d - 2) * DayLength..(d + 2) * DayLength
Shows(d, time) == {t \in Instants(d) : S!clock(t) = d * DayLength + time}
Runs(d, time) ==
    IF Shows(d, time) # {} THEN Shows(d, time)
    ELSE {t \in Instants(d) : S!clock(t) - (d * DayLength + time) \in {Change, -Change}}

\* The schedules a formatter that prints midnight as 24 does not get wrong.
Clear(time) == midnight = 0 \/ (Change = 0 /\ ~(time % DayLength < S!HourLength))

LEMMA Found ==
  ASSUME ZoneTyped, NEW d \in Int, NEW time \in Int, Clear(time)
  PROVE  S!zonedLocalToUtc(d, time) =
            (IF Local(d, time) < zone.at
             THEN (IF Local(d, time) - zone.before < zone.at THEN Local(d, time) - zone.before ELSE Local(d, time) - zone.after)
             ELSE (IF Local(d, time) - zone.after >= zone.at THEN Local(d, time) - zone.after ELSE Local(d, time) - zone.before))
<1>1. CASE midnight = 0  BY <1>1, Attempts
<1>2. CASE midnight # 0
  <2>1. Change = 0 /\ ~(time % DayLength < S!HourLength) /\ midnight = DayLength
    BY <1>2 DEF Clear, ZoneTyped
  <2>2. zone.before = zone.after  BY <2>1, ZoneFacts DEF Change
  <2>3. S!zonedLocalToUtc(d, time) = Local(d, time) - zone.after  BY <2>1, <2>2, AttemptsFrom24
  <2> QED BY <2>2, <2>3
<1> QED BY <1>1, <1>2

LEMMA WithinChange ==
  ASSUME NEW d, NEW time, NEW t \in Runs(d, time)
  PROVE  S!clock(t) = Local(d, time) \/ S!clock(t) - Local(d, time) \in {Change, -Change}
BY DEF Runs, Shows, Local

\* (cron-schedule.ts:71) The instant found is one at which the reminder of that day should run.
LEMMA FoundInRuns ==
  ASSUME ZoneTyped, NEW d \in Int, NEW time \in 0..(DayLength + 1), Clear(time)
  PROVE  /\ S!zonedLocalToUtc(d, time) \in Runs(d, time)
         /\ S!zonedLocalToUtc(d, time) \in Int
<1> DEFINE L == Local(d, time)
           z == S!zonedLocalToUtc(d, time)
<1>1. L \in Int /\ time \in Int /\ d * DayLength \in Int /\ L = d * DayLength + time
  BY ScheduleAssumption DEF Local
<1>2. /\ zone.at \in Int /\ zone.before \in Int /\ zone.after \in Int /\ Change = zone.after - zone.before
      /\ -DayLength < zone.before /\ zone.before < DayLength
      /\ -DayLength < zone.after /\ zone.after < DayLength
      /\ DayLength \in Nat
      /\ \A t \in Int : S!clock(t) = (IF t < zone.at THEN t + zone.before ELSE t + zone.after)
  BY ZoneFacts DEF Change
<1>3. /\ (d - 2) * DayLength = d * DayLength - 2 * DayLength
      /\ (d + 2) * DayLength = d * DayLength + 2 * DayLength
  BY ScheduleAssumption
<1>4. \A o \in {zone.before, zone.after} : L - o \in Instants(d) /\ L - o \in Int
  BY <1>1, <1>2, <1>3 DEF Instants
<1>5. z = (IF L < zone.at
           THEN (IF L - zone.before < zone.at THEN L - zone.before ELSE L - zone.after)
           ELSE (IF L - zone.after >= zone.at THEN L - zone.after ELSE L - zone.before))
  BY <1>1, Found
<1> HIDE DEF L, z
<1>6. z \in {L - zone.before, L - zone.after} /\ z \in Instants(d) /\ z \in Int  BY <1>4, <1>5
<1>7. CASE S!clock(z) = L
  <2>1. z \in Shows(d, time)  BY <1>1, <1>6, <1>7 DEF Shows
  <2> QED BY <1>6, <2>1 DEF Runs, z
<1>8. CASE S!clock(z) # L
  <2>1. L - zone.before >= zone.at /\ L - zone.after < zone.at
    BY <1>1, <1>2, <1>5, <1>6, <1>8
  <2>2. \A t \in Int : S!clock(t) # L  BY <1>1, <1>2, <2>1
  <2>3. Instants(d) \subseteq Int  BY <1>1, <1>2, <1>3 DEF Instants
  <2>4. Shows(d, time) = {}  BY <1>1, <2>2, <2>3 DEF Shows
  <2>5. S!clock(z) - L \in {Change, -Change}  BY <1>1, <1>2, <1>6, <1>8
  <2> QED BY <1>1, <1>6, <2>4, <2>5 DEF Runs, z
<1> QED BY <1>7, <1>8

\* The times whose instant lies on the day before.
Past(time, start) == (time - start) % DayLength
Skipped(time) ==
    time < Change /\ Past(time, zone.at + zone.before) < Change /\ Past(time, zone.at + zone.before) < -zone.before
Repeated(time) ==
    time < Past(time, zone.at + zone.after) /\ Past(time, zone.at + zone.after) < -Change
        /\ Past(time, zone.at + zone.after) < -zone.after

LEMMA PastFacts ==
  ASSUME NEW d \in Int, NEW time \in Int, NEW start \in Int, 0 <= Local(d, time) - start, Local(d, time) - start < DayLength
  PROVE  Past(time, start) = Local(d, time) - start
<1> DEFINE r == Local(d, time) - start
<1>1. r \in Int /\ -d \in Int /\ time - start = (-d) * DayLength + r  BY ScheduleAssumption DEF Local
<1> HIDE DEF r
<1>2. 0 <= r /\ r < DayLength  BY DEF r
<1>3. (time - start) % DayLength = r  BY <1>1, <1>2, Quotient
<1> QED BY <1>3 DEF Past, r

\* (cron-schedule.ts:121) The instant found for tomorrow is still to come.
LEMMA TomorrowIsLater ==
  ASSUME ZoneTyped, NEW from \in Int, NEW time \in 0..(DayLength - 1), Clear(time), ~Skipped(time), ~Repeated(time)
  PROVE  S!zonedLocalToUtc(S!dayOf(from) + 1, time) > from
<1> DEFINE q == S!dayOf(from)
           N == (q + 1) * DayLength
           L == Local(q + 1, time)
           z == S!zonedLocalToUtc(q + 1, time)
<1>1. /\ zone.at \in Int /\ zone.before \in Int /\ zone.after \in Int /\ Change = zone.after - zone.before
      /\ DayLength \in Nat /\ 3 * Change < DayLength /\ -3 * Change < DayLength
      /\ S!clock(from) = (IF from < zone.at THEN from + zone.before ELSE from + zone.after)
      /\ S!clock(from) \in Int
  BY ZoneFacts DEF Change
<1>2. q \in Int /\ N \in Int /\ S!clock(from) < N
  <2>1. /\ q \in Int /\ S!clock(from) % DayLength \in Int /\ S!clock(from) % DayLength < DayLength
        /\ S!clock(from) = q * DayLength + (S!clock(from) % DayLength)
    BY <1>1, Division DEF S!dayOf
  <2> HIDE DEF q
  <2>2. q * DayLength \in Int /\ N = q * DayLength + DayLength  BY <1>1, <2>1
  <2> QED BY <1>1, <2>1, <2>2
<1>3. time \in Int /\ 0 <= time /\ time < DayLength /\ L \in Int /\ L = N + time
  BY <1>1, <1>2 DEF Local
<1>4. z = (IF L < zone.at
           THEN (IF L - zone.before < zone.at THEN L - zone.before ELSE L - zone.after)
           ELSE (IF L - zone.after >= zone.at THEN L - zone.after ELSE L - zone.before))
  BY <1>2, <1>3, Found
<1>5. ~ /\ L - zone.before >= zone.at /\ L - zone.after < zone.at /\ L < zone.at /\ time < Change
  <2> SUFFICES ASSUME L - zone.before >= zone.at, L - zone.after < zone.at, L < zone.at, time < Change
               PROVE  FALSE
    OBVIOUS
  <2> HIDE DEF N
  <2>1. Past(time, zone.at + zone.before) = L - (zone.at + zone.before)
    BY <1>1, <1>2, <1>3, PastFacts
  <2> HIDE DEF L
  <2> QED BY <1>1, <1>3, <2>1 DEF Skipped
<1>6. ~ /\ zone.at + zone.after < N /\ L - zone.before < zone.at /\ L < zone.at
  <2> SUFFICES ASSUME zone.at + zone.after < N, L - zone.before < zone.at, L < zone.at
               PROVE  FALSE
    OBVIOUS
  <2>1. L - (zone.at + zone.after) > time  BY <1>1, <1>2, <1>3
  <2>2. L - (zone.at + zone.after) < -Change  BY <1>1, <1>2, <1>3
  <2>3. Past(time, zone.at + zone.after) = L - (zone.at + zone.after)
    <3> HIDE DEF N
    <3>1. q + 1 \in Int /\ zone.at + zone.after \in Int  BY <1>1, <1>2
    <3>2. 0 <= L - (zone.at + zone.after) /\ L - (zone.at + zone.after) < DayLength
      <4> HIDE DEF L, q
      <4> QED BY <1>1, <1>3, <2>1, <2>2
    <3> QED BY <1>3, <3>1, <3>2, PastFacts
  <2> HIDE DEF L
  <2> QED BY <1>1, <1>3, <2>1, <2>2, <2>3 DEF Repeated
<1> HIDE DEF q, N, L, z
<1>7. z > from  BY <1>1, <1>2, <1>3, <1>4, <1>5, <1>6
<1> QED BY <1>7 DEF z, q

\* An instant belongs to the runs of one day.
LEMMA OneDay ==
  ASSUME ZoneTyped, NEW d \in Int, NEW e \in Int, NEW time \in Int, NEW t \in Runs(d, time), t \in Runs(e, time), t \in Int
  PROVE  d = e
<1>1. /\ zone.at \in Int /\ zone.before \in Int /\ zone.after \in Int /\ Change \in Int
      /\ DayLength \in Nat /\ 3 * Change < DayLength /\ -3 * Change < DayLength /\ DayLength > 0
      /\ S!clock(t) \in Int
  BY ZoneFacts
<1>2. \A f \in {d, e} : S!clock(t) = f * DayLength + time \/ S!clock(t) - (f * DayLength + time) \in {Change, -Change}
  BY WithinChange DEF Local
<1>3. d * DayLength \in Int /\ e * DayLength \in Int  BY <1>1
<1>4. d * DayLength - e * DayLength < DayLength /\ e * DayLength - d * DayLength < DayLength
  BY <1>1, <1>2, <1>3
<1>5. ~(d < e)  BY <1>1, <1>3, <1>4, EarlierDay
<1>6. ~(e < d)  BY <1>1, <1>3, <1>4, EarlierDay
<1> QED BY <1>5, <1>6

\* No run of a day still to come is the 0 of a reminder that has not run.
LEMMA NoneAtZero ==
  ASSUME ZoneTyped, NEW d \in Int, NEW time \in 0..(DayLength - 1), Clear(time),
         S!zonedLocalToUtc(d, time) > DayLength
  PROVE  0 \notin Runs(d, time)
<1> DEFINE z == S!zonedLocalToUtc(d, time)
<1> SUFFICES ASSUME 0 \in Runs(d, time) PROVE FALSE
  OBVIOUS
<1>1. DayLength \in Nat /\ time \in 0..(DayLength + 1) /\ time \in Int  BY ScheduleAssumption
<1>2. z \in Runs(d, time) /\ z \in Int  BY <1>1, FoundInRuns
<1>3. /\ zone.at \in Int /\ zone.before \in Int /\ zone.after \in Int /\ Change = zone.after - zone.before
      /\ 3 * Change < DayLength /\ -3 * Change < DayLength
      /\ \A t \in Int : S!clock(t) = (IF t < zone.at THEN t + zone.before ELSE t + zone.after)
  BY ZoneFacts DEF Change
<1>4. Local(d, time) \in Int  BY <1>1 DEF Local
<1>5. \A t \in {0, z} : S!clock(t) = Local(d, time) \/ S!clock(t) - Local(d, time) \in {Change, -Change}
  BY <1>2, WithinChange
<1> HIDE DEF z
<1>6. z <= DayLength  BY <1>1, <1>2, <1>3, <1>4, <1>5
<1> QED BY <1>1, <1>2, <1>6 DEF z

\* (cron-schedule.ts:121) What is computed at a poll, for the reminder that just ran or is new.
DailyRight(time, from, next, ran) ==
    /\ next > from
    /\ \E d \in S!dayOf(from)..(S!dayOf(from) + 1) :
          /\ next \in Runs(d, time) /\ ran \notin Runs(d, time)
          /\ \A e \in S!dayOf(from)..(d - 1) : \E t \in Runs(e, time) : t <= from

RanBefore(time, from, ran) == ran = 0 \/ (ran <= from /\ \E d \in Int : ran = S!zonedLocalToUtc(d, time))

LEMMA DailyNext ==
  ASSUME ZoneTyped, NEW from \in Int, from >= DayLength, NEW time \in 0..(DayLength - 1), Clear(time),
         ~Skipped(time), ~Repeated(time), NEW ran, RanBefore(time, from, ran)
  PROVE  DailyRight(time, from, S!computeDailyNextRunAt(time, from), ran)
<1> DEFINE q == S!dayOf(from)
           next == S!computeDailyNextRunAt(time, from)
<1>1. DayLength \in Nat /\ time \in Int /\ time \in 0..(DayLength + 1)  BY ScheduleAssumption
<1>2. q \in Int
  BY ZoneFacts, Division DEF S!dayOf
<1>3. next = (IF S!zonedLocalToUtc(q, time) > from THEN S!zonedLocalToUtc(q, time) ELSE S!zonedLocalToUtc(q + 1, time))
  BY DEF S!computeDailyNextRunAt, S!getZonedDateTimeParts
<1>4. \A d \in Int : S!zonedLocalToUtc(d, time) \in Runs(d, time) /\ S!zonedLocalToUtc(d, time) \in Int
  BY <1>1, FoundInRuns
<1>5. S!zonedLocalToUtc(q + 1, time) > from  BY TomorrowIsLater
<1> HIDE DEF q, next
<1>6. PICK d \in q..(q + 1) : /\ next = S!zonedLocalToUtc(d, time) /\ next > from
                              /\ d = q + 1 => ~(S!zonedLocalToUtc(q, time) > from)
  <2>1. CASE S!zonedLocalToUtc(q, time) > from  BY <1>2, <1>3, <2>1
  <2>2. CASE ~(S!zonedLocalToUtc(q, time) > from)  BY <1>2, <1>3, <1>5, <2>2
  <2> QED BY <2>1, <2>2
<1>7. d \in Int  BY <1>2
<1>8. ran \notin Runs(d, time)
  <2>1. CASE ran = 0
    <3>1. S!zonedLocalToUtc(d, time) > DayLength  BY <1>1, <1>4, <1>6, <1>7
    <3> QED BY <1>7, <2>1, <3>1, NoneAtZero
  <2>2. CASE ran # 0
    <3>1. PICK e \in Int : ran = S!zonedLocalToUtc(e, time) /\ ran <= from  BY <2>2 DEF RanBefore
    <3>2. e # d  BY <1>4, <1>6, <1>7, <3>1
    <3> QED BY <1>1, <1>4, <1>7, <3>1, <3>2, OneDay
  <2> QED BY <2>1, <2>2
<1>9. ASSUME NEW e \in q..(d - 1) PROVE \E t \in Runs(e, time) : t <= from
  <2>1. e = q /\ d = q + 1  BY <1>2, <1>7
  <2>2. S!zonedLocalToUtc(q, time) <= from  BY <1>2, <1>4, <1>6, <2>1
  <2> QED BY <1>2, <1>4, <2>1, <2>2
<1>10. next \in Runs(d, time)  BY <1>4, <1>6, <1>7
<1>11. next > from /\ d \in q..(q + 1)  BY <1>6
<1> QED BY <1>8, <1>9, <1>10, <1>11 DEF DailyRight, next, q

\* Every reminder was computed for a poll no later than now.
Scheduled ==
    cron # S!NoCron =>
        /\ cron \in [status : {"active", "completed"}, kind : {"once", "daily"}, day : Int, time : 0..(DayLength + 1),
                     from : Int, next : Int, ran : Int]
        /\ cron.kind = "once" => cron.next = S!zonedLocalToUtc(cron.day, cron.time)
        /\ cron.kind = "daily" =>
              /\ cron.time < DayLength /\ cron.from >= DayLength /\ cron.from <= now
              /\ cron.next = S!computeDailyNextRunAt(cron.time, cron.from)
              /\ RanBefore(cron.time, cron.from, cron.ran)

SInv == ZoneTyped /\ now \in Int /\ now >= DayLength /\ Scheduled

LEMMA NextIsInstant ==
  ASSUME ZoneTyped, NEW time \in Int, NEW from \in Int
  PROVE  /\ \A d \in Int : S!zonedLocalToUtc(d, time) \in Int
         /\ \E d \in Int : S!computeDailyNextRunAt(time, from) = S!zonedLocalToUtc(d, time)
         /\ S!computeDailyNextRunAt(time, from) \in Int
<1>1. \A t \in Int : S!getTimeZoneOffset(t) \in Int
  <2> TAKE t \in Int
  <2>1. /\ zone.before \in Int /\ zone.after \in Int /\ midnight \in Int /\ zone.at \in Int  BY ZoneFacts DEF ZoneTyped
  <2>2. S!getTimeZoneOffset(t) = (IF t < zone.at THEN zone.before ELSE zone.after)
                                  + (IF S!clock(t) % DayLength < S!HourLength THEN midnight ELSE 0)
    BY Offset
  <2> QED BY <2>1, <2>2
<1>2. \A d \in Int : S!zonedLocalToUtc(d, time) \in Int
  <2> TAKE d \in Int
  <2> DEFINE L == d * DayLength + time
             corrected(g) == L - S!getTimeZoneOffset(g)
  <2>1. L \in Int  BY ScheduleAssumption
  <2>2. S!zonedLocalToUtc(d, time) = corrected(corrected(corrected(corrected(L))))  BY DEF S!zonedLocalToUtc
  <2>3. \A g \in Int : corrected(g) \in Int  BY <1>1, <2>1
  <2> HIDE DEF L, corrected
  <2> QED BY <2>1, <2>2, <2>3
<1>3. S!dayOf(from) \in Int  BY ZoneFacts, Division DEF S!dayOf
<1>4. S!computeDailyNextRunAt(time, from) \in {S!zonedLocalToUtc(S!dayOf(from), time), S!zonedLocalToUtc(S!dayOf(from) + 1, time)}
  BY DEF S!computeDailyNextRunAt, S!getZonedDateTimeParts
<1> QED BY <1>2, <1>3, <1>4

\* Instants depend on the zone and the formatter alone.
LEMMA SameInstants ==
  ASSUME UNCHANGED <<zone, midnight>>
  PROVE  /\ ZoneTyped' = ZoneTyped
         /\ \A d, time : S!zonedLocalToUtc(d, time)' = S!zonedLocalToUtc(d, time)
         /\ \A time, from : S!computeDailyNextRunAt(time, from)' = S!computeDailyNextRunAt(time, from)
<1>1. \A t : S!clock(t)' = S!clock(t)  BY DEF S!clock
<1>2. \A t : S!dayOf(t)' = S!dayOf(t)  BY <1>1 DEF S!dayOf
<1>3. \A t : S!getZonedDateTimeParts(t)' = S!getZonedDateTimeParts(t)
  BY <1>1, <1>2 DEF S!getZonedDateTimeParts
<1>4. \A t : S!getTimeZoneOffset(t)' = S!getTimeZoneOffset(t)  BY <1>3 DEF S!getTimeZoneOffset
<1>5. \A d, time : S!zonedLocalToUtc(d, time)' = S!zonedLocalToUtc(d, time)
  BY <1>4 DEF S!zonedLocalToUtc
<1>6. \A time, from : S!computeDailyNextRunAt(time, from)' = S!computeDailyNextRunAt(time, from)
  BY <1>3, <1>5 DEF S!computeDailyNextRunAt
<1>7. ZoneTyped' = ZoneTyped  BY DEF ZoneTyped
<1> QED BY <1>5, <1>6, <1>7

LEMMA InitSInv == Init => SInv
<1> SUFFICES ASSUME Init PROVE SInv
  OBVIOUS
<1> QED BY ScheduleAssumption DEF Init, S!Init, SInv, ZoneTyped, Scheduled

LEMMA NextSInv == SInv /\ S!Next => SInv'
<1> SUFFICES ASSUME SInv, S!Next PROVE SInv'
  OBVIOUS
<1> USE DEF SInv
<1>1. DayLength \in Nat /\ DayLength > 0  BY ScheduleAssumption
<1>2. ASSUME NEW kind \in {"once", "daily"}, NEW day \in 1..2, NEW time \in 0..(DayLength + 1),
             S!createSessionCron(kind, day, time)
      PROVE  SInv'
  <2>1. UNCHANGED <<zone, midnight, now>>  BY <1>2 DEF S!createSessionCron
  <2>2. time \in Int /\ day \in Int /\ now \in Int  BY <1>1
  <2>3. S!zonedLocalToUtc(day, time) \in Int /\ S!computeDailyNextRunAt(time, now) \in Int
    BY <2>2, NextIsInstant
  <2>4. S!computeCronNextRunAt(kind, day, time, now) =
           (IF kind = "once" THEN S!zonedLocalToUtc(day, time) ELSE S!computeDailyNextRunAt(time, now))
    BY DEF S!computeCronNextRunAt
  <2>5. cron' = [status |-> "active", kind |-> kind, day |-> day, time |-> time,
                 from |-> IF kind = "once" THEN 0 ELSE now,
                 next |-> S!computeCronNextRunAt(kind, day, time, now), ran |-> 0]
    BY <1>2 DEF S!createSessionCron
  <2>6. kind = "daily" => time < DayLength  BY <1>2 DEF S!createSessionCron
  <2>7. ZoneTyped'  BY <2>1 DEF ZoneTyped
  <2>8. kind = "once" => (cron.next = S!zonedLocalToUtc(cron.day, cron.time))'
    BY <2>1, <2>4, <2>5, SameInstants
  <2>9. kind = "daily" => (cron.next = S!computeDailyNextRunAt(cron.time, cron.from))'
    BY <2>1, <2>4, <2>5, SameInstants
  <2>10. Scheduled'
    BY <1>1, <2>1, <2>2, <2>3, <2>4, <2>5, <2>6, <2>8, <2>9 DEF Scheduled, RanBefore
  <2> QED BY <2>1, <2>7, <2>10
<1>3. ASSUME S!completeCron PROVE SInv'
  <2>1. UNCHANGED <<zone, midnight, now>> /\ cron # S!NoCron /\ cron.kind = "once"
        /\ cron' = [cron EXCEPT !.status = "completed", !.ran = cron.next]
    BY <1>3 DEF S!completeCron, S!Due
  <2>2. ZoneTyped'  BY <2>1 DEF ZoneTyped
  <2>3. (cron.next = S!zonedLocalToUtc(cron.day, cron.time))'
    BY <2>1, SameInstants DEF Scheduled
  <2>4. Scheduled'  BY <2>1, <2>3 DEF Scheduled
  <2> QED BY <2>1, <2>2, <2>4
<1>4. ASSUME S!advanceDailyCron PROVE SInv'
  <2>1. UNCHANGED <<zone, midnight, now>> /\ cron # S!NoCron /\ cron.kind = "daily" /\ cron.next <= now
        /\ cron' = [cron EXCEPT !.from = now, !.ran = cron.next,
                                !.next = S!computeDailyNextRunAt(cron.time, now)]
    BY <1>4 DEF S!advanceDailyCron, S!Due, S!computeCronNextRunAt
  <2>2. ZoneTyped'  BY <2>1 DEF ZoneTyped
  <2>3. /\ cron \in [status : {"active", "completed"}, kind : {"once", "daily"}, day : Int, time : 0..(DayLength + 1),
                     from : Int, next : Int, ran : Int]
        /\ cron.time < DayLength /\ cron.next = S!computeDailyNextRunAt(cron.time, cron.from)
    BY <2>1 DEF Scheduled
  <2>4. cron.time \in Int  BY <2>3, <1>1
  <2>5. PICK d \in Int : cron.next = S!zonedLocalToUtc(d, cron.time)  BY <2>3, <2>4, NextIsInstant
  <2>6. S!computeDailyNextRunAt(cron.time, now) \in Int  BY <2>4, NextIsInstant
  <2>7. /\ (cron.next = S!computeDailyNextRunAt(cron.time, cron.from))'
        /\ S!zonedLocalToUtc(d, cron.time) = S!zonedLocalToUtc(d, cron.time)'
    BY <2>1, <2>3, SameInstants
  <2>8. RanBefore(cron.time, cron.from, cron.ran)'
    <3>1. (cron.ran = S!zonedLocalToUtc(d, cron.time))'  BY <2>1, <2>3, <2>5, <2>7
    <3> QED BY <2>1, <2>3, <3>1 DEF RanBefore
  <2>9. /\ cron' \in [status : {"active", "completed"}, kind : {"once", "daily"}, day : Int, time : 0..(DayLength + 1),
                      from : Int, next : Int, ran : Int]
        /\ cron'.kind = "daily" /\ cron'.time < DayLength /\ cron'.from = now
    <3>1. now \in Int /\ cron.next \in Int  BY <2>3
    <3> QED BY <2>1, <2>3, <2>6, <3>1
  <2>10. Scheduled'  BY <1>1, <2>1, <2>7, <2>8, <2>9 DEF Scheduled
  <2> QED BY <2>1, <2>2, <2>10
<1>5. ASSUME S!Tick PROVE SInv'
  <2>1. UNCHANGED <<zone, midnight, cron>> /\ now' = now + 1  BY <1>5 DEF S!Tick
  <2>2. ZoneTyped'  BY <2>1 DEF ZoneTyped
  <2>3. Scheduled'
    BY <1>1, <2>1, SameInstants DEF Scheduled, RanBefore
  <2> QED BY <1>1, <2>1, <2>2, <2>3
<1> QED BY <1>2, <1>3, <1>4, <1>5 DEF S!Next

LEMMA SameSInv == SInv /\ UNCHANGED scheduleVars => SInv'
BY SameInstants DEF SInv, Scheduled, RanBefore, scheduleVars

LEMMA ScheduleSteps == [Next]_vars => S!Next \/ UNCHANGED scheduleVars
BY DEF Next, Maintenance, Catalog, Runtime, Context, Schedule, Hear, Tools, Register, vars

\* (cron-schedule.ts:71, :121, cron-store.ts:136) Whatever the zone, the length of the day, and
\* however long the daemon was down, the next run of a reminder is at its time, of the first day that has not had its run,
\* unless midnight is in the way.
THEOREM RemindersRunDaily == Spec => []DailyOnce
<1>1. SInv => DailyOnce
  <2> SUFFICES ASSUME SInv, cron.status = "active",
                      ~(IF midnight = 0 THEN cron.kind = "daily" /\ (Skipped(cron.time) \/ Repeated(cron.time))
                                        ELSE cron.time % DayLength < S!HourLength \/ Change # 0)
               PROVE  IF cron.kind = "once" THEN cron.next \in Runs(cron.day, cron.time)
                      ELSE DailyRight(cron.time, cron.from, cron.next, cron.ran)
    BY DEF DailyOnce, Skipped, Repeated, Past, Change, Runs, Shows, Instants, DailyRight
  <2>1. ZoneTyped /\ DayLength \in Nat /\ DayLength > 0  BY ScheduleAssumption DEF SInv
  <2>2. cron # S!NoCron  BY DEF S!NoCron
  <2>3. /\ cron \in [status : {"active", "completed"}, kind : {"once", "daily"}, day : Int, time : 0..(DayLength + 1),
                     from : Int, next : Int, ran : Int]
        /\ Clear(cron.time)
    BY <2>2 DEF SInv, Scheduled, Clear
  <2>4. CASE cron.kind = "once"
    <3>1. cron.next = S!zonedLocalToUtc(cron.day, cron.time)  BY <2>2, <2>4 DEF SInv, Scheduled
    <3> QED BY <2>1, <2>3, <2>4, <3>1, FoundInRuns
  <2>5. CASE cron.kind = "daily"
    <3>1. /\ cron.time < DayLength /\ cron.from >= DayLength
          /\ cron.next = S!computeDailyNextRunAt(cron.time, cron.from)
          /\ RanBefore(cron.time, cron.from, cron.ran)
      BY <2>2, <2>5 DEF SInv, Scheduled
    <3>2. cron.time \in 0..(DayLength - 1) /\ cron.from \in Int  BY <2>1, <2>3, <3>1
    <3>3. ~Skipped(cron.time) /\ ~Repeated(cron.time)
      <4>1. CASE midnight = 0  BY <2>5, <4>1
      <4>2. CASE midnight # 0
        <5>1. Change = 0  BY <4>2
        <5>2. \A start \in Int : Past(cron.time, start) >= 0 /\ Past(cron.time, start) \in Int
          BY <2>1, <3>2, Division DEF Past
        <5>3. zone.at + zone.before \in Int /\ zone.at + zone.after \in Int  BY <2>1, ZoneFacts
        <5> QED BY <3>2, <5>1, <5>2, <5>3 DEF Skipped, Repeated
      <4> QED BY <4>1, <4>2
    <3> QED BY <2>1, <2>3, <2>5, <3>1, <3>2, <3>3, DailyNext
  <2> QED BY <2>3, <2>4, <2>5
<1>2. Init => SInv  BY InitSInv
<1>3. SInv /\ [Next]_vars => SInv'  BY ScheduleSteps, NextSInv, SameSInv
<1> QED BY <1>1, <1>2, <1>3, PTL DEF Spec

-----------------------------------------------------------------------------
(* Outreach. *)

Message == [role : {"assistant"}, calls : Seq(Calls)] \cup [role : {"toolResult"}, ok : BOOLEAN]

Working == {"start", "prompt", "aborted"}
Delivering == {"deliver", "sending", "failed", "end"}

OutreachTyped ==
  /\ here \in O!Addresses /\ at \in Working \cup Delivering
  /\ sessions \in [O!Addresses -> {"none", "active", "removed", "purged"}]
  /\ file \in Seq(Message) /\ pending \in Seq(Calls) /\ actions \in Seq(Calls)
  /\ done \in Nat /\ done <= Len(actions) /\ Len(actions) <= MaxMessages
  /\ sent \in Seq(O!Addresses \X Nat) /\ logs \in [O!Addresses -> Seq(Nat)]
  /\ crons \in [Reminders \cup O!ActionIds -> {"none", "active", "completed", "canceled", "invalidated"}]
  /\ directory.contacts \subseteq Contacts /\ directory.groups \subseteq Groups /\ directory.crons \subseteq Reminders

\* A recorded call was checked against the directory.
Checked(call) ==
  /\ call.tool = "send_message" => call.target \in O!Addresses
  /\ call.tool = "cron_cancel" => call.cron \in Reminders

ActionsChecked == \A i \in 1..Len(actions) : Checked(actions[i])

Silenced == \E i \in 1..Len(actions) : actions[i].tool = "no_reply"

\* What a turn has at each phase.
NothingDone == done = 0 /\ sent = <<>> /\ \A a \in O!Addresses : logs[a] = <<>>
WhileWorking == at \in Working => NothingDone
WhilePrompting ==
  at \in {"start", "prompt"} =>
      /\ messages = file /\ Len(actions) <= Len(file) /\ Len(file) + Len(pending) <= MaxMessages
      /\ ~Silenced
WhenAborted ==
  at = "aborted" =>
      /\ messages = Append(file, [role |-> "error"])
      /\ pending # <<>> /\ pending[1].tool = "no_reply"
      /\ actions # <<>> /\ actions[Len(actions)].tool = "no_reply"
WhileDelivering ==
  at \in Delivering =>
      /\ pending = <<>> /\ messages = file
      /\ Silenced => Len(actions) = 1 /\ sent = <<>> /\ \A a \in O!Addresses : logs[a] = <<>>
AtEnd == at = "end" => done = Len(actions)
NoneMade == at \in Working \/ Silenced => \A i \in O!ActionIds : crons[i] = "none"

\* Each answer has its results, but for the last one while its calls run, and for one that
\* was left at a no_reply behind another call.
ResultsOf(f, i, n) == \A j \in 1..n : f[i + j].role = "toolResult"
Answered(f, i) == i + Len(f[i].calls) <= Len(f) /\ ResultsOf(f, i, Len(f[i].calls))
Running(f, calls, i) ==
  /\ calls # <<>> /\ Len(calls) <= Len(f[i].calls)
  /\ i + (Len(f[i].calls) - Len(calls)) = Len(f)
  /\ ResultsOf(f, i, Len(f[i].calls) - Len(calls))
  /\ \A j \in 1..Len(calls) : calls[j] = f[i].calls[Len(f[i].calls) - Len(calls) + j]
Abandoned(f, i) == \E j \in 1..Len(f[i].calls) : j > 1 /\ f[i].calls[j].tool = "no_reply"
Conversed ==
  \A i \in 1..Len(file) : file[i].role = "assistant" =>
     Answered(file, i) \/ Running(file, pending, i) \/ (at \notin Working /\ Abandoned(file, i))

\* What was sent and logged.
SentInOrder == \A i, j \in 1..Len(sent) : i < j => sent[i][2] < sent[j][2]
SentAll == \A n \in 1..done : actions[n].tool \in O!sending => \E i \in 1..Len(sent) : sent[i][2] = n
SentOnly ==
  \A i \in 1..Len(sent) :
     \/ sent[i][2] \in 1..done /\ actions[sent[i][2]].tool \in O!sending
     \/ sent[i][2] = done + 1 /\ at \in {"sending", "failed"}
SentNow ==
  at = "sending" =>
      /\ done < Len(actions) /\ actions[done + 1].tool \in O!sending
      /\ sent # <<>> /\ sent[Len(sent)] = <<O!To, done + 1>>
LoggedInOrder == \A a \in O!Addresses : \A i, j \in 1..Len(logs[a]) : i < j => logs[a][i] < logs[a][j]
LoggedOnly ==
  \A a \in O!Addresses : \A i \in 1..Len(logs[a]) :
     /\ logs[a][i] \in 1..done
     /\ \E j \in 1..Len(sent) : sent[j][1] = a /\ sent[j][2] = logs[a][i]
LoggedAll ==
  \A j \in 1..Len(sent) : sent[j][2] \in 1..done =>
     \/ \E i \in 1..Len(logs[sent[j][1]]) : logs[sent[j][1]][i] = sent[j][2]
     \/ sessions[sent[j][1]] # "active" /\ actions[sent[j][2]].tool = "send_message"
     \/ sessions[sent[j][1]] = "purged"
Delivered == SentInOrder /\ SentAll /\ SentOnly /\ SentNow /\ LoggedInOrder /\ LoggedOnly /\ LoggedAll

RemindersDone ==
  \A i \in 1..done :
     /\ actions[i].tool = "cron_create" => crons[i] # "none"
     /\ actions[i].tool = "cron_cancel" => crons[actions[i].cron] # "active"

OInv ==
  /\ OutreachTyped /\ ActionsChecked
  /\ WhileWorking /\ WhilePrompting /\ WhenAborted /\ WhileDelivering /\ AtEnd /\ NoneMade
  /\ Conversed /\ Delivered /\ RemindersDone

LEMMA FrontFacts ==
  ASSUME NEW T, NEW s \in Seq(T), s # <<>>
  PROVE  /\ O!Front(s) \in Seq(T) /\ Len(O!Front(s)) = Len(s) - 1
         /\ \A i \in 1..(Len(s) - 1) : O!Front(s)[i] = s[i]
         /\ O!Last(s) = s[Len(s)] /\ Len(s) \in Nat /\ Len(s) > 0
<1>1. Len(s) \in Nat /\ Len(s) > 0  OBVIOUS
<1>2. O!Front(s) = [i \in 1..(Len(s) - 1) |-> s[i]]
  <2> DEFINE q == SubSeq(s, 1, Len(s) - 1)
  <2>1. O!Front(s) = q  BY DEF O!Front
  <2>2. \A i \in 1..(Len(s) - 1) : s[i] \in T  BY <1>1
  <2>3. /\ q \in Seq(T)
        /\ Len(q) = IF 1 <= Len(s) - 1 THEN Len(s) - 1 - 1 + 1 ELSE 0
        /\ \A i \in 1..(Len(s) - 1 - 1 + 1) : q[i] = s[1 + i - 1]
    BY <1>1, <2>2, SubSeqProperties
  <2> HIDE DEF q
  <2>4. Len(q) = Len(s) - 1
    <3>1. \A n \in Nat : n > 0 => (IF 1 <= n - 1 THEN n - 1 - 1 + 1 ELSE 0) = n - 1  OBVIOUS
    <3> QED BY ONLY <1>1, <2>3, <3>1
  <2>5. \A i \in 1..(Len(s) - 1) : q[i] = s[i]  BY <1>1, <2>3
  <2> QED BY <1>1, <2>1, <2>3, <2>4, <2>5
<1>3. O!Last(s) = s[Len(s)]  BY DEF O!Last
<1>4. O!Front(s) \in Seq(T)
  <2>1. Len(s) - 1 \in Nat /\ \A i \in 1..(Len(s) - 1) : s[i] \in T  BY <1>1
  <2> QED BY <1>2, <2>1
<1>5. Len(O!Front(s)) = Len(s) - 1  BY <1>1, <1>2
<1> QED BY <1>1, <1>2, <1>3, <1>4, <1>5

\* An answer that has its results keeps them as long as they are in the conversation.
LEMMA AnsweredStays ==
  ASSUME NEW f \in Seq(Message), NEW g \in Seq(Message), NEW n \in Nat,
         n <= Len(g), \A j \in 1..n : g[j] = f[j],
         NEW i \in 1..n, Len(f[i].calls) \in Nat, i + Len(f[i].calls) <= n, Answered(f, i)
  PROVE  Answered(g, i)
<1>1. g[i] = f[i]  OBVIOUS
<1>2. ASSUME NEW j \in 1..Len(f[i].calls) PROVE g[i + j].role = "toolResult"
  <2>1. i + j \in 1..n  BY <1>2
  <2>2. f[i + j].role = "toolResult"  BY DEF Answered, ResultsOf
  <2> QED BY <2>1, <2>2
<1>3. i + Len(g[i].calls) <= Len(g)
  <2>1. Len(g) \in Nat  OBVIOUS
  <2> QED BY <1>1, <2>1
<1> QED BY <1>1, <1>2, <1>3 DEF Answered, ResultsOf

\* The result of the first call that was still to run.
LEMMA RunGoesOn ==
  ASSUME NEW f \in Seq(Message), NEW g \in Seq(Message), Len(g) = Len(f) + 1, \A j \in 1..Len(f) : g[j] = f[j],
         g[Len(f) + 1].role = "toolResult",
         NEW p \in Seq(Calls), p # <<>>, NEW i \in 1..Len(f), Len(f[i].calls) \in Nat, Running(f, p, i)
  PROVE  Answered(g, i) \/ Running(g, Tail(p), i)
<1> DEFINE all == Len(f[i].calls)
           rest == Len(p)
<1>1. /\ rest \in Nat /\ rest > 0 /\ Tail(p) \in Seq(Calls) /\ Len(Tail(p)) = rest - 1
      /\ \A j \in 1..(rest - 1) : Tail(p)[j] = p[j + 1]
      /\ Len(f) \in Nat /\ all \in Nat /\ g[i] = f[i]
  OBVIOUS
<1>2. /\ rest <= all /\ i + (all - rest) = Len(f)
      /\ \A j \in 1..(all - rest) : f[i + j].role = "toolResult"
      /\ \A j \in 1..rest : p[j] = f[i].calls[all - rest + j]
  BY DEF Running, ResultsOf
<1> HIDE DEF all, rest
<1>3. all - (rest - 1) = (all - rest) + 1 /\ all - rest \in Nat /\ i \in Nat  BY <1>1, <1>2
<1>4. ASSUME NEW j \in 1..(all - (rest - 1)) PROVE g[i + j].role = "toolResult"
  <2>1. j \in 1..((all - rest) + 1)  BY <1>3
  <2>2. CASE j = (all - rest) + 1
    <3>1. i + j = (i + (all - rest)) + 1  BY <1>3, <2>2
    <3> QED BY <1>2, <3>1
  <2>3. CASE j # (all - rest) + 1
    <3>1. j \in 1..(all - rest)  BY <1>3, <2>1, <2>3
    <3>2. i + j \in 1..(i + (all - rest))  BY <1>3, <3>1
    <3> QED BY <1>2, <3>1, <3>2
  <2> QED BY <2>2, <2>3
<1>5. i + (all - (rest - 1)) = Len(g)
  <2>1. i + ((all - rest) + 1) = (i + (all - rest)) + 1  BY <1>3
  <2> QED BY <1>2, <1>3, <2>1
<1>6. CASE rest = 1
  <2>1. all - (rest - 1) = all  BY <1>1, <1>6
  <2>2. i + all <= Len(g)  BY <1>1, <1>5, <2>1
  <2> QED BY <1>1, <1>4, <2>1, <2>2 DEF Answered, ResultsOf, all
<1>7. CASE rest # 1
  <2>1. Tail(p) # <<>> /\ Len(Tail(p)) <= all
    <3> DEFINE t == Tail(p)
    <3>1. Len(t) = rest - 1 /\ rest - 1 # 0 /\ rest - 1 <= all  BY <1>1, <1>2, <1>7
    <3> HIDE DEF t
    <3>2. t # <<>>  BY <3>1
    <3> QED BY <3>1, <3>2 DEF t
  <2>2. ASSUME NEW j \in 1..(rest - 1) PROVE Tail(p)[j] = f[i].calls[all - (rest - 1) + j]
    <3>1. j + 1 \in 1..rest /\ all - rest + (j + 1) = all - (rest - 1) + j  BY <1>1
    <3> QED BY <1>1, <1>2, <3>1
  <2> QED BY <1>1, <1>4, <1>5, <2>1, <2>2 DEF Running, ResultsOf, all
<1> QED BY <1>6, <1>7

LEMMA InitOInv == ASSUME Init PROVE OInv
<1>1. O!Init  BY DEF Init
<1> USE <1>1, OutreachAssumption DEF O!Init, O!NoDirectory
<1>2. OutreachTyped
  <2>1. here \in O!Addresses /\ at \in Working \cup Delivering  BY DEF Working
  <2>2. sessions \in [O!Addresses -> {"none", "active", "removed", "purged"}]  OBVIOUS
  <2>3. crons \in [Reminders \cup O!ActionIds -> {"none", "active", "completed", "canceled", "invalidated"}]  OBVIOUS
  <2>4. sent \in Seq(O!Addresses \X Nat) /\ logs \in [O!Addresses -> Seq(Nat)]  OBVIOUS
  <2> QED BY <2>1, <2>2, <2>3, <2>4 DEF OutreachTyped
<1>3. WhileWorking /\ WhilePrompting /\ WhenAborted /\ WhileDelivering /\ AtEnd
  BY DEF WhileWorking, WhilePrompting, WhenAborted, WhileDelivering, AtEnd, NothingDone, Silenced, Delivering
<1>4. NoneMade  BY DEF NoneMade, O!ActionIds
<1>5. ActionsChecked /\ Conversed /\ RemindersDone  BY DEF ActionsChecked, Conversed, RemindersDone
<1>6. Delivered
  BY DEF Delivered, SentInOrder, SentAll, SentOnly, SentNow, LoggedInOrder, LoggedOnly, LoggedAll
<1> QED BY <1>2, <1>3, <1>4, <1>5, <1>6 DEF OInv

\* The parts a step of the turn itself leaves alone.
LEMMA TurnStep ==
  ASSUME OInv, at \in Working, at' # "sending", UNCHANGED <<done, sent, logs>>
  PROVE  NothingDone' /\ (Delivered /\ RemindersDone)'
<1>1. NothingDone'  BY DEF OInv, WhileWorking, NothingDone
<1>2. (SentInOrder /\ SentAll /\ SentOnly /\ SentNow)'
  BY <1>1 DEF NothingDone, SentInOrder, SentAll, SentOnly, SentNow
<1>3. (LoggedInOrder /\ LoggedOnly /\ LoggedAll)'
  BY <1>1 DEF NothingDone, LoggedInOrder, LoggedOnly, LoggedAll
<1>4. RemindersDone'  BY <1>1 DEF NothingDone, RemindersDone
<1> QED BY <1>1, <1>2, <1>3, <1>4 DEF Delivered

LEMMA SnapshotOInv == ASSUME OInv, O!buildSnapshot PROVE OInv'
<1> USE DEF OInv
<1>1. /\ at = "start" /\ at' = "prompt"
      /\ UNCHANGED <<here, sessions, file, messages, pending, actions, done, sent, logs, crons>>
  BY DEF O!buildSnapshot, O!world, O!conversation, O!delivery
<1>2. directory'.contacts \subseteq Contacts /\ directory'.groups \subseteq Groups /\ directory'.crons \subseteq Reminders
  BY DEF O!buildSnapshot, O!upserted
<1>3. OutreachTyped'  BY <1>1, <1>2 DEF OutreachTyped, Working
<1>4. NothingDone' /\ (Delivered /\ RemindersDone)'  BY <1>1, TurnStep DEF Working
<1>5. (WhileWorking /\ WhilePrompting /\ WhenAborted /\ WhileDelivering /\ AtEnd /\ NoneMade)'
  BY <1>1, <1>4 DEF WhileWorking, WhilePrompting, WhenAborted, WhileDelivering, AtEnd, NoneMade, Working, Delivering, Silenced
<1>6. ActionsChecked'  BY <1>1 DEF ActionsChecked, Checked
<1>7. Conversed'
  BY <1>1 DEF Conversed, Working
<1> QED BY <1>3, <1>4, <1>5, <1>6, <1>7

LEMMA AnswerOInv ==
  ASSUME OInv, NEW n \in 1..2, NEW calls \in [1..n -> Calls], O!Answer(calls)
  PROVE  OInv'
<1> USE DEF OInv
<1>1. /\ at = "prompt" /\ pending = <<>> /\ Len(messages) + 1 + Len(calls) <= MaxMessages
      /\ messages' = Append(messages, [role |-> "assistant", calls |-> calls])
      /\ file' = Append(file, [role |-> "assistant", calls |-> calls])
      /\ pending' = calls
      /\ UNCHANGED <<here, directory, at, sessions, actions, done, sent, logs, crons>>
  BY DEF O!Answer, O!Say, O!world, O!delivery
<1>2. calls \in Seq(Calls) /\ Len(calls) = n  OBVIOUS
<1>3. /\ [role |-> "assistant", calls |-> calls] \in Message
      /\ file \in Seq(Message) /\ messages = file /\ actions \in Seq(Calls)
      /\ Len(file) \in Nat /\ Len(actions) \in Nat /\ Len(actions) <= Len(file) /\ MaxMessages \in Nat
  BY <1>1, <1>2, OutreachAssumption DEF Message, OutreachTyped, WhilePrompting
<1>4. /\ file' \in Seq(Message) /\ Len(file') = Len(file) + 1
      /\ \A i \in 1..Len(file) : file'[i] = file[i]
      /\ file'[Len(file) + 1].role = "assistant" /\ file'[Len(file) + 1].calls = calls
  BY <1>1, <1>3
<1>5. OutreachTyped'  BY <1>1, <1>2, <1>4 DEF OutreachTyped
<1>6. NothingDone' /\ (Delivered /\ RemindersDone)'  BY <1>1, TurnStep DEF Working
<1>7. (WhileWorking /\ WhilePrompting /\ WhenAborted /\ WhileDelivering /\ AtEnd /\ NoneMade)'
  BY <1>1, <1>2, <1>3, <1>4, <1>6 DEF WhileWorking, WhilePrompting, WhenAborted, WhileDelivering, AtEnd, NoneMade, Working, Delivering, Silenced
<1>8. ActionsChecked'  BY <1>1 DEF ActionsChecked, Checked
<1>9. ASSUME NEW i \in 1..Len(file'), file'[i].role = "assistant" PROVE Answered(file', i) \/ Running(file', pending', i)
  <2>1. CASE i = Len(file) + 1
    <3>1. pending' = file'[i].calls /\ Len(pending') = n /\ n \in 1..2  BY <1>1, <1>2, <1>4, <2>1
    <3>2. pending' # <<>> /\ i + (n - n) = Len(file')  BY <1>1, <1>2, <1>3, <1>4, <2>1, <3>1
    <3>3. \A j \in 1..(n - n) : FALSE  BY <3>1
    <3>4. \A j \in 1..n : n - n + j = j  BY <3>1
    <3>5. Len(file'[i].calls) = n /\ n <= n  BY <3>1
    <3>6. ResultsOf(file', i, n - n)  BY <3>3 DEF ResultsOf
    <3> QED BY <3>1, <3>2, <3>4, <3>5, <3>6 DEF Running
  <2>2. CASE i # Len(file) + 1
    <3>1. i \in 1..Len(file) /\ file'[i] = file[i]  BY <1>3, <1>4, <2>2
    <3>2. Answered(file, i)  BY <1>1, <1>9, <3>1 DEF Conversed, Running, Working
    <3>3. Len(file[i].calls) \in Nat  BY <1>3, <1>9, <3>1 DEF Message
    <3>4. Len(file) <= Len(file') /\ i + Len(file[i].calls) <= Len(file)  BY <1>3, <1>4, <3>2 DEF Answered
    <3> QED BY <1>3, <1>4, <3>1, <3>2, <3>3, <3>4, AnsweredStays
  <2> QED BY <2>1, <2>2
<1>10. Conversed'  BY <1>9 DEF Conversed
<1> QED BY <1>5, <1>6, <1>7, <1>8, <1>10

\* A call that records an action was checked.
LEMMA RecordedFacts ==
  ASSUME OutreachTyped, ActionsChecked, NEW call \in Calls
  PROVE  /\ O!recordAction(call) \in Seq(Calls)
         /\ Len(O!recordAction(call)) <= Len(actions) + 1
         /\ \A i \in 1..Len(O!recordAction(call)) : Checked(O!recordAction(call)[i])
         /\ \A i \in 1..Len(O!recordAction(call)) : O!recordAction(call)[i] = call \/ (i \in 1..Len(actions) /\ O!recordAction(call)[i] = actions[i])
         /\ call.tool = "no_reply" /\ O!Succeeds(call) => O!recordAction(call) = Append(actions, call)
<1>1. actions \in Seq(Calls) /\ Len(actions) \in Nat  BY DEF OutreachTyped
<1>2. O!Succeeds(call) => Checked(call)
  BY DEF O!Succeeds, Checked, O!isKnownTarget, O!Addresses, OutreachTyped
<1>3. CASE O!Succeeds(call) /\ call.tool \notin {"list_contacts", "get_contact_detail", "get_group_members"}
  <2>1. O!recordAction(call) = Append(actions, call)  BY <1>3 DEF O!recordAction
  <2> QED BY <1>1, <1>2, <1>3, <2>1 DEF ActionsChecked
<1>4. CASE ~(O!Succeeds(call) /\ call.tool \notin {"list_contacts", "get_contact_detail", "get_group_members"})
  <2>1. O!recordAction(call) = actions  BY <1>4 DEF O!recordAction
  <2> QED BY <1>1, <1>4, <2>1 DEF ActionsChecked
<1> QED BY <1>3, <1>4

LEMMA RunToolOInv == ASSUME OInv, O!RunTool PROVE OInv'
<1> USE DEF OInv
<1> DEFINE call == pending[1]
           result == [role |-> "toolResult", ok |-> O!Succeeds(Head(pending))]
<1>1. /\ at = "prompt" /\ pending # <<>> /\ ~(Head(pending).tool = "no_reply" /\ O!Succeeds(Head(pending)))
      /\ messages' = Append(messages, result) /\ file' = Append(file, result)
      /\ pending' = Tail(pending) /\ actions' = O!recordAction(Head(pending))
      /\ UNCHANGED <<here, directory, at, sessions, done, sent, logs, crons>>
  BY DEF O!RunTool, O!Say, O!world, O!delivery
<1>2. /\ pending \in Seq(Calls) /\ Len(pending) \in Nat /\ Len(pending) > 0 /\ Head(pending) = call /\ call \in Calls
      /\ Tail(pending) \in Seq(Calls) /\ Len(Tail(pending)) = Len(pending) - 1
      /\ \A j \in 1..(Len(pending) - 1) : Tail(pending)[j] = pending[j + 1]
  BY <1>1 DEF OutreachTyped
<1>3. result \in Message /\ result.role = "toolResult"
  <2>1. O!Succeeds(Head(pending)) \in BOOLEAN  BY DEF O!Succeeds
  <2> QED BY <2>1 DEF Message
<1>4. /\ file \in Seq(Message) /\ messages = file /\ actions \in Seq(Calls) /\ MaxMessages \in Nat
      /\ Len(file) \in Nat /\ Len(actions) \in Nat /\ Len(actions) <= Len(file) /\ Len(file) + Len(pending) <= MaxMessages
      /\ done = 0
  BY <1>1, OutreachAssumption DEF OutreachTyped, WhilePrompting, WhileWorking, Working, NothingDone
<1> HIDE DEF result, call
<1>5. /\ file' \in Seq(Message) /\ Len(file') = Len(file) + 1 /\ messages' = file'
      /\ \A i \in 1..Len(file) : file'[i] = file[i]
      /\ file'[Len(file) + 1].role = "toolResult"
  BY <1>1, <1>3, <1>4
<1>6. /\ actions' \in Seq(Calls) /\ Len(actions') <= Len(actions) + 1 /\ Len(actions') \in Nat
      /\ \A i \in 1..Len(actions') : Checked(actions'[i])
      /\ \A i \in 1..Len(actions') : actions'[i] = call \/ (i \in 1..Len(actions) /\ actions'[i] = actions[i])
  BY <1>1, <1>2, RecordedFacts
<1>7. ActionsChecked'  BY <1>1, <1>6 DEF ActionsChecked, Checked
<1>8. OutreachTyped'  BY <1>1, <1>2, <1>4, <1>5, <1>6 DEF OutreachTyped
<1>9. NothingDone' /\ (Delivered /\ RemindersDone)'  BY <1>1, TurnStep DEF Working
<1>10. ~Silenced'
  <2>1. call.tool = "no_reply" => actions' = actions  BY <1>1, <1>2 DEF O!recordAction
  <2>2. ~Silenced  BY <1>1 DEF WhilePrompting
  <2>3. \A i \in 1..Len(actions') : actions'[i].tool # "no_reply"  BY <1>6, <2>1, <2>2 DEF Silenced
  <2> QED BY <2>3 DEF Silenced
<1>11. (WhileWorking /\ WhilePrompting /\ WhenAborted /\ WhileDelivering /\ AtEnd)'
  BY <1>1, <1>2, <1>4, <1>5, <1>6, <1>9, <1>10 DEF WhileWorking, WhilePrompting, WhenAborted, WhileDelivering, AtEnd, Delivering
<1>12. NoneMade'  BY <1>1 DEF NoneMade, Working
<1>13. ASSUME NEW i \in 1..Len(file'), file'[i].role = "assistant" PROVE Answered(file', i) \/ Running(file', pending', i)
  <2>1. i \in 1..Len(file) /\ file'[i] = file[i]  BY <1>4, <1>5, <1>13
  <2>2. file[i].calls \in Seq(Calls) /\ Len(file[i].calls) \in Nat  BY <1>4, <1>13, <2>1 DEF Message
  <2>3. CASE Answered(file, i)
    <3>1. Len(file) <= Len(file') /\ i + Len(file[i].calls) <= Len(file)  BY <1>4, <1>5, <2>3 DEF Answered
    <3> QED BY <1>4, <1>5, <2>1, <2>2, <2>3, <3>1, AnsweredStays
  <2>4. CASE Running(file, pending, i)
    BY <1>1, <1>2, <1>4, <1>5, <2>1, <2>2, <2>4, RunGoesOn
  <2> QED BY <1>1, <1>13, <2>1, <2>3, <2>4 DEF Conversed, Working
<1>14. Conversed'  BY <1>13 DEF Conversed
<1> QED BY <1>7, <1>8, <1>9, <1>11, <1>12, <1>14

\* (worker.ts:162) The hook.
LEMMA HookOInv == ASSUME OInv, O!installTerminalNoReplyHook PROVE OInv'
<1> USE DEF OInv
<1>1. /\ at = "prompt" /\ at' = "aborted" /\ pending # <<>> /\ Head(pending).tool = "no_reply" /\ O!Succeeds(Head(pending))
      /\ messages' = Append(messages, [role |-> "error"])
      /\ actions' = O!recordAction(Head(pending))
      /\ UNCHANGED <<here, directory, file, pending, sessions, done, sent, logs, crons>>
  BY DEF O!installTerminalNoReplyHook, O!world, O!delivery
<1>2. pending \in Seq(Calls) /\ Len(pending) \in Nat /\ Len(pending) > 0 /\ Head(pending) = pending[1] /\ Head(pending) \in Calls
  BY <1>1 DEF OutreachTyped
<1>3. /\ file \in Seq(Message) /\ messages = file /\ actions \in Seq(Calls) /\ MaxMessages \in Nat
      /\ Len(file) \in Nat /\ Len(actions) \in Nat /\ Len(actions) <= Len(file) /\ Len(file) + Len(pending) <= MaxMessages
      /\ done = 0
  BY <1>1, OutreachAssumption DEF OutreachTyped, WhilePrompting, WhileWorking, Working, NothingDone
<1>4. /\ actions' = Append(actions, Head(pending)) /\ actions' \in Seq(Calls) /\ Len(actions') = Len(actions) + 1
      /\ \A i \in 1..Len(actions') : Checked(actions'[i])
      /\ actions'[Len(actions')] = Head(pending)
  <2>1. actions' = Append(actions, Head(pending)) /\ actions' = O!recordAction(Head(pending))  BY <1>1, <1>2, RecordedFacts
  <2>2. \A i \in 1..Len(actions') : Checked(actions'[i])  BY <1>2, <2>1, RecordedFacts
  <2> QED BY <1>2, <1>3, <2>1, <2>2
<1>5. ActionsChecked'  BY <1>1, <1>4 DEF ActionsChecked, Checked
<1>6. OutreachTyped'  BY <1>1, <1>2, <1>3, <1>4 DEF OutreachTyped, Working
<1>7. NothingDone' /\ (Delivered /\ RemindersDone)'  BY <1>1, TurnStep DEF Working
<1>8. WhenAborted'  BY <1>1, <1>2, <1>3, <1>4 DEF WhenAborted
<1>9. (WhileWorking /\ WhilePrompting /\ WhileDelivering /\ AtEnd)'
  BY <1>1, <1>7 DEF WhileWorking, WhilePrompting, WhileDelivering, AtEnd, Delivering
<1>10. NoneMade'  BY <1>1 DEF NoneMade, Working
<1>11. Conversed'
  BY <1>1 DEF Conversed, Working
<1> QED BY <1>5, <1>6, <1>7, <1>8, <1>9, <1>10, <1>11

\* (worker.ts:93, :117) What is dropped is the answer that no other result follows.
LEMMA FinalizeOInv == ASSUME OInv, O!finalizeTerminalNoReply PROVE OInv'
<1> USE DEF OInv
<1>1. /\ at = "aborted" /\ at' = "deliver"
      /\ messages' = O!pop(O!Front(messages)) /\ file' = O!pop(file)
      /\ actions' = <<O!Last(actions)>> /\ pending' = <<>>
      /\ UNCHANGED <<here, directory, sessions, done, sent, logs, crons>>
  BY DEF O!finalizeTerminalNoReply, O!world, O!delivery
<1>2. /\ file \in Seq(Message) /\ Len(file) \in Nat /\ actions \in Seq(Calls) /\ pending \in Seq(Calls)
      /\ messages = Append(file, [role |-> "error"])
      /\ pending # <<>> /\ pending[1].tool = "no_reply"
      /\ actions # <<>> /\ actions[Len(actions)].tool = "no_reply"
      /\ NothingDone /\ Len(actions) \in Nat /\ Len(actions) <= MaxMessages /\ MaxMessages \in Nat
      /\ \A i \in O!ActionIds : crons[i] = "none"
  BY <1>1, OutreachAssumption DEF OutreachTyped, WhenAborted, WhileWorking, Working, NoneMade
<1>3. O!Front(messages) = file
  <2>1. O!Front(messages) = SubSeq(messages, 1, Len(messages) - 1)  BY DEF O!Front
  <2>2. Len(messages) = Len(file) + 1 /\ \A i \in 1..Len(file) : messages[i] = file[i]  BY <1>2
  <2> QED BY <1>2, <2>1, <2>2
<1>4. messages' = file'  BY <1>1, <1>3
<1>5. Len(actions) > 0 /\ O!Last(actions) = actions[Len(actions)] /\ O!Last(actions) \in Calls
  BY <1>2 DEF O!Last
<1>6. /\ actions' \in Seq(Calls) /\ Len(actions') = 1 /\ actions'[1] = actions[Len(actions)]
  BY <1>1, <1>5
<1>7. ActionsChecked'  BY <1>1, <1>2, <1>5, <1>6 DEF ActionsChecked, Checked
<1>8. file' \in Seq(Message)
  <2>1. CASE O!findNoReplyToolCallId(file)
    <3>1. file # <<>> /\ file' = O!Front(file)  BY <1>1, <2>1 DEF O!findNoReplyToolCallId, O!pop
    <3> QED BY <1>2, <3>1, FrontFacts
  <2>2. CASE ~O!findNoReplyToolCallId(file)  BY <1>1, <1>2, <2>2 DEF O!pop
  <2> QED BY <2>1, <2>2
<1>9. OutreachTyped'
  <2>1. done' = 0  BY <1>1, <1>2 DEF NothingDone
  <2> QED BY <1>1, <1>2, <1>5, <1>6, <1>8, <2>1 DEF OutreachTyped, Delivering
<1>10. NothingDone' /\ (Delivered /\ RemindersDone)'  BY <1>1, TurnStep DEF Working
<1>11. (WhileWorking /\ WhilePrompting /\ WhenAborted /\ WhileDelivering /\ AtEnd)'
  BY <1>1, <1>4, <1>6, <1>10 DEF WhileWorking, WhilePrompting, WhenAborted, WhileDelivering, AtEnd, Working, NothingDone
<1>12. NoneMade'  BY <1>1, <1>2 DEF NoneMade
<1>13. ASSUME NEW i \in 1..Len(file), file[i].role = "assistant" PROVE file[i].calls \in Seq(Calls) /\ Len(file[i].calls) \in Nat
  BY <1>2, <1>13 DEF Message
<1>14. ASSUME NEW i \in 1..Len(file), file[i].role = "assistant" PROVE Answered(file, i) \/ Running(file, pending, i)
  BY <1>1, <1>14 DEF Conversed, Working
<1>15. CASE O!findNoReplyToolCallId(file)
  <2>1. file # <<>> /\ file' = O!Front(file) /\ O!Last(file).role = "assistant"
    BY <1>1, <1>15 DEF O!findNoReplyToolCallId, O!pop
  <2>2. /\ Len(file') = Len(file) - 1 /\ \A i \in 1..(Len(file) - 1) : file'[i] = file[i]
        /\ file[Len(file)].role = "assistant" /\ Len(file) > 0
    BY <1>2, <2>1, FrontFacts
  <2>3. ASSUME NEW i \in 1..Len(file'), file'[i].role = "assistant" PROVE Answered(file', i)
    <3>1. i \in 1..Len(file) /\ i < Len(file) /\ file'[i] = file[i]  BY <1>2, <2>2
    <3>2. file[i].role = "assistant" /\ file[i].calls \in Seq(Calls) /\ Len(file[i].calls) \in Nat
      BY <1>13, <2>3, <3>1
    <3>3. ~(Running(file, pending, i) /\ ~Answered(file, i))
      <4> SUFFICES ASSUME Running(file, pending, i) PROVE FALSE
        OBVIOUS
      <4> DEFINE k == Len(file[i].calls) - Len(pending)
      <4>1. k \in Int /\ i + k = Len(file) /\ \A j \in 1..k : file[i + j].role = "toolResult"
        <5>1. Len(pending) \in Nat  BY <1>2
        <5>2. i + k = Len(file) /\ \A j \in 1..k : file[i + j].role = "toolResult"  BY DEF Running, ResultsOf
        <5> QED BY <3>2, <5>1, <5>2
      <4> HIDE DEF k
      <4>2. k \in 1..k  BY <1>2, <3>1, <4>1
      <4> QED BY <2>2, <4>1, <4>2
    <3>4. Answered(file, i)  BY <1>14, <3>1, <3>2, <3>3
    <3>5. i + Len(file[i].calls) # Len(file)
      <4> SUFFICES ASSUME i + Len(file[i].calls) = Len(file) PROVE FALSE
        OBVIOUS
      <4>1. Len(file[i].calls) \in 1..Len(file[i].calls)  BY <1>2, <3>1, <3>2
      <4>2. file[i + Len(file[i].calls)].role = "toolResult"  BY <3>4, <4>1 DEF Answered, ResultsOf
      <4> QED BY <2>2, <4>2
    <3>6. i + Len(file[i].calls) <= Len(file) - 1  BY <1>2, <3>1, <3>2, <3>4, <3>5 DEF Answered
    <3>7. Len(file) - 1 \in Nat /\ Len(file) - 1 <= Len(file') /\ i \in 1..(Len(file) - 1)  BY <1>2, <2>2, <3>1
    <3> QED BY <1>2, <1>8, <2>2, <3>2, <3>4, <3>6, <3>7, AnsweredStays
  <2> QED BY <1>7, <1>9, <1>10, <1>11, <1>12, <2>3 DEF Conversed
<1>16. CASE ~O!findNoReplyToolCallId(file)
  <2>1. file' = file  BY <1>1, <1>16 DEF O!pop
  <2>2. ASSUME NEW i \in 1..Len(file), file[i].role = "assistant" PROVE Answered(file', i) \/ Abandoned(file', i)
    <3>1. CASE Answered(file, i)  BY <2>1, <3>1 DEF Answered, ResultsOf
    <3>2. CASE Running(file, pending, i)
      <4> DEFINE k == Len(file[i].calls) - Len(pending)
      <4>1. Len(file[i].calls) \in Nat /\ Len(pending) \in Nat /\ Len(pending) > 0  BY <1>2, <1>13, <2>2
      <4>2. k \in Nat /\ i + k = Len(file) /\ pending[1] = file[i].calls[k + 1]
        BY <4>1, <3>2 DEF Running
      <4>3. k # 0
        <5> SUFFICES ASSUME k = 0 PROVE FALSE
          OBVIOUS
        <5>1. i = Len(file) /\ file # <<>> /\ O!Last(file) = file[i]  BY <1>2, <4>2 DEF O!Last
        <5>2. 1 \in DOMAIN file[i].calls  BY <1>13, <2>2, <4>1, <3>2 DEF Running
        <5>3. file[i].calls[1].tool = "no_reply"  BY <1>2, <4>2
        <5> QED BY <1>16, <2>2, <5>1, <5>2, <5>3 DEF O!findNoReplyToolCallId
      <4>4. k + 1 \in 1..Len(file[i].calls) /\ k + 1 > 1 /\ file[i].calls[k + 1].tool = "no_reply"
        BY <1>2, <4>1, <4>2, <4>3
      <4> QED BY <2>1, <4>4 DEF Abandoned
    <3> QED BY <1>14, <2>2, <3>1, <3>2
  <2>3. Conversed'  BY <1>1, <2>1, <2>2 DEF Conversed, Working
  <2> QED BY <1>7, <1>9, <1>10, <1>11, <1>12, <2>3
<1> QED BY <1>15, <1>16

LEMMA LastTextOInv == ASSUME OInv, O!getLastAssistantText PROVE OInv'
<1> USE DEF OInv
<1> DEFINE message == [role |-> "assistant", calls |-> <<>>]
<1>1. /\ at = "prompt" /\ at' = "deliver" /\ pending = <<>>
      /\ messages' = Append(messages, message) /\ file' = Append(file, message)
      /\ UNCHANGED <<here, directory, sessions, pending, actions, done, sent, logs, crons>>
  BY DEF O!getLastAssistantText, O!Say, O!world, O!delivery
<1>2. message \in Message /\ message.role = "assistant" /\ message.calls = <<>>  BY DEF Message
<1>3. file \in Seq(Message) /\ Len(file) \in Nat /\ messages = file /\ ~Silenced
  BY <1>1 DEF OutreachTyped, WhilePrompting
<1> HIDE DEF message
<1>4. /\ file' \in Seq(Message) /\ Len(file') = Len(file) + 1 /\ messages' = file'
      /\ \A i \in 1..Len(file) : file'[i] = file[i]
      /\ file'[Len(file) + 1] = message
  BY <1>1, <1>2, <1>3
<1>5. OutreachTyped'  BY <1>1, <1>4 DEF OutreachTyped, Delivering
<1>6. NothingDone' /\ (Delivered /\ RemindersDone)'  BY <1>1, TurnStep DEF Working
<1>7. ~Silenced'  BY <1>1, <1>3 DEF Silenced
<1>8. (WhileWorking /\ WhilePrompting /\ WhenAborted /\ WhileDelivering /\ AtEnd /\ NoneMade)'
  BY <1>1, <1>4, <1>7 DEF WhileWorking, WhilePrompting, WhenAborted, WhileDelivering, AtEnd, NoneMade, Working
<1>9. ActionsChecked'  BY <1>1 DEF ActionsChecked, Checked
<1>10. ASSUME NEW i \in 1..Len(file'), file'[i].role = "assistant" PROVE Answered(file', i)
  <2>1. CASE i = Len(file) + 1
    <3>1. Len(file'[i].calls) = 0  BY <1>2, <1>4, <2>1
    <3>2. i + 0 <= Len(file') /\ \A j \in 1..0 : FALSE  BY <1>3, <1>4, <2>1
    <3> QED BY <3>1, <3>2 DEF Answered, ResultsOf
  <2>2. CASE i # Len(file) + 1
    <3>1. i \in 1..Len(file) /\ file'[i] = file[i]  BY <1>3, <1>4, <2>2
    <3>2. Answered(file, i)  BY <1>1, <1>10, <3>1 DEF Conversed, Running, Working
    <3>3. Len(file[i].calls) \in Nat  BY <1>3, <1>10, <3>1 DEF Message
    <3>4. Len(file) <= Len(file') /\ i + Len(file[i].calls) <= Len(file)  BY <1>3, <1>4, <3>2 DEF Answered
    <3> QED BY <1>3, <1>4, <3>1, <3>2, <3>3, <3>4, AnsweredStays
  <2> QED BY <2>1, <2>2
<1>11. Conversed'  BY <1>10 DEF Conversed
<1> QED BY <1>5, <1>6, <1>8, <1>9, <1>11

\* What a step of the dispatcher leaves alone.
LEMMA DispatchStep ==
  ASSUME OInv, at \in Delivering, at' \in Delivering, UNCHANGED <<messages, file, pending, actions>>
  PROVE  (ActionsChecked /\ WhileWorking /\ WhilePrompting /\ WhenAborted /\ Conversed)'
BY DEF OInv, ActionsChecked, Checked, WhileWorking, WhilePrompting, WhenAborted, Conversed, Working, Delivering

LEMMA ActionFacts ==
  ASSUME OInv, at \in {"deliver", "sending"}, done < Len(actions)
  PROVE  /\ done \in Nat /\ Len(actions) \in Nat /\ actions \in Seq(Calls)
         /\ done + 1 \in 1..Len(actions) /\ O!Action = actions[done + 1] /\ Checked(actions[done + 1])
         /\ done + 1 \in O!ActionIds
         /\ actions[done + 1].tool # "no_reply" => ~Silenced
<1>1. /\ done \in Nat /\ Len(actions) \in Nat /\ actions \in Seq(Calls) /\ Len(actions) <= MaxMessages /\ MaxMessages \in Nat
  BY OutreachAssumption DEF OInv, OutreachTyped
<1>2. done + 1 \in 1..Len(actions) /\ done + 1 \in 1..MaxMessages  BY <1>1
<1>3. Silenced => Len(actions) = 1  BY DEF OInv, WhileDelivering, Delivering
<1>4. Silenced => actions[done + 1].tool = "no_reply"  BY <1>1, <1>2, <1>3 DEF Silenced
<1> QED BY <1>1, <1>2, <1>4 DEF OInv, ActionsChecked, O!Action, O!ActionIds

LEMMA ToFacts ==
  ASSUME OInv, done < Len(actions), at \in {"deliver", "sending"}
  PROVE  O!To \in O!Addresses /\ (actions[done + 1].tool # "send_message" => O!To = here)
<1>1. O!Action = actions[done + 1] /\ Checked(actions[done + 1])  BY ActionFacts
<1>2. here \in O!Addresses  BY DEF OInv, OutreachTyped
<1> QED BY <1>1, <1>2 DEF O!To, Checked

LEMMA SendOInv == ASSUME OInv, O!Send PROVE OInv'
<1>1. /\ at = "deliver" /\ at' = "sending" /\ done < Len(actions) /\ O!Action.tool \in O!sending
      /\ sent' = Append(sent, <<O!To, done + 1>>)
      /\ UNCHANGED <<here, directory, sessions, crons, messages, file, pending, actions, done, logs>>
  BY DEF O!Send, O!Doing, O!world, O!conversation
<1>2. /\ done \in Nat /\ Len(actions) \in Nat /\ O!Action = actions[done + 1] /\ ~Silenced /\ O!To \in O!Addresses
  BY <1>1, ActionFacts, ToFacts DEF O!sending
<1>3. (ActionsChecked /\ WhileWorking /\ WhilePrompting /\ WhenAborted /\ Conversed)'  BY <1>1, DispatchStep DEF Delivering
<1>4. sent \in Seq(O!Addresses \X Nat) /\ Len(sent) \in Nat  BY DEF OInv, OutreachTyped
<1>5. /\ sent' \in Seq(O!Addresses \X Nat) /\ Len(sent') = Len(sent) + 1
      /\ \A i \in 1..Len(sent) : sent'[i] = sent[i]
      /\ sent'[Len(sent) + 1] = <<O!To, done + 1>>
  BY <1>1, <1>2, <1>4
<1>6. OutreachTyped'  BY <1>1, <1>5 DEF OInv, OutreachTyped, Delivering
<1>7. (WhileDelivering /\ AtEnd /\ NoneMade)'
  BY <1>1, <1>2 DEF OInv, WhileDelivering, AtEnd, NoneMade, Working, Delivering, Silenced
<1>8. \A i \in 1..Len(sent) : sent[i][2] \in 1..done /\ actions[sent[i][2]].tool \in O!sending
  BY <1>1 DEF OInv, Delivered, SentOnly
<1>9. SentInOrder'
  <2> SUFFICES ASSUME NEW i \in 1..Len(sent'), NEW j \in 1..Len(sent'), i < j PROVE sent'[i][2] < sent'[j][2]
    BY DEF SentInOrder
  <2>1. i \in 1..Len(sent) /\ sent'[i] = sent[i] /\ sent[i][2] \in 1..done  BY <1>4, <1>5, <1>8
  <2>2. CASE j = Len(sent) + 1  BY <1>2, <1>5, <2>1, <2>2
  <2>3. CASE j # Len(sent) + 1
    <3>1. j \in 1..Len(sent) /\ sent'[j] = sent[j]  BY <1>4, <1>5, <2>3
    <3> QED BY <2>1, <3>1 DEF OInv, Delivered, SentInOrder
  <2> QED BY <2>2, <2>3
<1>10. SentAll'  BY <1>1, <1>2, <1>4, <1>5 DEF OInv, Delivered, SentAll
<1>11. SentOnly'  BY <1>1, <1>2, <1>4, <1>5, <1>8 DEF SentOnly
<1>12. SentNow'
  <2>1. O!To' = O!To  BY <1>1 DEF O!To, O!Action
  <2>2. sent' # <<>> /\ sent'[Len(sent')] = <<O!To', done' + 1>>  BY <1>1, <1>4, <1>5, <2>1
  <2> QED BY <1>1, <1>2, <2>2 DEF SentNow
<1>13. LoggedInOrder'  BY <1>1 DEF OInv, Delivered, LoggedInOrder
<1>14. LoggedOnly'
  <2> SUFFICES ASSUME NEW a \in O!Addresses, NEW i \in 1..Len(logs[a])
               PROVE  logs[a][i] \in 1..done /\ \E j \in 1..Len(sent') : sent'[j][1] = a /\ sent'[j][2] = logs[a][i]
    BY <1>1 DEF LoggedOnly
  <2>1. PICK j \in 1..Len(sent) : sent[j][1] = a /\ sent[j][2] = logs[a][i]  BY DEF OInv, Delivered, LoggedOnly
  <2>2. j \in 1..Len(sent') /\ sent'[j] = sent[j]  BY <1>4, <1>5
  <2> QED BY <2>1, <2>2 DEF OInv, Delivered, LoggedOnly
<1>15. LoggedAll'
  <2> SUFFICES ASSUME NEW j \in 1..Len(sent'), sent'[j][2] \in 1..done
               PROVE  \/ \E i \in 1..Len(logs[sent'[j][1]]) : logs[sent'[j][1]][i] = sent'[j][2]
                      \/ sessions[sent'[j][1]] # "active" /\ actions[sent'[j][2]].tool = "send_message"
                      \/ sessions[sent'[j][1]] = "purged"
    BY <1>1 DEF LoggedAll
  <2>1. j # Len(sent) + 1  BY <1>2, <1>5
  <2>2. j \in 1..Len(sent) /\ sent'[j] = sent[j]  BY <1>4, <1>5, <2>1
  <2> QED BY <2>2 DEF OInv, Delivered, LoggedAll
<1>16. RemindersDone'  BY <1>1 DEF OInv, RemindersDone
<1> QED BY <1>3, <1>6, <1>7, <1>9, <1>10, <1>11, <1>12, <1>13, <1>14, <1>15, <1>16 DEF OInv, Delivered

\* (outbound-dispatch.ts:111) The platform has answered.
LEMMA LogOInv == ASSUME OInv, O!appendBotOutboundLog PROVE OInv'
<1> DEFINE skip == O!Action.tool = "send_message" /\ O!To \notin O!listSessions
<1>1. /\ at = "sending" /\ at' = "deliver" /\ done' = done + 1
      /\ logs' = IF skip THEN logs ELSE [logs EXCEPT ![O!To] = Append(@, done + 1)]
      /\ UNCHANGED <<here, directory, sessions, crons, messages, file, pending, actions, sent>>
  BY DEF O!appendBotOutboundLog, O!world, O!conversation
<1>2. /\ done < Len(actions) /\ actions[done + 1].tool \in O!sending
      /\ sent # <<>> /\ sent[Len(sent)] = <<O!To, done + 1>>
  BY <1>1 DEF OInv, Delivered, SentNow
<1>3. /\ done \in Nat /\ Len(actions) \in Nat /\ O!Action = actions[done + 1] /\ ~Silenced /\ O!To \in O!Addresses
      /\ done + 1 \in 1..Len(actions)
  BY <1>1, <1>2, ActionFacts, ToFacts DEF O!sending
<1>4. (ActionsChecked /\ WhileWorking /\ WhilePrompting /\ WhenAborted /\ Conversed)'  BY <1>1, DispatchStep DEF Delivering
<1>5. /\ sent \in Seq(O!Addresses \X Nat) /\ Len(sent) \in Nat /\ Len(sent) > 0 /\ logs \in [O!Addresses -> Seq(Nat)]
      /\ sent[Len(sent)][1] = O!To /\ sent[Len(sent)][2] = done + 1
  BY <1>2 DEF OInv, OutreachTyped
<1>6. logs' \in [O!Addresses -> Seq(Nat)]  BY <1>1, <1>3, <1>5
<1>7. /\ \A a \in O!Addresses : a # O!To => logs'[a] = logs[a]
      /\ skip => logs'[O!To] = logs[O!To]
      /\ ~skip => logs'[O!To] = Append(logs[O!To], done + 1)
      /\ \A a \in O!Addresses : Len(logs[a]) \in Nat
  BY <1>1, <1>3, <1>5
<1>8. OutreachTyped'  BY <1>1, <1>3, <1>6 DEF OInv, OutreachTyped, Delivering
<1>9. (WhileDelivering /\ AtEnd /\ NoneMade)'
  BY <1>1, <1>3 DEF OInv, WhileDelivering, AtEnd, NoneMade, Working, Delivering, Silenced
<1>10. SentInOrder'  BY <1>1 DEF OInv, Delivered, SentInOrder
<1>11. SentAll'
  <2> SUFFICES ASSUME NEW n \in 1..(done + 1), actions[n].tool \in O!sending PROVE \E i \in 1..Len(sent) : sent[i][2] = n
    BY <1>1 DEF SentAll
  <2>1. CASE n = done + 1  BY <1>5, <2>1
  <2>2. CASE n # done + 1
    <3>1. n \in 1..done  BY <1>3, <2>2
    <3> QED BY <3>1 DEF OInv, Delivered, SentAll
  <2> QED BY <2>1, <2>2
<1>12. SentOnly'
  <2> SUFFICES ASSUME NEW i \in 1..Len(sent) PROVE sent[i][2] \in 1..(done + 1) /\ actions[sent[i][2]].tool \in O!sending
    BY <1>1 DEF SentOnly
  <2>1. (sent[i][2] \in 1..done /\ actions[sent[i][2]].tool \in O!sending) \/ sent[i][2] = done + 1
    BY DEF OInv, Delivered, SentOnly
  <2> QED BY <1>2, <1>3, <2>1
<1>13. SentNow'  BY <1>1 DEF SentNow
<1>14. \A a \in O!Addresses : \A i \in 1..Len(logs[a]) :
          logs[a][i] \in 1..done /\ \E j \in 1..Len(sent) : sent[j][1] = a /\ sent[j][2] = logs[a][i]
  BY DEF OInv, Delivered, LoggedOnly
<1>15. ASSUME NEW a \in O!Addresses, NEW i \in 1..Len(logs'[a])
       PROVE  \/ i \in 1..Len(logs[a]) /\ logs'[a][i] = logs[a][i]
              \/ a = O!To /\ ~skip /\ i = Len(logs[a]) + 1 /\ logs'[a][i] = done + 1
  <2>1. CASE a = O!To /\ ~skip
    <3>1. logs'[a] = Append(logs[a], done + 1) /\ logs[a] \in Seq(Nat)  BY <1>5, <1>7, <2>1
    <3> QED BY <1>3, <2>1, <3>1
  <2>2. CASE ~(a = O!To /\ ~skip)  BY <1>7, <1>15, <2>2
  <2> QED BY <2>1, <2>2
<1>16. LoggedInOrder'
  <2> SUFFICES ASSUME NEW a \in O!Addresses, NEW i \in 1..Len(logs'[a]), NEW j \in 1..Len(logs'[a]), i < j
               PROVE  logs'[a][i] < logs'[a][j]
    BY DEF LoggedInOrder
  <2>1. Len(logs[a]) \in Nat /\ i \in Nat /\ j \in Nat  BY <1>6, <1>7
  <2>2. i \in 1..Len(logs[a]) /\ logs'[a][i] = logs[a][i]  
    <3>1. CASE i = Len(logs[a]) + 1  BY <1>15, <2>1, <3>1
    <3>2. CASE i # Len(logs[a]) + 1  BY <1>15, <3>2
    <3> QED BY <3>1, <3>2
  <2>3. logs[a][i] \in 1..done  BY <1>14, <2>2
  <2>4. CASE j \in 1..Len(logs[a]) /\ logs'[a][j] = logs[a][j]
    BY <2>2, <2>4 DEF OInv, Delivered, LoggedInOrder
  <2>5. CASE logs'[a][j] = done + 1  BY <1>3, <2>2, <2>3, <2>5
  <2> QED BY <1>15, <2>4, <2>5
<1>17. LoggedOnly'
  <2> SUFFICES ASSUME NEW a \in O!Addresses, NEW i \in 1..Len(logs'[a])
               PROVE  logs'[a][i] \in 1..(done + 1) /\ \E j \in 1..Len(sent) : sent[j][1] = a /\ sent[j][2] = logs'[a][i]
    BY <1>1 DEF LoggedOnly
  <2>1. CASE i \in 1..Len(logs[a]) /\ logs'[a][i] = logs[a][i]
    <3>1. logs[a][i] \in 1..done /\ \E j \in 1..Len(sent) : sent[j][1] = a /\ sent[j][2] = logs[a][i]  BY <1>14, <2>1
    <3> QED BY <1>3, <2>1, <3>1
  <2>2. CASE a = O!To /\ logs'[a][i] = done + 1  BY <1>3, <1>5, <2>2
  <2> QED BY <1>15, <2>1, <2>2
<1>18. LoggedAll'
  <2> SUFFICES ASSUME NEW j \in 1..Len(sent), sent[j][2] \in 1..(done + 1)
               PROVE  \/ \E i \in 1..Len(logs'[sent[j][1]]) : logs'[sent[j][1]][i] = sent[j][2]
                      \/ sessions[sent[j][1]] # "active" /\ actions[sent[j][2]].tool = "send_message"
                      \/ sessions[sent[j][1]] = "purged"
    BY <1>1 DEF LoggedAll
  <2>1. sent[j][1] \in O!Addresses  BY <1>5
  <2>2. CASE sent[j][2] \in 1..done
    <3>1. CASE \E i \in 1..Len(logs[sent[j][1]]) : logs[sent[j][1]][i] = sent[j][2]
      <4>1. PICK i \in 1..Len(logs[sent[j][1]]) : logs[sent[j][1]][i] = sent[j][2]  BY <3>1
      <4>2. i \in 1..Len(logs'[sent[j][1]]) /\ logs'[sent[j][1]][i] = logs[sent[j][1]][i]
        <5>1. CASE sent[j][1] = O!To /\ ~skip
          <6>1. logs'[sent[j][1]] = Append(logs[sent[j][1]], done + 1) /\ logs[sent[j][1]] \in Seq(Nat)  BY <1>5, <1>7, <2>1, <5>1
          <6> QED BY <6>1
        <5>2. CASE ~(sent[j][1] = O!To /\ ~skip)
          <6>1. logs'[sent[j][1]] = logs[sent[j][1]]  BY <1>7, <2>1, <5>2
          <6> QED BY <6>1
        <5> QED BY <5>1, <5>2
      <4> QED BY <4>1, <4>2
    <3>2. CASE sessions[sent[j][1]] # "active" /\ actions[sent[j][2]].tool = "send_message"  BY <3>2
    <3>3. CASE sessions[sent[j][1]] = "purged"  BY <3>3
    <3> QED BY <2>2, <3>1, <3>2, <3>3 DEF OInv, Delivered, LoggedAll
  <2>3. CASE sent[j][2] = done + 1
    <3>1. j = Len(sent)
      <4> SUFFICES ASSUME j # Len(sent) PROVE FALSE
        OBVIOUS
      <4>1. j < Len(sent) /\ Len(sent) \in 1..Len(sent)  BY <1>5
      <4>2. sent[j][2] < sent[Len(sent)][2]  BY <4>1 DEF OInv, Delivered, SentInOrder
      <4> QED BY <1>3, <1>5, <2>3, <4>2
    <3>2. sent[j][1] = O!To  BY <1>5, <3>1
    <3>3. CASE skip
      <4>1. sessions[O!To] # "active" /\ actions[done + 1].tool = "send_message"  BY <1>3, <3>3 DEF O!listSessions
      <4> QED BY <2>3, <3>2, <4>1
    <3>4. CASE ~skip
      <4>1. logs'[O!To] = Append(logs[O!To], done + 1) /\ logs[O!To] \in Seq(Nat)  BY <1>3, <1>5, <1>7, <3>4
      <4>2. Len(logs[O!To]) + 1 \in 1..Len(logs'[O!To]) /\ logs'[O!To][Len(logs[O!To]) + 1] = done + 1  BY <1>3, <4>1
      <4> QED BY <2>3, <3>2, <4>2
    <3> QED BY <3>3, <3>4
  <2> QED BY <1>3, <2>2, <2>3
<1>19. RemindersDone'
  <2> SUFFICES ASSUME NEW i \in 1..(done + 1)
               PROVE  /\ actions[i].tool = "cron_create" => crons[i] # "none"
                      /\ actions[i].tool = "cron_cancel" => crons[actions[i].cron] # "active"
    BY <1>1 DEF RemindersDone
  <2>1. CASE i = done + 1  BY <1>2, <2>1 DEF O!sending
  <2>2. CASE i # done + 1
    <3>1. i \in 1..done  BY <1>3, <2>2
    <3> QED BY <3>1 DEF OInv, RemindersDone
  <2> QED BY <2>1, <2>2
<1> QED BY <1>4, <1>8, <1>9, <1>10, <1>11, <1>12, <1>13, <1>16, <1>17, <1>18, <1>19 DEF OInv, Delivered

\* What an action that is no message leaves alone.
LEMMA NoMessage ==
  ASSUME OInv, at = "deliver", at' = "deliver", done < Len(actions), actions[done + 1].tool \notin O!sending,
         done' = done + 1, UNCHANGED <<here, sessions, actions, sent, logs>>
  PROVE  Delivered'
<1>1. done \in Nat /\ Len(actions) \in Nat  BY ActionFacts
<1>2. \A i \in 1..Len(sent) : sent[i][2] \in 1..done /\ actions[sent[i][2]].tool \in O!sending
  BY DEF OInv, Delivered, SentOnly
<1>3. 1..done \subseteq 1..(done + 1)  BY <1>1
<1>4. (SentInOrder /\ SentNow /\ LoggedInOrder)'  BY DEF OInv, Delivered, SentInOrder, SentNow, LoggedInOrder
<1>5. SentAll'
  <2> SUFFICES ASSUME NEW n \in 1..(done + 1), actions[n].tool \in O!sending PROVE \E i \in 1..Len(sent) : sent[i][2] = n
    BY DEF SentAll
  <2>1. n \in 1..done  BY <1>1
  <2> QED BY <2>1 DEF OInv, Delivered, SentAll
<1>6. SentOnly'  BY <1>2, <1>3 DEF SentOnly
<1>7. LoggedOnly'  BY <1>3 DEF OInv, Delivered, LoggedOnly
<1>8. LoggedAll'  BY <1>2 DEF OInv, Delivered, LoggedAll
<1> QED BY <1>4, <1>5, <1>6, <1>7, <1>8 DEF Delivered

LEMMA EditOInv == ASSUME OInv, O!Edit PROVE OInv'
<1>1. /\ at = "deliver" /\ at' = "deliver" /\ done' = done + 1 /\ done < Len(actions)
      /\ O!Action.tool \in {"edit", "delete", "typing", "no_reply"}
      /\ UNCHANGED <<here, directory, sessions, crons, messages, file, pending, actions, sent, logs>>
  BY DEF O!Edit, O!Doing, O!world, O!conversation
<1>2. done \in Nat /\ Len(actions) \in Nat /\ O!Action = actions[done + 1]  BY <1>1, ActionFacts
<1>3. (ActionsChecked /\ WhileWorking /\ WhilePrompting /\ WhenAborted /\ Conversed)'  BY <1>1, DispatchStep DEF Delivering
<1>4. OutreachTyped'  BY <1>1, <1>2 DEF OInv, OutreachTyped
<1>5. (WhileDelivering /\ AtEnd /\ NoneMade)'
  BY <1>1 DEF OInv, WhileDelivering, AtEnd, NoneMade, Silenced
<1>6. Delivered'  BY <1>1, <1>2, NoMessage DEF O!sending
<1>7. RemindersDone'
  <2> SUFFICES ASSUME NEW i \in 1..(done + 1)
               PROVE  /\ actions[i].tool = "cron_create" => crons[i] # "none"
                      /\ actions[i].tool = "cron_cancel" => crons[actions[i].cron] # "active"
    BY <1>1 DEF RemindersDone
  <2>1. CASE i = done + 1  BY <1>1, <1>2, <2>1
  <2>2. CASE i # done + 1
    <3>1. i \in 1..done  BY <1>2, <2>2
    <3> QED BY <3>1 DEF OInv, RemindersDone
  <2> QED BY <2>1, <2>2
<1> QED BY <1>3, <1>4, <1>5, <1>6, <1>7 DEF OInv

\* (outbound-dispatch.ts:138) The id of a reminder made is none the session had.
LEMMA CronCreateOInv == ASSUME OInv, O!createSessionCron PROVE OInv'
<1>1. /\ at = "deliver" /\ at' = "deliver" /\ done' = done + 1 /\ done < Len(actions)
      /\ O!Action.tool = "cron_create" /\ crons' = [crons EXCEPT ![done + 1] = "active"]
      /\ UNCHANGED <<here, directory, sessions, messages, file, pending, actions, sent, logs>>
  BY DEF O!createSessionCron, O!Doing, O!conversation
<1>2. /\ done \in Nat /\ Len(actions) \in Nat /\ O!Action = actions[done + 1] /\ ~Silenced
      /\ done + 1 \in O!ActionIds /\ Len(actions) <= MaxMessages /\ MaxMessages \in Nat
  BY <1>1, ActionFacts, OutreachAssumption DEF OInv, OutreachTyped
<1>3. (ActionsChecked /\ WhileWorking /\ WhilePrompting /\ WhenAborted /\ Conversed)'  BY <1>1, DispatchStep DEF Delivering
<1>4. crons \in [Reminders \cup O!ActionIds -> {"none", "active", "completed", "canceled", "invalidated"}]
  BY DEF OInv, OutreachTyped
<1>5. crons' \in [Reminders \cup O!ActionIds -> {"none", "active", "completed", "canceled", "invalidated"}]
  BY <1>1, <1>2, <1>4
<1>6. OutreachTyped'  BY <1>1, <1>2, <1>5 DEF OInv, OutreachTyped
<1>7. (WhileDelivering /\ AtEnd /\ NoneMade)'
  BY <1>1, <1>2 DEF OInv, WhileDelivering, AtEnd, NoneMade, Silenced, Working
<1>8. Delivered'  BY <1>1, <1>2, NoMessage DEF O!sending
<1>9. RemindersDone'
  <2> SUFFICES ASSUME NEW i \in 1..(done + 1)
               PROVE  /\ actions[i].tool = "cron_create" => crons'[i] # "none"
                      /\ actions[i].tool = "cron_cancel" => crons'[actions[i].cron] # "active"
    BY <1>1 DEF RemindersDone
  <2>1. CASE i = done + 1  BY <1>1, <1>2, <1>4, <2>1
  <2>2. CASE i # done + 1
    <3>1. i \in 1..done /\ i \in 1..Len(actions)  BY <1>1, <1>2, <2>2
    <3>2. /\ actions[i].tool = "cron_create" => crons[i] # "none"
          /\ actions[i].tool = "cron_cancel" => crons[actions[i].cron] # "active" /\ actions[i].cron \in Reminders
      BY <3>1 DEF OInv, RemindersDone, ActionsChecked, Checked
    <3>3. done + 1 \notin Reminders  BY <1>2, OutreachAssumption DEF O!ActionIds
    <3>4. i \in O!ActionIds  BY <1>2, <3>1 DEF O!ActionIds
    <3> QED BY <1>1, <1>4, <2>2, <3>2, <3>3, <3>4
  <2> QED BY <2>1, <2>2
<1> QED BY <1>3, <1>6, <1>7, <1>8, <1>9 DEF OInv

LEMMA CronCancelOInv == ASSUME OInv, O!cancelSessionCron PROVE OInv'
<1>1. /\ at = "deliver" /\ at' = "deliver" /\ done' = done + 1 /\ done < Len(actions)
      /\ O!Action.tool = "cron_cancel"
      /\ crons' = [crons EXCEPT ![O!Action.cron] = IF @ = "active" THEN "canceled" ELSE @]
      /\ UNCHANGED <<here, directory, sessions, messages, file, pending, actions, sent, logs>>
  BY DEF O!cancelSessionCron, O!Doing, O!conversation
<1>2. /\ done \in Nat /\ Len(actions) \in Nat /\ O!Action = actions[done + 1] /\ ~Silenced
      /\ actions[done + 1].cron \in Reminders /\ Len(actions) <= MaxMessages /\ MaxMessages \in Nat
  BY <1>1, ActionFacts, OutreachAssumption DEF Checked, OInv, OutreachTyped
<1>3. (ActionsChecked /\ WhileWorking /\ WhilePrompting /\ WhenAborted /\ Conversed)'  BY <1>1, DispatchStep DEF Delivering
<1>4. crons \in [Reminders \cup O!ActionIds -> {"none", "active", "completed", "canceled", "invalidated"}]
  BY DEF OInv, OutreachTyped
<1>5. /\ crons' \in [Reminders \cup O!ActionIds -> {"none", "active", "completed", "canceled", "invalidated"}]
      /\ crons'[actions[done + 1].cron] # "active"
      /\ \A c \in Reminders \cup O!ActionIds : crons'[c] = crons[c] \/ crons'[c] = "canceled"
  BY <1>1, <1>2, <1>4
<1>6. OutreachTyped'  BY <1>1, <1>2, <1>5 DEF OInv, OutreachTyped
<1>7. (WhileDelivering /\ AtEnd /\ NoneMade)'
  BY <1>1, <1>2 DEF OInv, WhileDelivering, AtEnd, NoneMade, Silenced, Working
<1>8. Delivered'  BY <1>1, <1>2, NoMessage DEF O!sending
<1>9. RemindersDone'
  <2> SUFFICES ASSUME NEW i \in 1..(done + 1)
               PROVE  /\ actions[i].tool = "cron_create" => crons'[i] # "none"
                      /\ actions[i].tool = "cron_cancel" => crons'[actions[i].cron] # "active"
    BY <1>1 DEF RemindersDone
  <2>1. CASE i = done + 1  BY <1>1, <1>2, <1>5, <2>1
  <2>2. CASE i # done + 1
    <3>1. i \in 1..done /\ i \in 1..Len(actions)  BY <1>1, <1>2, <2>2
    <3>2. /\ actions[i].tool = "cron_create" => crons[i] # "none"
          /\ actions[i].tool = "cron_cancel" => crons[actions[i].cron] # "active" /\ actions[i].cron \in Reminders
      BY <3>1 DEF OInv, RemindersDone, ActionsChecked, Checked
    <3>3. i \in O!ActionIds  BY <1>2, <3>1 DEF O!ActionIds
    <3> QED BY <1>5, <3>2, <3>3
  <2> QED BY <2>1, <2>2
<1> QED BY <1>3, <1>6, <1>7, <1>8, <1>9 DEF OInv

LEMMA ThrowsOInv == ASSUME OInv, O!Throws PROVE OInv'
<1>1. /\ at \in {"deliver", "sending"} /\ at' = "failed"
      /\ UNCHANGED <<here, directory, sessions, crons, messages, file, pending, actions, done, sent, logs>>
  BY DEF O!Throws, O!Doing, O!world, O!conversation, O!delivery
<1>2. (ActionsChecked /\ WhileWorking /\ WhilePrompting /\ WhenAborted /\ Conversed)'  BY <1>1, DispatchStep DEF Delivering
<1>3. OutreachTyped'  BY <1>1 DEF OInv, OutreachTyped, Delivering
<1>4. (WhileDelivering /\ AtEnd /\ NoneMade)'
  BY <1>1 DEF OInv, WhileDelivering, AtEnd, NoneMade, Silenced, Working, Delivering
<1>5. (SentInOrder /\ SentAll /\ SentNow)'  BY <1>1 DEF OInv, Delivered, SentInOrder, SentAll, SentNow
<1>6. SentOnly'  BY <1>1 DEF OInv, Delivered, SentOnly
<1>7. (LoggedInOrder /\ LoggedOnly /\ LoggedAll)'  BY <1>1 DEF OInv, Delivered, LoggedInOrder, LoggedOnly, LoggedAll
<1>8. RemindersDone'  BY <1>1 DEF OInv, RemindersDone
<1> QED BY <1>2, <1>3, <1>4, <1>5, <1>6, <1>7, <1>8 DEF OInv, Delivered

LEMMA AuditedOInv == ASSUME OInv, O!Audited PROVE OInv'
<1>1. /\ at = "deliver" /\ at' = "end" /\ done = Len(actions)
      /\ UNCHANGED <<here, directory, sessions, crons, messages, file, pending, actions, done, sent, logs>>
  BY DEF O!Audited, O!world, O!conversation, O!delivery
<1>2. (ActionsChecked /\ WhileWorking /\ WhilePrompting /\ WhenAborted /\ Conversed)'  BY <1>1, DispatchStep DEF Delivering
<1>3. OutreachTyped'  BY <1>1 DEF OInv, OutreachTyped, Delivering
<1>4. (WhileDelivering /\ AtEnd /\ NoneMade)'
  BY <1>1 DEF OInv, WhileDelivering, AtEnd, NoneMade, Silenced, Working, Delivering
<1>5. (SentInOrder /\ SentAll /\ SentNow)'  BY <1>1 DEF OInv, Delivered, SentInOrder, SentAll, SentNow
<1>6. SentOnly'  BY <1>1 DEF OInv, Delivered, SentOnly
<1>7. (LoggedInOrder /\ LoggedOnly /\ LoggedAll)'  BY <1>1 DEF OInv, Delivered, LoggedInOrder, LoggedOnly, LoggedAll
<1>8. RemindersDone'  BY <1>1 DEF OInv, RemindersDone
<1> QED BY <1>2, <1>3, <1>4, <1>5, <1>6, <1>7, <1>8 DEF OInv, Delivered

\* A command or a poll meanwhile ends sessions and reminders, and starts none; a purge empties
\* a log.
LEMMA MeanwhileOInv ==
  ASSUME OInv, UNCHANGED <<here, directory, at, messages, file, pending, actions, done, sent>>,
         logs' \in [O!Addresses -> Seq(Nat)],
         \A a \in O!Addresses : logs'[a] = logs[a] \/ (logs'[a] = <<>> /\ sessions'[a] = "purged"),
         \A a \in O!Addresses : sessions[a] = "purged" => sessions'[a] = "purged",
         sessions' \in [O!Addresses -> {"none", "active", "removed", "purged"}],
         \A a \in O!Addresses : sessions'[a] = "active" => sessions[a] = "active",
         crons' \in [Reminders \cup O!ActionIds -> {"none", "active", "completed", "canceled", "invalidated"}],
         \A c \in Reminders \cup O!ActionIds : crons'[c] = crons[c] \/ (crons[c] = "active" /\ crons'[c] \notin {"none", "active"})
  PROVE  OInv'
<1>a. (\A a \in O!Addresses : logs[a] = <<>>) => \A a \in O!Addresses : logs'[a] = <<>>
  OBVIOUS
<1>1. (ActionsChecked /\ WhileWorking /\ WhilePrompting /\ WhenAborted /\ WhileDelivering /\ AtEnd /\ Conversed)'
  BY <1>a DEF OInv, ActionsChecked, Checked, WhileWorking, NothingDone, WhilePrompting, WhenAborted, WhileDelivering, AtEnd, Conversed, Silenced
<1>2. OutreachTyped'  BY DEF OInv, OutreachTyped
<1>3. NoneMade'  BY DEF OInv, NoneMade, Silenced
<1>4. (SentInOrder /\ SentAll /\ SentOnly)'  BY DEF OInv, Delivered, SentInOrder, SentAll, SentOnly
<1>5. SentNow'
  <2>1. O!To' = O!To  BY DEF O!To, O!Action
  <2> QED BY <2>1 DEF OInv, Delivered, SentNow
<1>6. (LoggedInOrder /\ LoggedOnly)'
  <2>1. \A a \in O!Addresses : \A i \in 1..Len(logs'[a]) : logs'[a] = logs[a]
    <3> SUFFICES ASSUME NEW a \in O!Addresses, logs'[a] = <<>> PROVE \A i \in 1..Len(logs'[a]) : logs'[a] = logs[a]
      OBVIOUS
    <3>1. Len(logs'[a]) = 0  OBVIOUS
    <3> QED BY <3>1
  <2>2. LoggedInOrder'
    <3> SUFFICES ASSUME NEW a \in O!Addresses, NEW i \in 1..Len(logs'[a]), NEW j \in 1..Len(logs'[a]), i < j
                 PROVE  logs'[a][i] < logs'[a][j]
      BY DEF LoggedInOrder
    <3> QED BY <2>1 DEF OInv, Delivered, LoggedInOrder
  <2>3. LoggedOnly'
    <3> SUFFICES ASSUME NEW a \in O!Addresses, NEW i \in 1..Len(logs'[a])
                 PROVE  /\ logs'[a][i] \in 1..done
                        /\ \E j \in 1..Len(sent) : sent[j][1] = a /\ sent[j][2] = logs'[a][i]
      BY DEF LoggedOnly
    <3> QED BY <2>1 DEF OInv, Delivered, LoggedOnly
  <2> QED BY <2>2, <2>3
<1>7. LoggedAll'
  <2> SUFFICES ASSUME NEW j \in 1..Len(sent), sent[j][2] \in 1..done
               PROVE  \/ \E i \in 1..Len(logs'[sent[j][1]]) : logs'[sent[j][1]][i] = sent[j][2]
                      \/ sessions'[sent[j][1]] # "active" /\ actions[sent[j][2]].tool = "send_message"
                      \/ sessions'[sent[j][1]] = "purged"
    BY DEF LoggedAll
  <2>1. sent[j][1] \in O!Addresses  BY DEF OInv, OutreachTyped
  <2>2. \/ \E i \in 1..Len(logs[sent[j][1]]) : logs[sent[j][1]][i] = sent[j][2]
        \/ sessions[sent[j][1]] # "active" /\ actions[sent[j][2]].tool = "send_message"
        \/ sessions[sent[j][1]] = "purged"
    BY DEF OInv, Delivered, LoggedAll
  <2>3. sessions[sent[j][1]] # "active" => sessions'[sent[j][1]] # "active"  BY <2>1
  <2>4. CASE logs'[sent[j][1]] = logs[sent[j][1]]  BY <2>1, <2>2, <2>3, <2>4
  <2>5. CASE sessions'[sent[j][1]] = "purged"  BY <2>5
  <2> QED BY <2>1, <2>4, <2>5
<1>8. RemindersDone'
  <2> SUFFICES ASSUME NEW i \in 1..done
               PROVE  /\ actions[i].tool = "cron_create" => crons'[i] # "none"
                      /\ actions[i].tool = "cron_cancel" => crons'[actions[i].cron] # "active"
    BY DEF RemindersDone
  <2>1. /\ actions[i].tool = "cron_create" => crons[i] # "none"
        /\ actions[i].tool = "cron_cancel" => crons[actions[i].cron] # "active"
    BY DEF OInv, RemindersDone
  <2>2. done \in Nat /\ Len(actions) \in Nat /\ done <= Len(actions) /\ Len(actions) <= MaxMessages /\ MaxMessages \in Nat
    BY OutreachAssumption DEF OInv, OutreachTyped
  <2>3. i \in 1..Len(actions) /\ i \in O!ActionIds  BY <2>2 DEF O!ActionIds
  <2>4. actions[i].tool = "cron_cancel" => actions[i].cron \in Reminders  BY <2>3 DEF OInv, ActionsChecked, Checked
  <2> QED BY <2>1, <2>3, <2>4
<1> QED BY <1>1, <1>2, <1>3, <1>4, <1>5, <1>6, <1>7, <1>8 DEF OInv, Delivered

LEMMA ChangesOInv ==
  ASSUME OInv,
         \/ \E a \in O!Addresses, purge \in BOOLEAN : O!removeSession(a, purge)
         \/ O!resetSession
         \/ \E c \in DOMAIN crons : O!completeCron(c)
  PROVE  OInv'
<1> DEFINE Statuses == {"none", "active", "completed", "canceled", "invalidated"}
           Ended(c) == crons'[c] = crons[c] \/ (crons[c] = "active" /\ crons'[c] \notin {"none", "active"})
<1>1. /\ sessions \in [O!Addresses -> {"none", "active", "removed", "purged"}]
      /\ crons \in [Reminders \cup O!ActionIds -> Statuses]
  BY DEF OInv, OutreachTyped
<1>2. O!invalidated \in [Reminders \cup O!ActionIds -> Statuses]
      /\ \A c \in Reminders \cup O!ActionIds :
            O!invalidated[c] = crons[c] \/ (crons[c] = "active" /\ O!invalidated[c] = "invalidated")
  BY <1>1 DEF O!invalidated
<1>3. UNCHANGED <<here, directory, at, messages, file, pending, actions, done, sent>>
      /\ logs \in [O!Addresses -> Seq(Nat)]
  BY DEF OInv, OutreachTyped, O!removeSession, O!resetSession, O!completeCron, O!Change, O!conversation, O!delivery
<1>4. CASE \E a \in O!Addresses, purge \in BOOLEAN : O!removeSession(a, purge)
  <2>1. PICK a \in O!Addresses, purge \in BOOLEAN : O!removeSession(a, purge)  BY <1>4
  <2>2. /\ sessions[a] = "active" /\ sessions' = [sessions EXCEPT ![a] = IF purge THEN "purged" ELSE "removed"]
        /\ logs' = IF purge THEN [logs EXCEPT ![a] = <<>>] ELSE logs
        /\ crons' = IF purge /\ a = here THEN O!invalidated ELSE crons
    BY <2>1 DEF O!removeSession
  <2>3. /\ sessions' \in [O!Addresses -> {"none", "active", "removed", "purged"}]
        /\ \A b \in O!Addresses : sessions'[b] = "active" => sessions[b] = "active"
        /\ \A b \in O!Addresses : sessions[b] = "purged" => sessions'[b] = "purged"
    BY <1>1, <2>2
  <2>5. /\ logs' \in [O!Addresses -> Seq(Nat)]
        /\ \A b \in O!Addresses : logs'[b] = logs[b] \/ (logs'[b] = <<>> /\ sessions'[b] = "purged")
    <3>1. CASE purge  BY <1>1, <1>3, <2>2, <3>1
    <3>2. CASE ~purge  BY <1>3, <2>2, <3>2
    <3> QED BY <3>1, <3>2
  <2>4. crons' \in [Reminders \cup O!ActionIds -> Statuses] /\ \A c \in Reminders \cup O!ActionIds : Ended(c)
    <3>1. CASE crons' = crons  BY <1>1, <3>1
    <3>2. CASE crons' = O!invalidated  BY <1>2, <3>2
    <3> QED BY <2>2, <3>1, <3>2
  <2> QED BY <1>3, <2>3, <2>4, <2>5, MeanwhileOInv
<1>5. CASE O!resetSession
  <2>1. crons' = O!invalidated /\ sessions' = sessions /\ logs' = logs  BY <1>5 DEF O!resetSession, O!delivery
  <2> QED BY <1>1, <1>2, <1>3, <2>1, MeanwhileOInv
<1>6. CASE \E c \in DOMAIN crons : O!completeCron(c)
  <2>1. PICK c \in DOMAIN crons : O!completeCron(c)  BY <1>6
  <2>2. crons[c] = "active" /\ crons' = [crons EXCEPT ![c] = "completed"] /\ sessions' = sessions /\ logs' = logs
    BY <2>1 DEF O!completeCron, O!delivery
  <2>3. crons' \in [Reminders \cup O!ActionIds -> Statuses] /\ \A d \in Reminders \cup O!ActionIds : Ended(d)
    BY <1>1, <2>2
  <2> QED BY <1>1, <1>3, <2>2, <2>3, MeanwhileOInv
<1> QED BY <1>4, <1>5, <1>6

LEMMA NextOInv == ASSUME OInv, O!Next PROVE OInv'
<1>1. CASE O!buildSnapshot  BY <1>1, SnapshotOInv
<1>2. CASE \E n \in 1..2 : \E calls \in [1..n -> Calls] : O!Answer(calls)  BY <1>2, AnswerOInv
<1>3. CASE O!RunTool  BY <1>3, RunToolOInv
<1>4. CASE O!installTerminalNoReplyHook  BY <1>4, HookOInv
<1>5. CASE O!finalizeTerminalNoReply  BY <1>5, FinalizeOInv
<1>6. CASE O!getLastAssistantText  BY <1>6, LastTextOInv
<1>7. CASE O!Send  BY <1>7, SendOInv
<1>8. CASE O!appendBotOutboundLog  BY <1>8, LogOInv
<1>9. CASE O!Edit  BY <1>9, EditOInv
<1>10. CASE O!createSessionCron  BY <1>10, CronCreateOInv
<1>11. CASE O!cancelSessionCron  BY <1>11, CronCancelOInv
<1>12. CASE O!Throws  BY <1>12, ThrowsOInv
<1>13. CASE O!Audited  BY <1>13, AuditedOInv
<1>14. CASE \/ \E a \in O!Addresses, purge \in BOOLEAN : O!removeSession(a, purge)
            \/ O!resetSession
            \/ \E c \in DOMAIN crons : O!completeCron(c)
  BY <1>14, ChangesOInv
<1> QED BY <1>1, <1>2, <1>3, <1>4, <1>5, <1>6, <1>7, <1>8, <1>9, <1>10, <1>11, <1>12, <1>13, <1>14 DEF O!Next

LEMMA SameOInv == ASSUME OInv, UNCHANGED outreachVars PROVE OInv'
<1>1. /\ UNCHANGED <<here, directory, at, messages, file, pending, actions, done, sent>>
      /\ sessions' = sessions /\ crons' = crons /\ logs' = logs
  BY DEF outreachVars
<1>2. /\ sessions \in [O!Addresses -> {"none", "active", "removed", "purged"}]
      /\ crons \in [Reminders \cup O!ActionIds -> {"none", "active", "completed", "canceled", "invalidated"}]
      /\ logs \in [O!Addresses -> Seq(Nat)]
  BY DEF OInv, OutreachTyped
<1> QED BY <1>1, <1>2, MeanwhileOInv

LEMMA OutreachSteps == [Next]_vars => O!Next \/ UNCHANGED outreachVars
BY DEF Next, Maintenance, Catalog, Runtime, Context, Schedule, Hear, Tools, Register, vars

\* (worker.ts:93, outbound-dispatch.ts:108) What OInv says of a turn's end.
LEMMA WordsFollow == ASSUME OInv PROVE WordsAndDeeds
<1> DEFINE Increasing(ids) == \A i, j \in DOMAIN ids : i < j => ids[i] < ids[j]
           ids == [i \in DOMAIN sent |-> sent[i][2]]
           to(a) == {ids[i] : i \in {j \in DOMAIN sent : sent[j][1] = a}}
           flying == at \in {"sending", "failed"}
           messagesOf(n) == {i \in 1..n : actions[i].tool \in O!sending}
           silenced == at \in {"deliver", "end"} /\ \E i \in DOMAIN actions : actions[i].tool = "no_reply"
           answered(i) == /\ i + Len(messages[i].calls) <= Len(messages)
                          /\ \A j \in DOMAIN messages[i].calls : messages[i + j].role = "toolResult"
<1>1. /\ sent \in Seq(O!Addresses \X Nat) /\ DOMAIN sent = 1..Len(sent) /\ Len(sent) \in Nat
      /\ logs \in [O!Addresses -> Seq(Nat)] /\ \A a \in O!Addresses : DOMAIN logs[a] = 1..Len(logs[a])
      /\ actions \in Seq(Calls) /\ DOMAIN actions = 1..Len(actions) /\ Len(actions) \in Nat
      /\ done \in Nat /\ file \in Seq(Message) /\ DOMAIN file = 1..Len(file)
  BY DEF OInv, OutreachTyped
<1>2. Increasing(ids)
  <2> SUFFICES ASSUME NEW i \in 1..Len(sent), NEW j \in 1..Len(sent), i < j PROVE sent[i][2] < sent[j][2]
    BY <1>1
  <2> QED BY DEF OInv, Delivered, SentInOrder
<1>3. \A n \in messagesOf(done) : n \in Range(ids)
  BY <1>1 DEF OInv, Delivered, SentAll, Range
<1>4. \A n \in Range(ids) : n \in messagesOf(done) \/ (n = done + 1 /\ flying)
  <2> SUFFICES ASSUME NEW i \in 1..Len(sent) PROVE sent[i][2] \in messagesOf(done) \/ (sent[i][2] = done + 1 /\ flying)
    BY <1>1 DEF Range
  <2> QED BY DEF OInv, Delivered, SentOnly
<1>5. Range(ids) = messagesOf(done) \/ (flying /\ Range(ids) = messagesOf(done) \cup {done + 1})
  <2>1. CASE done + 1 \in Range(ids) /\ flying
    <3> HIDE DEF ids, messagesOf, flying
    <3> QED BY <1>3, <1>4, <2>1
  <2>2. CASE ~(done + 1 \in Range(ids) /\ flying)
    <3> HIDE DEF ids, messagesOf, flying
    <3> QED BY <1>3, <1>4, <2>2
  <2> QED BY <2>1, <2>2
<1>6. ASSUME NEW a \in O!Addresses
      PROVE  /\ Increasing(logs[a]) /\ Range(logs[a]) \subseteq to(a)
             /\ \A n \in to(a) \ Range(logs[a]) :
                   \/ flying /\ n = done + 1
                   \/ sessions[a] # "active" /\ actions[n].tool = "send_message"
                   \/ sessions[a] = "purged"
  <2>1. Increasing(logs[a])  BY <1>1 DEF OInv, Delivered, LoggedInOrder
  <2>2. ASSUME NEW n \in Range(logs[a]) PROVE n \in to(a)
    <3>1. PICK i \in 1..Len(logs[a]) : n = logs[a][i]  BY <1>1 DEF Range
    <3>2. PICK j \in 1..Len(sent) : sent[j][1] = a /\ sent[j][2] = logs[a][i]  BY DEF OInv, Delivered, LoggedOnly
    <3> QED BY <1>1, <3>1, <3>2
  <2>3. ASSUME NEW n \in to(a), n \notin Range(logs[a])
        PROVE  \/ flying /\ n = done + 1
               \/ sessions[a] # "active" /\ actions[n].tool = "send_message"
               \/ sessions[a] = "purged"
    <3>1. PICK j \in 1..Len(sent) : sent[j][1] = a /\ sent[j][2] = n  BY <1>1
    <3>2. n \in 1..done \/ (flying /\ n = done + 1)  BY <3>1 DEF OInv, Delivered, SentOnly
    <3>3. CASE n \in 1..done
      <4>1. \A i \in 1..Len(logs[a]) : logs[a][i] # n  BY <1>1, <2>3 DEF Range
      <4> QED BY <3>1, <3>3, <4>1 DEF OInv, Delivered, LoggedAll
    <3> QED BY <3>2, <3>3
  <2> QED BY <2>1, <2>2, <2>3
<1>7. at = "end" => \A i \in DOMAIN actions :
              /\ actions[i].tool = "cron_create" => crons[i] # "none"
              /\ actions[i].tool = "cron_cancel" => crons[actions[i].cron] # "active"
  BY <1>1 DEF OInv, AtEnd, RemindersDone
<1>8. ASSUME silenced
      PROVE  /\ sent = <<>> /\ \A i \in O!ActionIds : crons[i] = "none"
             /\ file = messages
             /\ \A i \in DOMAIN messages : messages[i].role = "assistant" =>
                   answered(i) \/ \E j \in DOMAIN messages[i].calls : j > 1 /\ messages[i].calls[j].tool = "no_reply"
  <2>1. at \notin Working /\ at \in Delivering  BY <1>8 DEF Working, Delivering
  <2>2. Silenced  BY <1>1, <1>8 DEF Silenced
  <2>3. sent = <<>> /\ file = messages /\ pending = <<>>  BY <2>1, <2>2 DEF OInv, WhileDelivering
  <2>4. \A i \in O!ActionIds : crons[i] = "none"  BY <2>2 DEF OInv, NoneMade
  <2>5. ASSUME NEW i \in 1..Len(file), file[i].role = "assistant"
        PROVE  answered(i) \/ \E j \in DOMAIN messages[i].calls : j > 1 /\ messages[i].calls[j].tool = "no_reply"
    <3>1. Answered(file, i) \/ Abandoned(file, i)  BY <2>3, <2>5 DEF OInv, Conversed, Running
    <3>2. DOMAIN file[i].calls = 1..Len(file[i].calls)
      <4>1. file[i].calls \in Seq(Calls)  BY <1>1, <2>5 DEF Message
      <4> QED BY <4>1
    <3> QED BY <2>3, <3>1, <3>2 DEF Answered, ResultsOf, Abandoned
  <2> QED BY <1>1, <2>3, <2>4, <2>5
<1> QED BY <1>2, <1>5, <1>6, <1>7, <1>8 DEF WordsAndDeeds

\* (outbound-dispatch.ts:108, worker.ts:172) However long the turn and whatever
\* becomes of sessions and reminders meanwhile, what the tools queued is done in
\* order, once, and logged where no purge has taken the log; a turn ended by
\* no_reply does nothing.
THEOREM DeedsFollowWords == Spec => []WordsAndDeeds
<1>1. Init => OInv  BY InitOInv
<1>2. OInv /\ [Next]_vars => OInv'  BY OutreachSteps, NextOInv, SameOInv
<1>3. OInv => WordsAndDeeds  BY WordsFollow
<1> QED BY <1>1, <1>2, <1>3, PTL DEF Spec

-----------------------------------------------------------------------------
(* Inbound. *)

\* What is tracked, and what was said: each chat at one place, its ids in the order they were said.
OneEach(J) == \A x, y \in 1..Len(J) : J[x][1] = J[y][1] => x = y
Rising(ids) == \A y, z \in 1..Len(ids) : y < z => ids[y] < ids[z]
AllSaid(J, H) == \A x \in 1..Len(J) : \A y \in 1..Len(J[x][2]) : \E i \in 1..Len(H) : H[i] = <<J[x][1], J[x][2][y]>>

\* A message is forgotten only after enough others; while it is held, each id behind it, and each
\* chat behind its chat, was said since.
SinceIn(H, i) == {j \in (i + 1)..Len(H) : H[j][1] = H[i][1]}
OthersSince(H, i) == {H[j][1] : j \in (i + 1)..Len(H)} \ {H[i][1]}
Forgotten(H, i) == Cardinality(SinceIn(H, i)) >= MaxTrackedIds \/ Cardinality(OthersSince(H, i)) >= MaxTrackedChats
Held(J, H, i, x, y) ==
  /\ J[x][1] = H[i][1] /\ J[x][2][y] = H[i][2]
  /\ \A z \in (y + 1)..Len(J[x][2]) : \E j \in (i + 1)..Len(H) : H[j] = <<H[i][1], J[x][2][z]>>
  /\ \A z \in (x + 1)..Len(J) : \E j \in (i + 1)..Len(H) : H[j][1] = J[z][1]
Remembered(J, H) ==
  \A i \in 1..Len(H) : Forgotten(H, i) \/ \E x \in 1..Len(J) : \E y \in 1..Len(J[x][2]) : Held(J, H, i, x, y)

Noted(J, H) ==
  /\ J \in Seq(Chats \X Seq(Nat)) /\ H \in Seq(Chats \X Nat)
  /\ OneEach(J) /\ \A x \in 1..Len(J) : Rising(J[x][2])
  /\ AllSaid(J, H) /\ Remembered(J, H)

\* What the last message came to, by what is tracked.
Tracks(J, c, id) == id # 0 /\ \E x \in 1..Len(J) : \E y \in 1..Len(J[x][2]) : J[x][1] = c /\ J[x][2][y] = id
HeardRight ==
  heard.kind \in {"dm", "group"} =>
      /\ heard.chat \in Chats
      /\ heard.wakes <=>
            \/ heard.kind = "dm"
            \/ groupTrigger = "all"
            \/ Tracks(idsByChat, heard.chat, heard.event.replyTo)
            \/ heard.event.mentions # {} /\ "me" \in heard.event.mentions

IInv ==
  /\ Noted(idsByChat, said) /\ counter \in [Chats -> Nat]
  /\ \A i \in 1..Len(said) : said[i][2] \in 1..counter[said[i][1]]
  /\ HeardRight

LEMMA Enough ==
  ASSUME NEW n \in Nat, NEW T, IsFiniteSet(T), NEW f \in [1..n -> T], \A a, b \in 1..n : f[a] = f[b] => a = b
  PROVE  Cardinality(T) \in Nat /\ Cardinality(T) >= n
<1>1. f \in Injection(1..n, T)  BY DEF Injection, IsInjective
<1>2. Cardinality(1..n) = n  BY FS_Interval
<1>3. Cardinality(1..n) <= Cardinality(T)  BY <1>1, FS_Injection
<1>4. Cardinality(T) \in Nat  BY FS_CardinalityType
<1> QED BY <1>2, <1>3, <1>4

LEMMA SinceFinite ==
  ASSUME NEW H \in Seq(Chats \X Nat), NEW i \in 1..Len(H)
  PROVE  IsFiniteSet(SinceIn(H, i)) /\ IsFiniteSet(OthersSince(H, i))
<1> DEFINE later == (i + 1)..Len(H)
           chats == {H[j][1] : j \in later}
           f == [j \in later |-> H[j][1]]
<1>1. IsFiniteSet(later)  BY FS_Interval
<1>2. IsFiniteSet(SinceIn(H, i))  BY <1>1, FS_Subset DEF SinceIn
<1>3. f \in Surjection(later, chats)  BY DEF Surjection
<1>4. IsFiniteSet(chats)  BY <1>1, <1>3, FS_Surjection
<1>5. OthersSince(H, i) \subseteq chats  BY DEF OthersSince
<1>6. IsFiniteSet(OthersSince(H, i))  BY <1>4, <1>5, FS_Subset
<1> QED BY <1>2, <1>6

\* What is forgotten stays so when more is said.
LEMMA ForgottenStays ==
  ASSUME NEW H \in Seq(Chats \X Nat), NEW G \in Seq(Chats \X Nat), Len(H) <= Len(G), \A j \in 1..Len(H) : G[j] = H[j],
         NEW i \in 1..Len(H), Forgotten(H, i), {MaxTrackedChats, MaxTrackedIds} \subseteq Nat
  PROVE  Forgotten(G, i)
<1>1. Len(H) \in Nat /\ Len(G) \in Nat /\ i \in 1..Len(G)  OBVIOUS
<1>2. \A j \in (i + 1)..Len(H) : j \in (i + 1)..Len(G) /\ G[j] = H[j]  BY <1>1
<1>3. G[i] = H[i]  OBVIOUS
<1>4. SinceIn(H, i) \subseteq SinceIn(G, i) /\ OthersSince(H, i) \subseteq OthersSince(G, i)
  BY <1>2, <1>3 DEF SinceIn, OthersSince
<1>5. IsFiniteSet(SinceIn(G, i)) /\ IsFiniteSet(OthersSince(G, i))  BY <1>1, SinceFinite
<1>6. /\ Cardinality(SinceIn(H, i)) <= Cardinality(SinceIn(G, i))
      /\ Cardinality(OthersSince(H, i)) <= Cardinality(OthersSince(G, i))
  BY <1>4, <1>5, FS_Subset
<1>7. {Cardinality(SinceIn(H, i)), Cardinality(SinceIn(G, i)), Cardinality(OthersSince(H, i)), Cardinality(OthersSince(G, i))} \subseteq Nat
  BY <1>4, <1>5, FS_Subset, FS_CardinalityType
<1> QED BY <1>6, <1>7 DEF Forgotten

\* The end of s, of n elements when something is cut.
CutTo(t, s, n) ==
  \E d \in 0..Len(s) :
     /\ Len(t) = Len(s) - d /\ (d > 0 => Len(s) - d = n)
     /\ \A k \in 1..(Len(s) - d) : t[k] = s[d + k]

LEMMA LastOfFacts ==
  ASSUME NEW V, NEW s \in Seq(V), NEW n \in Nat
  PROVE  I!lastOf(s, n) \in Seq(V) /\ CutTo(I!lastOf(s, n), s, n)
<1>1. Len(s) \in Nat  OBVIOUS
<1>2. ASSUME NEW d \in 0..Len(s), I!lastOf(s, n) = SubSeq(s, d + 1, Len(s))
      PROVE  /\ I!lastOf(s, n) \in Seq(V) /\ Len(I!lastOf(s, n)) = Len(s) - d
             /\ \A k \in 1..(Len(s) - d) : I!lastOf(s, n)[k] = s[d + k]
  <2> DEFINE q == SubSeq(s, d + 1, Len(s))
  <2>1. \A i \in (d + 1)..Len(s) : s[i] \in V  BY <1>1
  <2>2. /\ q \in Seq(V)
        /\ Len(q) = IF d + 1 <= Len(s) THEN Len(s) - (d + 1) + 1 ELSE 0
        /\ \A i \in 1..(Len(s) - (d + 1) + 1) : q[i] = s[d + 1 + i - 1]
    BY <1>1, <2>1, SubSeqProperties
  <2> HIDE DEF q
  <2>3. /\ (IF d + 1 <= Len(s) THEN Len(s) - (d + 1) + 1 ELSE 0) = Len(s) - d
        /\ Len(s) - (d + 1) + 1 = Len(s) - d
        /\ \A i \in 1..(Len(s) - d) : d + 1 + i - 1 = d + i
    BY <1>1
  <2>4. Len(q) = Len(s) - d  BY <2>2, <2>3
  <2>5. \A i \in 1..(Len(s) - d) : q[i] = s[d + i]  BY <2>2, <2>3
  <2>6. I!lastOf(s, n) = q  BY <1>2 DEF q
  <2> QED BY <2>2, <2>4, <2>5, <2>6
<1>3. CASE Len(s) > n
  <2> DEFINE d == Len(s) - n
  <2>1. d \in 0..Len(s) /\ d + 1 = Len(s) - n + 1 /\ Len(s) - d = n  BY <1>1, <1>3
  <2>2. I!lastOf(s, n) = SubSeq(s, d + 1, Len(s))  BY <1>3, <2>1 DEF I!lastOf
  <2> HIDE DEF d
  <2> QED BY <1>2, <2>1, <2>2 DEF CutTo
<1>4. CASE ~(Len(s) > n)
  <2>1. I!lastOf(s, n) = SubSeq(s, 0 + 1, Len(s))  BY <1>4 DEF I!lastOf
  <2>2. 0 \in 0..Len(s)  BY <1>1
  <2> QED BY <1>2, <2>1, <2>2 DEF CutTo
<1> QED BY <1>3, <1>4

\* Dropping the oldest ids of chats, down to MaxTrackedIds of them, forgets only what may be.
LEMMA CutIds ==
  ASSUME MaxTrackedIds \in Nat, NEW J, NEW H, Noted(J, H), NEW G \in Seq(Chats \X Seq(Nat)), Len(G) = Len(J),
         \A x \in 1..Len(J) :
            /\ G[x][1] = J[x][1]
            /\ CutTo(G[x][2], J[x][2], MaxTrackedIds)
  PROVE  Noted(G, H)
<1>1. /\ J \in Seq(Chats \X Seq(Nat)) /\ H \in Seq(Chats \X Nat) /\ Len(J) \in Nat /\ Len(H) \in Nat
      /\ \A x \in 1..Len(J) : Len(J[x][2]) \in Nat /\ \A y \in 1..Len(J[x][2]) : J[x][2][y] \in Nat
  <2>1. J \in Seq(Chats \X Seq(Nat)) /\ H \in Seq(Chats \X Nat)  BY DEF Noted
  <2>2. ASSUME NEW x \in 1..Len(J) PROVE Len(J[x][2]) \in Nat /\ \A y \in 1..Len(J[x][2]) : J[x][2][y] \in Nat
    <3> DEFINE ids == J[x][2]
    <3>1. ids \in Seq(Nat)  BY <2>1
    <3> HIDE DEF ids
    <3>2. Len(ids) \in Nat /\ \A y \in 1..Len(ids) : ids[y] \in Nat  BY <3>1
    <3> QED BY <3>2 DEF ids
  <2> QED BY <2>1, <2>2
<1>2. OneEach(G)  BY DEF Noted, OneEach
<1>3. ASSUME NEW x \in 1..Len(G) PROVE Rising(G[x][2])
  <2>1. PICK d \in 0..Len(J[x][2]) : /\ Len(G[x][2]) = Len(J[x][2]) - d
                                     /\ \A k \in 1..(Len(J[x][2]) - d) : G[x][2][k] = J[x][2][d + k]
    BY DEF CutTo
  <2>2. ASSUME NEW y \in 1..Len(G[x][2]), NEW z \in 1..Len(G[x][2]), y < z PROVE G[x][2][y] < G[x][2][z]
    <3>1. d + y \in 1..Len(J[x][2]) /\ d + z \in 1..Len(J[x][2]) /\ d + y < d + z  BY <1>1, <2>1, <2>2
    <3>2. J[x][2][d + y] < J[x][2][d + z]  BY <3>1 DEF Noted, Rising
    <3> QED BY <2>1, <3>2
  <2> QED BY <2>2 DEF Rising
<1>4. AllSaid(G, H)
  <2> SUFFICES ASSUME NEW x \in 1..Len(G), NEW y \in 1..Len(G[x][2])
               PROVE  \E i \in 1..Len(H) : H[i] = <<G[x][1], G[x][2][y]>>
    BY DEF AllSaid
  <2>1. PICK d \in 0..Len(J[x][2]) : /\ Len(G[x][2]) = Len(J[x][2]) - d
                                     /\ \A k \in 1..(Len(J[x][2]) - d) : G[x][2][k] = J[x][2][d + k]
    BY DEF CutTo
  <2>2. d + y \in 1..Len(J[x][2]) /\ G[x][2][y] = J[x][2][d + y]  BY <1>1, <2>1
  <2> QED BY <2>2 DEF Noted, AllSaid
<1>5. Remembered(G, H)
  <2> SUFFICES ASSUME NEW i \in 1..Len(H), ~Forgotten(H, i)
               PROVE  \E x \in 1..Len(G) : \E y \in 1..Len(G[x][2]) : Held(G, H, i, x, y)
    BY DEF Remembered
  <2>a. PICK x \in 1..Len(J) : \E y \in 1..Len(J[x][2]) : Held(J, H, i, x, y)  BY DEF Noted, Remembered
  <2>1. PICK y \in 1..Len(J[x][2]) : Held(J, H, i, x, y)  BY <2>a
  <2>2. PICK d \in 0..Len(J[x][2]) : /\ Len(G[x][2]) = Len(J[x][2]) - d /\ (d > 0 => Len(J[x][2]) - d = MaxTrackedIds)
                                     /\ \A k \in 1..(Len(J[x][2]) - d) : G[x][2][k] = J[x][2][d + k]
    BY DEF CutTo
  <2> DEFINE ids == J[x][2]
             kept == G[x][2]
             n == Len(ids)
  <2>3. /\ n \in Nat /\ d \in Nat /\ d <= n /\ y \in Nat /\ 1 <= y /\ y <= n /\ i \in Nat
        /\ Len(kept) = n - d /\ (d > 0 => n - d = MaxTrackedIds)
        /\ \A k \in 1..(n - d) : kept[k] = ids[d + k]
        /\ \A z \in 1..n : ids[z] \in Nat
    BY <1>1, <2>2
  <2>0. \A z, w \in 1..n : z < w => ids[z] < ids[w]  BY DEF Noted, Rising
  <2>4. /\ J[x][1] = H[i][1] /\ ids[y] = H[i][2] /\ G[x][1] = J[x][1]
        /\ \A z \in (y + 1)..n : \E j \in (i + 1)..Len(H) : H[j] = <<H[i][1], ids[z]>>
        /\ \A z \in (x + 1)..Len(J) : \E j \in (i + 1)..Len(H) : H[j][1] = J[z][1]
    BY <2>1 DEF Held
  <2> HIDE DEF ids, kept, n
  <2>5. CASE y > d
    <3>1. y - d \in 1..(n - d) /\ d + (y - d) = y  BY <2>3, <2>5
    <3>2. kept[y - d] = H[i][2]  BY <2>3, <2>4, <3>1
    <3>3. ASSUME NEW z \in ((y - d) + 1)..(n - d) PROVE \E j \in (i + 1)..Len(H) : H[j] = <<H[i][1], kept[z]>>
      <4>1. d + z \in (y + 1)..n /\ z \in 1..(n - d)  BY <2>3, <2>5
      <4>2. kept[z] = ids[d + z]  BY <2>3, <4>1
      <4>3. PICK j \in (i + 1)..Len(H) : H[j] = <<H[i][1], ids[d + z]>>  BY <2>4, <4>1
      <4> QED BY <4>2, <4>3
    <3>4. ASSUME NEW z \in (x + 1)..Len(G) PROVE \E j \in (i + 1)..Len(H) : H[j][1] = G[z][1]
      <4>1. z \in 1..Len(J) /\ z \in (x + 1)..Len(J)  BY <1>1
      <4> QED BY <2>4, <4>1
    <3>5. Held(G, H, i, x, y - d)  BY <2>3, <2>4, <3>2, <3>3, <3>4 DEF Held, kept
    <3>6. x \in 1..Len(G) /\ y - d \in 1..Len(G[x][2])  BY <2>3, <3>1 DEF kept
    <3> QED BY <3>5, <3>6
  <2>6. CASE ~(y > d)
    <3> DEFINE m == MaxTrackedIds
               f == [k \in 1..m |-> CHOOSE j \in (i + 1)..Len(H) : H[j] = <<H[i][1], ids[d + k]>>]
    <3>1. d > 0 /\ n - d = m /\ n = d + m  BY <2>3, <2>6
    <3>2. ASSUME NEW k \in 1..m PROVE d + k \in (y + 1)..n /\ d + k \in 1..n
      BY <2>3, <2>6, <3>1
    <3>3. ASSUME NEW k \in 1..m PROVE f[k] \in (i + 1)..Len(H) /\ H[f[k]] = <<H[i][1], ids[d + k]>>
      <4>1. \E j \in (i + 1)..Len(H) : H[j] = <<H[i][1], ids[d + k]>>  BY <2>4, <3>2
      <4>2. f[k] = CHOOSE j \in (i + 1)..Len(H) : H[j] = <<H[i][1], ids[d + k]>>  OBVIOUS
      <4> HIDE DEF f
      <4> QED BY <4>1, <4>2
    <3>4. f \in [1..m -> SinceIn(H, i)]
      <4>1. ASSUME NEW k \in 1..m PROVE f[k] \in SinceIn(H, i)
        <5> HIDE DEF f
        <5>1. f[k] \in (i + 1)..Len(H) /\ H[f[k]][1] = H[i][1]  BY <3>3
        <5> QED BY <5>1 DEF SinceIn
      <4> QED BY <4>1
    <3> HIDE DEF f
    <3>5. ASSUME NEW a \in 1..m, NEW b \in 1..m, f[a] = f[b] PROVE a = b
      <4> DEFINE ofA == ids[d + a]
                 ofB == ids[d + b]
      <4>0. H[f[a]] = <<H[i][1], ofA>> /\ H[f[b]] = <<H[i][1], ofB>>  BY <3>3
      <4>1. ofA = ofB  BY <3>5, <4>0
      <4>2. d + a \in 1..n /\ d + b \in 1..n  BY <3>2
      <4>3. ids[d + a] \in Nat /\ ids[d + b] \in Nat  BY <2>3, <4>2
      <4>4. d + a < d + b => ofA < ofB  BY <2>0, <4>2
      <4>5. d + b < d + a => ofB < ofA  BY <2>0, <4>2
      <4> HIDE DEF ofA, ofB
      <4>6. ofA \in Nat /\ ofB \in Nat  BY <4>3 DEF ofA, ofB
      <4> QED BY <2>3, <4>1, <4>4, <4>5, <4>6
    <3>6. IsFiniteSet(SinceIn(H, i))  BY <1>1, SinceFinite
    <3>7. Cardinality(SinceIn(H, i)) >= m  BY <3>4, <3>5, <3>6, Enough
    <3> QED BY <3>7 DEF Forgotten
  <2> QED BY <2>5, <2>6
<1> QED BY <1>1, <1>2, <1>3, <1>4, <1>5 DEF Noted

\* So does dropping the oldest chats, down to MaxTrackedChats of them.
LEMMA CutChats ==
  ASSUME MaxTrackedChats \in Nat, NEW J, NEW H, Noted(J, H), NEW G \in Seq(Chats \X Seq(Nat)),
         CutTo(G, J, MaxTrackedChats)
  PROVE  Noted(G, H)
<1>1. J \in Seq(Chats \X Seq(Nat)) /\ H \in Seq(Chats \X Nat) /\ Len(J) \in Nat /\ Len(H) \in Nat  BY DEF Noted
<1>0. PICK d \in 0..Len(J) : /\ Len(G) = Len(J) - d /\ (d > 0 => Len(J) - d = MaxTrackedChats)
                             /\ \A k \in 1..(Len(J) - d) : G[k] = J[d + k]
  BY DEF CutTo
<1>2. ASSUME NEW x \in 1..Len(G) PROVE d + x \in 1..Len(J) /\ G[x] = J[d + x]  BY <1>0, <1>1
<1>3. OneEach(G)
  <2> SUFFICES ASSUME NEW x \in 1..Len(G), NEW y \in 1..Len(G), G[x][1] = G[y][1] PROVE x = y
    BY DEF OneEach
  <2>1. J[d + x][1] = J[d + y][1]  BY <1>2
  <2>2. d + x = d + y  BY <1>2, <2>1 DEF Noted, OneEach
  <2> QED BY <1>0, <1>1, <2>2
<1>4. \A x \in 1..Len(G) : Rising(G[x][2])
  <2> SUFFICES ASSUME NEW x \in 1..Len(G) PROVE Rising(G[x][2])
    OBVIOUS
  <2>1. Rising(J[d + x][2])  BY <1>2 DEF Noted
  <2> QED BY <1>2, <2>1
<1>5. AllSaid(G, H)
  <2> SUFFICES ASSUME NEW x \in 1..Len(G), NEW y \in 1..Len(G[x][2])
               PROVE  \E i \in 1..Len(H) : H[i] = <<G[x][1], G[x][2][y]>>
    BY DEF AllSaid
  <2>1. \E i \in 1..Len(H) : H[i] = <<J[d + x][1], J[d + x][2][y]>>  BY <1>2 DEF Noted, AllSaid
  <2> QED BY <1>2, <2>1
<1>6. Remembered(G, H)
  <2> SUFFICES ASSUME NEW i \in 1..Len(H), ~Forgotten(H, i)
               PROVE  \E x \in 1..Len(G) : \E y \in 1..Len(G[x][2]) : Held(G, H, i, x, y)
    BY DEF Remembered
  <2>a. PICK x \in 1..Len(J) : \E y \in 1..Len(J[x][2]) : Held(J, H, i, x, y)  BY DEF Noted, Remembered
  <2>1. PICK y \in 1..Len(J[x][2]) : Held(J, H, i, x, y)  BY <2>a
  <2> DEFINE n == Len(J)
  <2>2. /\ n \in Nat /\ d \in Nat /\ d <= n /\ x \in Nat /\ 1 <= x /\ x <= n /\ i \in Nat
        /\ Len(G) = n - d /\ (d > 0 => n - d = MaxTrackedChats)
        /\ \A k \in 1..(n - d) : G[k] = J[d + k]
        /\ \A z, w \in 1..n : J[z][1] = J[w][1] => z = w
    BY <1>0, <1>1 DEF Noted, OneEach
  <2>3. J[x][1] = H[i][1] /\ \A z \in (x + 1)..n : \E j \in (i + 1)..Len(H) : H[j][1] = J[z][1]
    BY <2>1 DEF Held
  <2> HIDE DEF n
  <2>4. CASE x > d
    <3>1. x - d \in 1..(n - d) /\ d + (x - d) = x  BY <2>2, <2>4
    <3>2. G[x - d] = J[x]  BY <2>2, <3>1
    <3>3. ASSUME NEW z \in ((x - d) + 1)..(n - d) PROVE \E j \in (i + 1)..Len(H) : H[j][1] = G[z][1]
      <4>1. z \in 1..(n - d) /\ d + z \in (x + 1)..n  BY <2>2, <2>4
      <4>2. G[z] = J[d + z]  BY <2>2, <4>1
      <4> QED BY <2>3, <4>1, <4>2
    <3>4. Held(G, H, i, x - d, y)  BY <2>1, <2>2, <3>2, <3>3 DEF Held
    <3>5. x - d \in 1..Len(G) /\ y \in 1..Len(G[x - d][2])  BY <2>2, <3>1, <3>2
    <3> QED BY <3>4, <3>5
  <2>5. CASE ~(x > d)
    <3> DEFINE m == MaxTrackedChats
               f == [k \in 1..m |-> J[d + k][1]]
    <3>1. d > 0 /\ n - d = m /\ n = d + m  BY <2>2, <2>5
    <3>2. ASSUME NEW k \in 1..m PROVE d + k \in (x + 1)..n /\ d + k \in 1..n /\ x \in 1..n /\ x # d + k
      BY <2>2, <2>5, <3>1
    <3>3. ASSUME NEW k \in 1..m PROVE f[k] \in OthersSince(H, i)
      <4>1. PICK j \in (i + 1)..Len(H) : H[j][1] = J[d + k][1]  BY <2>3, <3>2
      <4>2. J[d + k][1] # J[x][1]  BY <2>2, <3>2
      <4>3. J[d + k][1] \in OthersSince(H, i)  BY <2>3, <4>1, <4>2 DEF OthersSince
      <4> QED BY <4>3
    <3>4. f \in [1..m -> OthersSince(H, i)]
      <4>1. \A k \in 1..m : f[k] \in OthersSince(H, i)  BY <3>3
      <4> QED BY <4>1
    <3>5. ASSUME NEW a \in 1..m, NEW b \in 1..m, f[a] = f[b] PROVE a = b
      <4>1. J[d + a][1] = J[d + b][1]  BY <3>5
      <4>2. d + a = d + b  BY <2>2, <3>2, <4>1
      <4> QED BY <2>2, <4>2
    <3>6. IsFiniteSet(OthersSince(H, i))  BY <1>1, SinceFinite
    <3> HIDE DEF f
    <3>7. Cardinality(OthersSince(H, i)) >= m  BY <3>4, <3>5, <3>6, Enough
    <3> QED BY <3>7 DEF Forgotten
  <2> QED BY <2>4, <2>5
<1> QED BY <1>1, <1>3, <1>4, <1>5, <1>6 DEF Noted

\* K is J with the entry of c moved to the end, the others in their order; all is ids with refs
\* behind them; G is H with refs said to c.
Moved(J, K, c, m, from) ==
  /\ from \in [1..m -> 1..Len(J)]
  /\ \A a, b \in 1..m : a < b => from[a] < from[b]
  /\ \A a \in 1..m : K[a] = J[from[a]] /\ K[a][1] # c
  /\ \A x \in 1..Len(J) : J[x][1] # c => \E a \in 1..m : from[a] = x
  /\ K[m + 1][1] = c
Joined(all, ids, p, refs, r) ==
  /\ \A y \in 1..p : all[y] = ids[y]
  /\ \A k \in 1..r : all[p + k] = refs[k]
SaidTo(H, G, n, c, refs, r) ==
  /\ \A j \in 1..n : G[j] = H[j]
  /\ \A k \in 1..r : G[n + k] = <<c, refs[k]>>
IdsOf(J, c, ids, p) ==
  /\ \A x \in 1..Len(J) : J[x][1] = c => J[x][2] = ids
  /\ p > 0 => \E x \in 1..Len(J) : J[x][1] = c

LEMMA Sums ==
  ASSUME NEW n \in Nat, NEW r \in Nat, r > 0
  PROVE  /\ n + r \in Nat /\ n < n + r
         /\ \A k \in 1..r : n + k \in 1..(n + r)
         /\ \A i \in 1..(n + r) : i \in 1..n \/ (i - n \in 1..r /\ n + (i - n) = i)
OBVIOUS

LEMMA Between ==
  ASSUME NEW b \in Nat, NEW u \in 1..b, NEW v \in 1..b
  PROVE  u \in Int /\ (u = v => ~(u < v) /\ ~(v < u)) /\ (u < v => v \in (u + 1)..b)
OBVIOUS

Noting(J, K, m, from, ids, p, refs, r, all, c, H, G, n) ==
  /\ {MaxTrackedChats, MaxTrackedIds} \subseteq Nat /\ m \in Nat /\ p \in Nat /\ r \in Nat /\ n \in Nat /\ c \in Chats
  /\ Noted(J, H) /\ Len(H) = n /\ IdsOf(J, c, ids, p)
  /\ ids \in Seq(Nat) /\ Len(ids) = p /\ refs \in Seq(Nat) /\ Len(refs) = r /\ r > 0
  /\ all \in Seq(Nat) /\ Len(all) = p + r /\ Joined(all, ids, p, refs, r) /\ Rising(all)
  /\ K \in Seq(Chats \X Seq(Nat)) /\ Len(K) = m + 1 /\ Moved(J, K, c, m, from) /\ K[m + 1][2] = all
  /\ G \in Seq(Chats \X Nat) /\ Len(G) = n + r /\ SaidTo(H, G, n, c, refs, r)

LEMMA MoveToEnd ==
  ASSUME NEW J, NEW K, NEW m, NEW from, NEW ids, NEW p, NEW refs, NEW r, NEW all, NEW c, NEW H, NEW G, NEW n,
         Noting(J, K, m, from, ids, p, refs, r, all, c, H, G, n)
  PROVE  Noted(K, G)
<1>0. /\ {MaxTrackedChats, MaxTrackedIds} \subseteq Nat /\ m \in Nat /\ p \in Nat /\ r \in Nat /\ n \in Nat /\ c \in Chats
      /\ Noted(J, H) /\ Len(H) = n /\ IdsOf(J, c, ids, p)
      /\ ids \in Seq(Nat) /\ Len(ids) = p /\ refs \in Seq(Nat) /\ Len(refs) = r /\ r > 0
      /\ all \in Seq(Nat) /\ Len(all) = p + r /\ Joined(all, ids, p, refs, r) /\ Rising(all)
      /\ K \in Seq(Chats \X Seq(Nat)) /\ Len(K) = m + 1 /\ Moved(J, K, c, m, from) /\ K[m + 1][2] = all
      /\ G \in Seq(Chats \X Nat) /\ Len(G) = n + r /\ SaidTo(H, G, n, c, refs, r)
  BY DEF Noting
<1>1. \A x \in 1..Len(K) : x \in 1..m \/ x = m + 1
  <2>1. Len(K) = m + 1 /\ m \in Nat  BY <1>0
  <2>2. \A x \in 1..(m + 1) : x \in 1..m \/ x = m + 1  BY <2>1
  <2> QED BY <2>1, <2>2
<1>2. \A y \in 1..(p + r) : y \in 1..p \/ (y - p \in 1..r /\ p + (y - p) = y)
  <2>1. p \in Nat /\ r \in Nat  BY <1>0
  <2> QED BY <2>1
<1>c. n <= Len(G)
  <2>1. n \in Nat /\ r \in Nat /\ Len(G) = n + r  BY <1>0
  <2> QED BY <2>1
<1> USE <1>0
<1>3. H \in Seq(Chats \X Nat) /\ K[m + 1][1] = c /\ Len(J) \in Nat
  <2>1. J \in Seq(Chats \X Seq(Nat))  BY DEF Noted
  <2> QED BY <2>1 DEF Noted, Moved
<1> DEFINE l == n + r
<1>a. l \in Nat /\ n < l /\ (\A k \in 1..r : n + k \in 1..l) /\ \A i \in 1..l : i \in 1..n \/ (i - n \in 1..r /\ n + (i - n) = i)
  BY Sums
<1>b. Len(G) = l  OBVIOUS
<1> HIDE DEF l
<1>4. OneEach(K)
  <2> SUFFICES ASSUME NEW x \in 1..Len(K), NEW y \in 1..Len(K), K[x][1] = K[y][1] PROVE x = y
    BY DEF OneEach
  <2>1. CASE x \in 1..m /\ y \in 1..m
    <3>1. J[from[x]][1] = J[from[y]][1] /\ from[x] \in 1..Len(J) /\ from[y] \in 1..Len(J)  BY <2>1 DEF Moved
    <3>2. from[x] = from[y]  BY <3>1 DEF Noted, OneEach
    <3>3. (x < y => from[x] < from[y]) /\ (y < x => from[y] < from[x])  BY <2>1 DEF Moved
    <3>4. ~(from[x] < from[y]) /\ ~(from[y] < from[x])  BY <1>3, <3>1, <3>2, Between
    <3>5. ~(x < y) /\ ~(y < x)  BY <3>3, <3>4
    <3> QED BY <2>1, <3>5
  <2>2. CASE ~(x \in 1..m /\ y \in 1..m)
    <3>1. \A a \in 1..m : K[a][1] # K[m + 1][1]  BY <1>3 DEF Moved
    <3> QED BY <1>1, <2>2, <3>1
  <2> QED BY <2>1, <2>2
<1>5. \A x \in 1..Len(K) : Rising(K[x][2])
  <2>1. ASSUME NEW x \in 1..m PROVE Rising(K[x][2])
    <3>1. from[x] \in 1..Len(J) /\ K[x] = J[from[x]]  BY DEF Moved
    <3> QED BY <3>1 DEF Noted
  <2> QED BY <1>1, <2>1
<1>6. ASSUME NEW j \in 1..n PROVE j \in 1..Len(G) /\ G[j] = H[j]
  <2>1. j \in 1..Len(G)  BY <1>a, <1>b
  <2> QED BY <2>1 DEF SaidTo
<1>7. ASSUME NEW k \in 1..r PROVE n + k \in 1..Len(G) /\ G[n + k] = <<c, refs[k]>>
  <2>1. n + k \in 1..Len(G)  BY <1>a, <1>b
  <2> QED BY <2>1 DEF SaidTo
<1>8. AllSaid(K, G)
  <2> SUFFICES ASSUME NEW x \in 1..Len(K), NEW y \in 1..Len(K[x][2])
               PROVE  \E i \in 1..Len(G) : G[i] = <<K[x][1], K[x][2][y]>>
    BY DEF AllSaid
  <2>1. ASSUME NEW w \in 1..Len(J), NEW v \in 1..Len(J[w][2]) PROVE \E i \in 1..Len(G) : G[i] = <<J[w][1], J[w][2][v]>>
    <3>1. PICK i \in 1..n : H[i] = <<J[w][1], J[w][2][v]>>  BY DEF Noted, AllSaid
    <3> QED BY <1>6, <3>1
  <2>2. CASE x \in 1..m
    <3>1. from[x] \in 1..Len(J) /\ K[x] = J[from[x]]  BY <2>2 DEF Moved
    <3> QED BY <2>1, <3>1
  <2>3. CASE x = m + 1
    <3>1. K[x][1] = c /\ K[x][2] = all /\ y \in 1..(p + r)
      <4>1. K[x][2] = all  BY <2>3
      <4> QED BY <1>3, <2>3, <4>1
    <3>2. CASE y \in 1..p
      <4>1. p > 0  BY <3>2
      <4>2. PICK w \in 1..Len(J) : J[w][1] = c  BY <4>1 DEF IdsOf
      <4>3. J[w][2] = ids /\ all[y] = ids[y] /\ y \in 1..Len(ids)  BY <3>2, <4>2 DEF IdsOf, Joined
      <4>4. y \in 1..Len(J[w][2]) /\ J[w][2][y] = all[y]  BY <4>3
      <4>5. \E i \in 1..Len(G) : G[i] = <<J[w][1], J[w][2][y]>>  BY <2>1, <4>4
      <4> QED BY <3>1, <4>2, <4>4, <4>5
    <3>3. CASE y \notin 1..p
      <4>1. y - p \in 1..r /\ p + (y - p) = y  BY <1>2, <3>1, <3>3
      <4>2. all[y] = refs[y - p]  BY <4>1 DEF Joined
      <4>3. G[n + (y - p)] = <<c, refs[y - p]>> /\ n + (y - p) \in 1..Len(G)  BY <1>7, <4>1
      <4> QED BY <3>1, <4>2, <4>3
    <3> QED BY <3>2, <3>3
  <2> QED BY <1>1, <2>2, <2>3
<1>9. ASSUME NEW i \in 1..n, ~Forgotten(G, i)
      PROVE  \E x \in 1..Len(K) : \E y \in 1..Len(K[x][2]) : Held(K, G, i, x, y)
  <2>1. ~Forgotten(H, i)
    <3>2. Len(H) <= Len(G) /\ i \in 1..Len(H) /\ \A j \in 1..Len(H) : G[j] = H[j]  BY <1>6, <1>c
    <3> QED BY <1>3, <1>9, <3>2, ForgottenStays
  <2>2. PICK x \in 1..Len(J) : \E y \in 1..Len(J[x][2]) : Held(J, H, i, x, y)  BY <2>1 DEF Noted, Remembered
  <2>3. PICK y \in 1..Len(J[x][2]) : Held(J, H, i, x, y)  BY <2>2
  <2>4. /\ J[x][1] = H[i][1] /\ J[x][2][y] = H[i][2]
        /\ \A z \in (y + 1)..Len(J[x][2]) : \E j \in (i + 1)..n : H[j] = <<H[i][1], J[x][2][z]>>
        /\ \A z \in (x + 1)..Len(J) : \E j \in (i + 1)..n : H[j][1] = J[z][1]
    BY <2>3 DEF Held
  <2>5. G[i] = H[i] /\ \A j \in (i + 1)..n : j \in (i + 1)..Len(G) /\ G[j] = H[j]
    <3>1. \A j \in (i + 1)..n : j \in 1..n /\ j \in (i + 1)..Len(G)  BY <1>a, <1>b
    <3> QED BY <1>6, <3>1
  <2>6. \A k \in 1..r : n + k \in (i + 1)..Len(G) /\ G[n + k] = <<c, refs[k]>>
    <3>1. \A k \in 1..r : n + k \in (i + 1)..Len(G)  BY <1>a, <1>b
    <3> QED BY <1>7, <3>1
  <2>7. CASE J[x][1] = c
    <3>1. J[x][2] = ids /\ y \in 1..p /\ all[y] = ids[y]
      <4>1. J[x][2] = ids  BY <2>7 DEF IdsOf
      <4>2. y \in 1..p  BY <4>1
      <4> QED BY <4>1, <4>2 DEF Joined
    <3>2. ASSUME NEW z \in (y + 1)..(p + r) PROVE \E j \in (i + 1)..Len(G) : G[j] = <<c, all[z]>>
      <4>1. CASE z \in 1..p
        <5>0. z \in (y + 1)..p
          <6>1. y \in Int /\ z \in Int /\ p \in Int /\ y + 1 <= z /\ z <= p  BY <3>1, <4>1
          <6> QED BY <6>1
        <5>1. z \in (y + 1)..Len(J[x][2])  BY <3>1, <5>0
        <5>2. PICK j \in (i + 1)..n : H[j] = <<H[i][1], J[x][2][z]>>  BY <2>4, <5>1
        <5>3. all[z] = ids[z]  BY <4>1 DEF Joined
        <5> QED BY <2>4, <2>5, <2>7, <3>1, <5>2, <5>3
      <4>2. CASE z \notin 1..p
        <5>1. z - p \in 1..r /\ p + (z - p) = z  BY <3>1, <4>2
        <5>2. all[z] = refs[z - p]  BY <5>1 DEF Joined
        <5> QED BY <2>6, <5>1, <5>2
      <4> QED BY <4>1, <4>2
    <3>3. \A z \in ((m + 1) + 1)..Len(K) : FALSE  OBVIOUS
    <3>4. Held(K, G, i, m + 1, y)
      <4>1. G[i][1] = c /\ K[m + 1][2][y] = G[i][2]  BY <2>4, <2>5, <2>7, <3>1
      <4>2. \A z \in (y + 1)..Len(K[m + 1][2]) : \E j \in (i + 1)..Len(G) : G[j] = <<c, K[m + 1][2][z]>>
        BY <3>2
      <4> QED BY <1>3, <3>3, <4>1, <4>2 DEF Held
    <3>5. m + 1 \in 1..Len(K) /\ y \in 1..Len(K[m + 1][2])  BY <3>1
    <3> QED BY <3>4, <3>5
  <2>8. CASE J[x][1] # c
    <3>1. PICK a \in 1..m : from[a] = x  BY <2>8 DEF Moved
    <3>2. K[a] = J[x]  BY <3>1 DEF Moved
    <3>3. ASSUME NEW z \in (y + 1)..Len(K[a][2]) PROVE \E j \in (i + 1)..Len(G) : G[j] = <<G[i][1], K[a][2][z]>>
      <4>1. PICK j \in (i + 1)..n : H[j] = <<H[i][1], J[x][2][z]>>  BY <2>4, <3>2
      <4> QED BY <2>5, <3>2, <4>1
    <3>4. ASSUME NEW z \in (a + 1)..Len(K) PROVE \E j \in (i + 1)..Len(G) : G[j][1] = K[z][1]
      <4>1. CASE z = m + 1
        <5>1. 1 \in 1..r  OBVIOUS
        <5>2. n + 1 \in (i + 1)..Len(G) /\ G[n + 1][1] = c  BY <2>6, <5>1
        <5> QED BY <1>3, <4>1, <5>2
      <4>2. CASE z # m + 1
        <5>1. z \in 1..m /\ a < z  BY <4>2
        <5>2. from[z] \in 1..Len(J) /\ from[a] < from[z] /\ K[z] = J[from[z]]  BY <5>1 DEF Moved
        <5>3. from[z] \in (x + 1)..Len(J)  BY <1>3, <3>1, <5>2, Between
        <5>4. PICK j \in (i + 1)..n : H[j][1] = J[from[z]][1]  BY <2>4, <5>3
        <5> QED BY <2>5, <5>2, <5>4
      <4> QED BY <4>1, <4>2
    <3>5. Held(K, G, i, a, y)
      <4>1. K[a][1] = G[i][1] /\ K[a][2][y] = G[i][2]  BY <2>4, <2>5, <3>2
      <4> QED BY <3>3, <3>4, <4>1 DEF Held
    <3>6. a \in 1..Len(K) /\ y \in 1..Len(K[a][2])  BY <3>2
    <3> QED BY <3>5, <3>6
  <2> QED BY <2>7, <2>8
<1>10. ASSUME NEW k \in 1..r PROVE \E x \in 1..Len(K) : \E y \in 1..Len(K[x][2]) : Held(K, G, n + k, x, y)
  <2>1. G[n + k] = <<c, refs[k]>> /\ p + k \in 1..(p + r) /\ all[p + k] = refs[k]
    <3>1. p + k \in 1..(p + r)  OBVIOUS
    <3>2. all[p + k] = refs[k]  BY DEF Joined
    <3> QED BY <1>7, <3>1, <3>2
  <2>2. ASSUME NEW z \in ((p + k) + 1)..(p + r) PROVE \E j \in ((n + k) + 1)..Len(G) : G[j] = <<c, all[z]>>
    <3>1. z - p \in 1..r /\ p + (z - p) = z /\ n + (z - p) \in ((n + k) + 1)..Len(G)  BY <1>a, <1>b
    <3>2. all[z] = refs[z - p]  BY <3>1 DEF Joined
    <3> QED BY <1>7, <3>1, <3>2
  <2>3. \A z \in ((m + 1) + 1)..Len(K) : FALSE  OBVIOUS
  <2>4. Held(K, G, n + k, m + 1, p + k)
    <3>1. G[n + k][1] = c /\ K[m + 1][2][p + k] = G[n + k][2]  BY <2>1
    <3>2. \A z \in ((p + k) + 1)..Len(K[m + 1][2]) : \E j \in ((n + k) + 1)..Len(G) : G[j] = <<c, K[m + 1][2][z]>>
      BY <2>2
    <3> QED BY <1>3, <2>3, <3>1, <3>2 DEF Held
  <2>5. m + 1 \in 1..Len(K) /\ p + k \in 1..Len(K[m + 1][2])  BY <2>1
  <2> QED BY <2>4, <2>5
<1>11. Remembered(K, G)
  <2> SUFFICES ASSUME NEW i \in 1..Len(G), ~Forgotten(G, i)
               PROVE  \E x \in 1..Len(K) : \E y \in 1..Len(K[x][2]) : Held(K, G, i, x, y)
    BY DEF Remembered
  <2>1. CASE i \in 1..n  BY <1>9, <2>1
  <2>2. CASE i \notin 1..n
    <3>1. i - n \in 1..r /\ n + (i - n) = i  BY <1>a, <1>b, <2>2
    <3> QED BY <1>10, <3>1
  <2> QED BY <2>1, <2>2
<1> QED BY <1>4, <1>5, <1>8, <1>11 DEF Noted

\* s without its element at p.
Without(t, s, p) ==
  /\ Len(t) = Len(s) - 1
  /\ \A k \in 1..(Len(s) - 1) : t[k] = s[IF k < p THEN k ELSE k + 1]

LEMMA RemoveFacts ==
  ASSUME NEW V, NEW s \in Seq(V), NEW p \in 1..Len(s)
  PROVE  I!RemoveAt(s, p) \in Seq(V) /\ Without(I!RemoveAt(s, p), s, p)
<1> DEFINE n == Len(s)
           a == SubSeq(s, 1, p - 1)
           b == SubSeq(s, p + 1, n)
<1>1. n \in Nat /\ p \in Nat /\ 1 <= p /\ p <= n  OBVIOUS
<1>2. \A i \in 1..n : s[i] \in V  OBVIOUS
<1>3. /\ a \in Seq(V) /\ Len(a) = (IF 1 <= p - 1 THEN p - 1 - 1 + 1 ELSE 0)
      /\ \A i \in 1..(p - 1 - 1 + 1) : a[i] = s[1 + i - 1]
  <2>1. \A i \in 1..(p - 1) : s[i] \in V  BY <1>1, <1>2
  <2> QED BY <1>1, <2>1, SubSeqProperties
<1>4. /\ b \in Seq(V) /\ Len(b) = (IF p + 1 <= n THEN n - (p + 1) + 1 ELSE 0)
      /\ \A i \in 1..(n - (p + 1) + 1) : b[i] = s[(p + 1) + i - 1]
  <2>1. \A i \in (p + 1)..n : s[i] \in V  BY <1>1, <1>2
  <2> QED BY <1>1, <2>1, SubSeqProperties
<1>5. I!RemoveAt(s, p) = a \o b  BY DEF I!RemoveAt
<1> HIDE DEF n, a, b
<1>6. /\ (IF 1 <= p - 1 THEN p - 1 - 1 + 1 ELSE 0) = p - 1 /\ p - 1 - 1 + 1 = p - 1
      /\ (IF p + 1 <= n THEN n - (p + 1) + 1 ELSE 0) = n - p /\ n - (p + 1) + 1 = n - p
      /\ (\A i \in Nat : 1 + i - 1 = i /\ (p + 1) + i - 1 = p + i)
      /\ (p - 1) + (n - p) = n - 1
  BY <1>1
<1>7. Len(a) = p - 1 /\ Len(b) = n - p /\ p - 1 \in Nat /\ n - p \in Nat  BY <1>1, <1>3, <1>4, <1>6
<1>8. \A i \in 1..(p - 1) : a[i] = s[i]  BY <1>1, <1>3, <1>6
<1>9. \A i \in 1..(n - p) : b[i] = s[p + i]  BY <1>1, <1>4, <1>6
<1>10. /\ a \o b \in Seq(V) /\ Len(a \o b) = Len(a) + Len(b)
       /\ \A i \in 1..(Len(a) + Len(b)) : (a \o b)[i] = IF i <= Len(a) THEN a[i] ELSE b[i - Len(a)]
  BY <1>3, <1>4, ConcatProperties
<1> DEFINE q == a \o b
<1> HIDE DEF q
<1>11. q \in Seq(V) /\ Len(q) = n - 1  BY <1>6, <1>7, <1>10 DEF q
<1>12. ASSUME NEW k \in 1..(n - 1) PROVE q[k] = s[IF k < p THEN k ELSE k + 1]
  <2>1. q[k] = IF k <= p - 1 THEN a[k] ELSE b[k - (p - 1)]  BY <1>6, <1>7, <1>10 DEF q
  <2>2. CASE k < p
    <3>1. k \in 1..(p - 1) /\ k <= p - 1  BY <1>1, <2>2
    <3> QED BY <1>8, <2>1, <2>2, <3>1
  <2>3. CASE ~(k < p)
    <3>1. k - (p - 1) \in 1..(n - p) /\ p + (k - (p - 1)) = k + 1 /\ ~(k <= p - 1)  BY <1>1, <2>3
    <3> QED BY <1>9, <2>1, <2>3, <3>1
  <2> QED BY <2>2, <2>3
<1> QED BY <1>5, <1>11, <1>12 DEF Without, q, n

LEMMA PlaceFacts ==
  ASSUME OneEach(idsByChat), idsByChat \in Seq(Chats \X Seq(Nat)), NEW c
  PROVE  /\ I!placesOf(c) = {} => I!idsOf(c) = <<>> /\ \A x \in 1..Len(idsByChat) : idsByChat[x][1] # c
         /\ I!placesOf(c) # {} => /\ I!placeOf(c) \in 1..Len(idsByChat) /\ idsByChat[I!placeOf(c)][1] = c
                                  /\ I!idsOf(c) = idsByChat[I!placeOf(c)][2]
                                  /\ \A x \in 1..Len(idsByChat) : idsByChat[x][1] = c => x = I!placeOf(c)
<1>1. I!placesOf(c) = {x \in 1..Len(idsByChat) : idsByChat[x][1] = c}  BY DEF I!placesOf
<1>2. CASE I!placesOf(c) = {}  BY <1>1, <1>2 DEF I!idsOf
<1>3. CASE I!placesOf(c) # {}
  <2>1. I!placeOf(c) \in I!placesOf(c)  BY <1>3 DEF I!placeOf
  <2>2. I!idsOf(c) = idsByChat[I!placeOf(c)][2]  BY <1>3 DEF I!idsOf
  <2>3. I!placeOf(c) \in 1..Len(idsByChat) /\ idsByChat[I!placeOf(c)][1] = c  BY <1>1, <2>1
  <2> QED BY <1>3, <2>2, <2>3 DEF OneEach
<1> QED BY <1>2, <1>3

\* (recent-bot-message-ids.ts:9) Every note keeps it.
LEMMA NoteKeeps ==
  ASSUME Noted(idsByChat, said), NEW c \in Chats,
         NEW refs \in Seq(Nat), NEW r \in Nat, Len(refs) = r, r > 0, Rising(refs),
         \A y \in 1..Len(I!idsOf(c)) : \A k \in 1..r : I!idsOf(c)[y] < refs[k],
         NEW G \in Seq(Chats \X Nat), NEW n \in Nat, Len(said) = n, Len(G) = n + r, SaidTo(said, G, n, c, refs, r)
  PROVE  Noted(I!note(c, refs), G)
<1> DEFINE J == idsByChat
           ids == I!idsOf(c)
           p == Len(ids)
           all == ids \o refs
           others == IF I!placesOf(c) = {} THEN J ELSE I!RemoveAt(J, I!placeOf(c))
           m == Len(others)
           place == I!placeOf(c)
           from == IF I!placesOf(c) = {} THEN [a \in 1..m |-> a] ELSE [a \in 1..m |-> IF a < place THEN a ELSE a + 1]
           K == Append(others, <<c, all>>)
           short == Append(others, <<c, I!lastOf(all, MaxTrackedIds)>>)
<1>1. J \in Seq(Chats \X Seq(Nat)) /\ OneEach(J) /\ Len(J) \in Nat  BY DEF Noted
<1>2. /\ I!placesOf(c) = {} => ids = <<>> /\ \A x \in 1..Len(J) : J[x][1] # c
      /\ I!placesOf(c) # {} => /\ place \in 1..Len(J) /\ J[place][1] = c /\ ids = J[place][2]
                               /\ \A x \in 1..Len(J) : J[x][1] = c => x = place
  BY <1>1, PlaceFacts
<1>3. ids \in Seq(Nat) /\ p \in Nat
  <2>1. CASE I!placesOf(c) = {}  BY <1>2, <2>1
  <2>2. CASE I!placesOf(c) # {}
    <3>1. J[place] \in Chats \X Seq(Nat)  BY <1>1, <1>2, <2>2
    <3> QED BY <1>2, <2>2, <3>1
  <2> QED BY <2>1, <2>2
<1>4. IdsOf(J, c, ids, p)
  <2>1. CASE I!placesOf(c) = {}
    <3>1. p = 0  BY <1>2, <2>1
    <3> QED BY <1>2, <2>1, <3>1 DEF IdsOf
  <2>2. CASE I!placesOf(c) # {}  BY <1>2, <2>2 DEF IdsOf
  <2> QED BY <2>1, <2>2
<1>5. all \in Seq(Nat) /\ Len(all) = p + r /\ Joined(all, ids, p, refs, r)
  <2>1. /\ all \in Seq(Nat) /\ Len(all) = Len(ids) + Len(refs)
        /\ \A i \in 1..(Len(ids) + Len(refs)) : all[i] = IF i <= Len(ids) THEN ids[i] ELSE refs[i - Len(ids)]
    BY <1>3, ConcatProperties
  <2> HIDE DEF all, ids
  <2>2. \A y \in 1..p : y \in 1..(p + r) /\ y <= p  BY <1>3
  <2>3. \A k \in 1..r : p + k \in 1..(p + r) /\ ~(p + k <= p) /\ (p + k) - p = k  BY <1>3
  <2>4. \A y \in 1..p : all[y] = ids[y]  BY <2>1, <2>2
  <2> HIDE DEF p
  <2>5. \A k \in 1..r : all[p + k] = refs[k]  BY <2>1, <2>3 DEF p
  <2> QED BY <2>1, <2>4, <2>5 DEF Joined, p
<1>6. Rising(ids)
  <2>1. CASE I!placesOf(c) = {}  BY <1>2, <2>1 DEF Rising
  <2>2. CASE I!placesOf(c) # {}  BY <1>2, <2>2 DEF Noted
  <2> QED BY <2>1, <2>2
<1>7. /\ others \in Seq(Chats \X Seq(Nat)) /\ m \in Nat
      /\ I!placesOf(c) = {} => others = J
      /\ I!placesOf(c) # {} => m = Len(J) - 1 /\ \A k \in 1..m : others[k] = J[IF k < place THEN k ELSE k + 1]
  <2>1. CASE I!placesOf(c) = {}  BY <1>1, <2>1
  <2>2. CASE I!placesOf(c) # {}
    <3>1. others = I!RemoveAt(J, place) /\ place \in 1..Len(J)  BY <1>2, <2>2
    <3> HIDE DEF others, place, J
    <3>2. I!RemoveAt(J, place) \in Seq(Chats \X Seq(Nat)) /\ Without(I!RemoveAt(J, place), J, place)
      BY <1>1, <3>1, RemoveFacts
    <3>3. others \in Seq(Chats \X Seq(Nat)) /\ Without(others, J, place)  BY <3>1, <3>2
    <3>4. m = Len(J) - 1 /\ \A k \in 1..m : others[k] = J[IF k < place THEN k ELSE k + 1]
      BY <3>3 DEF Without
    <3>5. m \in Nat  BY <3>3
    <3> QED BY <2>2, <3>3, <3>4, <3>5
  <2> QED BY <2>1, <2>2
<1> HIDE DEF others, all, ids, p, m
<1>8. /\ K \in Seq(Chats \X Seq(Nat)) /\ Len(K) = m + 1 /\ K[m + 1] = <<c, all>>
      /\ \A a \in 1..m : K[a] = others[a]
  <2>1. <<c, all>> \in Chats \X Seq(Nat)  BY <1>5
  <2> QED BY <1>7, <2>1 DEF m
<1> HIDE DEF K
<1>9. Rising(all)
  <2> SUFFICES ASSUME NEW y \in 1..(p + r), NEW z \in 1..(p + r), y < z PROVE all[y] < all[z]
    BY <1>5 DEF Rising
  <2>1. \A w \in 1..(p + r) : w \in 1..p \/ (w - p \in 1..r /\ p + (w - p) = w)  BY <1>3
  <2>2. CASE z \in 1..p
    <3>1. y \in 1..p  BY <1>3, <2>2
    <3>2. ids[y] < ids[z]  BY <1>6, <2>2, <3>1 DEF Rising, p
    <3> QED BY <1>5, <2>2, <3>1, <3>2 DEF Joined
  <2>3. CASE z \notin 1..p
    <3>1. z - p \in 1..r /\ all[z] = refs[z - p]  BY <1>5, <2>1, <2>3 DEF Joined
    <3>2. CASE y \in 1..p
      <4>1. ids[y] < refs[z - p]  BY <3>1, <3>2 DEF ids, p
      <4> QED BY <1>5, <3>1, <3>2, <4>1 DEF Joined
    <3>3. CASE y \notin 1..p
      <4>1. y - p \in 1..r /\ all[y] = refs[y - p] /\ y - p < z - p  BY <1>3, <1>5, <2>1, <3>3 DEF Joined
      <4>2. refs[y - p] < refs[z - p]  BY <3>1, <4>1 DEF Rising
      <4> QED BY <3>1, <4>1, <4>2
    <3> QED BY <3>2, <3>3
  <2> QED BY <2>2, <2>3
<1>10. Moved(J, K, c, m, from)
  <2>1. CASE I!placesOf(c) = {}
    <3>1. m = Len(J) /\ others = J  BY <1>7, <2>1 DEF m
    <3>2. from = [a \in 1..m |-> a]  BY <2>1
    <3> HIDE DEF from
    <3>3. from \in [1..m -> 1..Len(J)]  BY <3>1, <3>2
    <3>4. \A a \in 1..m : K[a] = J[from[a]] /\ K[a][1] # c  BY <1>2, <1>8, <2>1, <3>1, <3>2
    <3>5. \A a, b \in 1..m : a < b => from[a] < from[b]  BY <3>2
    <3>6. \A x \in 1..Len(J) : \E a \in 1..m : from[a] = x  BY <3>1, <3>2
    <3>7. K[m + 1][1] = c  BY <1>8
    <3> QED BY <3>3, <3>4, <3>5, <3>6, <3>7 DEF Moved
  <2>2. CASE I!placesOf(c) # {}
    <3>1. m = Len(J) - 1 /\ \A k \in 1..m : others[k] = J[IF k < place THEN k ELSE k + 1]  BY <1>7, <2>2
    <3>2. from = [a \in 1..m |-> IF a < place THEN a ELSE a + 1]  BY <2>2
    <3>3. place \in 1..Len(J) /\ \A x \in 1..Len(J) : J[x][1] = c => x = place  BY <1>2, <2>2
    <3> HIDE DEF from, place, J
    <3>4. ASSUME NEW a \in 1..m PROVE (IF a < place THEN a ELSE a + 1) \in 1..Len(J) /\ (IF a < place THEN a ELSE a + 1) # place
      <4>1. Len(J) \in Nat /\ m = Len(J) - 1 /\ place \in Int /\ a \in Int /\ 1 <= a /\ a <= Len(J) - 1
        BY <1>1, <3>1, <3>3 DEF J
      <4>2. CASE a < place  BY <4>1, <4>2
      <4>3. CASE ~(a < place)  BY <4>1, <4>3
      <4> QED BY <4>2, <4>3
    <3>5. from \in [1..m -> 1..Len(J)]  BY <3>2, <3>4
    <3>6. \A a \in 1..m : K[a] = J[from[a]] /\ K[a][1] # c
      <4> SUFFICES ASSUME NEW a \in 1..m PROVE K[a] = J[from[a]] /\ J[from[a]][1] # c
        OBVIOUS
      <4>1. from[a] \in 1..Len(J) /\ from[a] # place /\ K[a] = J[from[a]]  BY <1>8, <3>1, <3>2, <3>4
      <4> QED BY <3>3, <4>1
    <3>7. \A a, b \in 1..m : a < b => from[a] < from[b]
      <4> SUFFICES ASSUME NEW a \in 1..m, NEW b \in 1..m, a < b PROVE from[a] < from[b]
        OBVIOUS
      <4>1. place \in Int  BY <1>1, <3>3
      <4> QED BY <1>7, <3>2, <4>1
    <3>8. ASSUME NEW x \in 1..Len(J), x # place PROVE \E a \in 1..m : from[a] = x
      <4>1. CASE x < place
        <5>1. x \in 1..m  BY <1>1, <3>1, <3>3, <4>1
        <5> QED BY <3>2, <4>1, <5>1
      <4>2. CASE ~(x < place)
        <5>1. x - 1 \in 1..m /\ ~(x - 1 < place) /\ (x - 1) + 1 = x  BY <1>1, <3>1, <3>3, <3>8, <4>2
        <5> QED BY <3>2, <5>1
      <4> QED BY <4>1, <4>2
    <3>9. K[m + 1][1] = c  BY <1>8
    <3>10. \A x \in 1..Len(J) : J[x][1] # c => x # place  BY <1>2, <2>2 DEF J, place
    <3> QED BY <3>5, <3>6, <3>7, <3>8, <3>9, <3>10 DEF Moved
  <2> QED BY <2>1, <2>2
<1>11. {MaxTrackedChats, MaxTrackedIds} \subseteq Nat  BY InboundAssumption
<1>12. Noted(K, G)
  <2>1. Len(ids) = p /\ K[m + 1][2] = all  BY <1>8 DEF p
  <2> HIDE DEF from, J
  <2>2. Noted(J, said)  BY DEF J
  <2>3. Noting(J, K, m, from, ids, p, refs, r, all, c, said, G, n)
    BY <1>3, <1>4, <1>5, <1>7, <1>8, <1>9, <1>10, <1>11, <2>1, <2>2 DEF Noting
  <2> QED BY <2>3, MoveToEnd
<1>13. I!lastOf(all, MaxTrackedIds) \in Seq(Nat) /\ CutTo(I!lastOf(all, MaxTrackedIds), all, MaxTrackedIds)
  BY <1>5, <1>11, LastOfFacts
<1>14. /\ short \in Seq(Chats \X Seq(Nat)) /\ Len(short) = m + 1 /\ short[m + 1] = <<c, I!lastOf(all, MaxTrackedIds)>>
       /\ \A a \in 1..m : short[a] = others[a]
  <2>1. <<c, I!lastOf(all, MaxTrackedIds)>> \in Chats \X Seq(Nat)  BY <1>13
  <2> QED BY <1>7, <2>1 DEF m
<1> HIDE DEF short
<1>15. ASSUME NEW x \in 1..Len(K)
       PROVE  /\ short[x][1] = K[x][1]
              /\ CutTo(short[x][2], K[x][2], MaxTrackedIds)
  <2>1. CASE x = m + 1
    <3>1. K[x][1] = c /\ K[x][2] = all /\ short[x][1] = c /\ short[x][2] = I!lastOf(all, MaxTrackedIds)
      BY <1>8, <1>14, <2>1
    <3> QED BY <1>13, <3>1
  <2>2. CASE x # m + 1
    <3>1. x \in 1..m  BY <1>7, <1>8, <2>2
    <3>2. short[x] = K[x]  BY <1>8, <1>14, <3>1
    <3>3. K[x] \in Chats \X Seq(Nat)  BY <1>8
    <3>4. Len(K[x][2]) \in Nat  BY <3>3
    <3>5. 0 \in 0..Len(K[x][2]) /\ Len(K[x][2]) - 0 = Len(K[x][2]) /\ \A k \in 1..Len(K[x][2]) : 0 + k = k
      BY <3>4
    <3> QED BY <3>2, <3>5 DEF CutTo
  <2> QED BY <2>1, <2>2
<1>16. Noted(short, G)
  <2>1. Len(short) = Len(K)  BY <1>8, <1>14
  <2> QED BY <1>11, <1>12, <1>14, <1>15, <2>1, CutIds
<1>17. I!lastOf(short, MaxTrackedChats) \in Seq(Chats \X Seq(Nat)) /\ CutTo(I!lastOf(short, MaxTrackedChats), short, MaxTrackedChats)
  BY <1>11, <1>14, LastOfFacts
<1>18. Noted(I!lastOf(short, MaxTrackedChats), G)  BY <1>11, <1>16, <1>17, CutChats
<1>19. I!note(c, refs) = I!lastOf(short, MaxTrackedChats)  BY DEF I!note, short, others, all, ids
<1> QED BY <1>18, <1>19

LEMMA InitIInv == Init => IInv
<1> SUFFICES ASSUME Init PROVE IInv  OBVIOUS
<1>1. idsByChat = <<>> /\ said = <<>> /\ counter = [c \in Chats |-> 0] /\ heard.kind = "none"
  BY DEF Init, I!Init, I!Silence
<1>2. Noted(idsByChat, said)  BY <1>1 DEF Noted, OneEach, AllSaid, Remembered
<1>3. HeardRight  BY <1>1 DEF HeardRight
<1> QED BY <1>1, <1>2, <1>3 DEF IInv

\* (recent-bot-message-ids.ts:30) The ids of a chat were counted for it.
LEMMA IdsCounted ==
  ASSUME IInv, NEW c \in Chats
  PROVE  /\ counter[c] \in Nat /\ I!idsOf(c) \in Seq(Nat)
         /\ \A y \in 1..Len(I!idsOf(c)) :
               I!idsOf(c)[y] <= counter[c] /\ \E i \in 1..Len(said) : said[i] = <<c, I!idsOf(c)[y]>>
<1>1. counter[c] \in Nat  BY DEF IInv
<1>2. Noted(idsByChat, said)  BY DEF IInv
<1>3. OneEach(idsByChat) /\ idsByChat \in Seq(Chats \X Seq(Nat))  BY <1>2 DEF Noted
<1>4. CASE I!placesOf(c) = {}
  <2>1. I!idsOf(c) = <<>>  BY <1>3, <1>4, PlaceFacts
  <2> QED BY <1>1, <2>1
<1>5. CASE I!placesOf(c) # {}
  <2> DEFINE x == I!placeOf(c)
  <2>1. x \in 1..Len(idsByChat) /\ idsByChat[x][1] = c /\ I!idsOf(c) = idsByChat[x][2]  BY <1>3, <1>5, PlaceFacts
  <2> HIDE DEF x
  <2>2. idsByChat[x] \in Chats \X Seq(Nat)  BY <1>3, <2>1
  <2>3. ASSUME NEW y \in 1..Len(idsByChat[x][2])
        PROVE  idsByChat[x][2][y] <= counter[c] /\ \E i \in 1..Len(said) : said[i] = <<c, idsByChat[x][2][y]>>
    <3>1. PICK i \in 1..Len(said) : said[i] = <<c, idsByChat[x][2][y]>>  BY <1>2, <2>1 DEF Noted, AllSaid
    <3>2. said[i][2] \in 1..counter[said[i][1]]  BY DEF IInv
    <3> QED BY <1>1, <3>1, <3>2
  <2> QED BY <1>1, <2>1, <2>2, <2>3
<1> QED BY <1>4, <1>5

\* (napcat.ts:197, telegram.ts:188) A message in parts, sent or failed.
LEMMA SendIInv ==
  ASSUME IInv, NEW c \in Chats, NEW parts \in 1..2, NEW failed \in BOOLEAN, I!sendPayload(c, parts, failed)
  PROVE  IInv'
<1> DEFINE refs == [i \in 1..parts |-> counter[c] + i]
           words == [i \in 1..parts |-> <<c, refs[i]>>]
           G == said \o words
           n == Len(said)
<1>1. counter \in [Chats -> Nat] /\ counter[c] \in Nat /\ parts \in Nat /\ parts > 0  BY DEF IInv
<1>2. /\ counter' = [counter EXCEPT ![c] = @ + parts] /\ heard'.kind = "none"
      /\ failed => idsByChat' = idsByChat /\ said' = said
      /\ ~failed => idsByChat' = I!note(c, refs) /\ said' = G
  BY DEF I!sendPayload, I!Silence
<1>3. counter' \in [Chats -> Nat] /\ counter'[c] = counter[c] + parts /\ \A a \in Chats : a # c => counter'[a] = counter[a]
  BY <1>1, <1>2
<1>4. HeardRight'  BY <1>2 DEF HeardRight
<1>5. Noted(idsByChat, said) /\ said \in Seq(Chats \X Nat) /\ n \in Nat  BY DEF IInv, Noted
<1>6. ASSUME NEW i \in 1..n PROVE said[i][1] \in Chats /\ said[i][2] \in 1..counter'[said[i][1]]
  <2>1. said[i] \in Chats \X Nat  BY <1>5
  <2>2. said[i][2] \in 1..counter[said[i][1]] /\ said[i][1] \in Chats  BY <2>1 DEF IInv
  <2>3. CASE said[i][1] = c  BY <1>1, <1>3, <2>2, <2>3
  <2>4. CASE said[i][1] # c  BY <1>3, <2>2, <2>4
  <2> QED BY <2>2, <2>3, <2>4
<1>7. CASE failed  BY <1>2, <1>3, <1>4, <1>5, <1>6, <1>7 DEF IInv
<1>8. CASE ~failed
  <2>1. refs \in Seq(Nat) /\ Len(refs) = parts /\ \A k \in 1..parts : refs[k] = counter[c] + k
    <3>1. \A k \in 1..parts : counter[c] + k \in Nat  BY <1>1
    <3> QED BY <1>1, <3>1
  <2> HIDE DEF refs
  <2>2. Rising(refs)  BY <1>1, <2>1 DEF Rising
  <2>3. ASSUME NEW y \in 1..Len(I!idsOf(c)), NEW k \in 1..parts PROVE I!idsOf(c)[y] < refs[k]
    <3>1. I!idsOf(c) \in Seq(Nat) /\ I!idsOf(c)[y] <= counter[c]  BY IdsCounted
    <3>2. I!idsOf(c)[y] \in Nat  BY <3>1
    <3> HIDE DEF n
    <3> QED BY <1>1, <2>1, <3>1, <3>2
  <2>4. words \in Seq(Chats \X Nat) /\ Len(words) = parts /\ \A k \in 1..parts : words[k] = <<c, refs[k]>>
    <3>1. \A k \in 1..parts : <<c, refs[k]>> \in Chats \X Nat  BY <1>1, <2>1
    <3> QED BY <1>1, <3>1
  <2> HIDE DEF words
  <2>5. /\ G \in Seq(Chats \X Nat) /\ Len(G) = n + parts
        /\ \A i \in 1..(n + parts) : G[i] = IF i <= n THEN said[i] ELSE words[i - n]
    BY <1>5, <2>4, ConcatProperties
  <2> HIDE DEF G, n
  <2>6. ASSUME NEW i \in 1..n PROVE G[i] = said[i]
    <3>1. i \in 1..(n + parts) /\ i <= n  BY <1>1, <1>5
    <3> QED BY <2>5, <3>1
  <2>7. ASSUME NEW k \in 1..parts PROVE G[n + k] = <<c, refs[k]>>
    <3>1. n + k \in 1..(n + parts) /\ ~(n + k <= n) /\ (n + k) - n = k  BY <1>1, <1>5
    <3> QED BY <2>4, <2>5, <3>1
  <2>8. SaidTo(said, G, n, c, refs, parts)  BY <2>6, <2>7 DEF SaidTo
  <2>9. Noted(I!note(c, refs), G)
    <3>1. Len(said) = n  BY DEF n
    <3> QED BY <1>1, <1>5, <2>1, <2>2, <2>3, <2>5, <2>8, <3>1, NoteKeeps
  <2>10. ASSUME NEW i \in 1..Len(G) PROVE G[i][2] \in 1..counter'[G[i][1]]
    <3>1. i \in 1..n \/ (i - n \in 1..parts /\ n + (i - n) = i)  BY <1>1, <1>5, <2>5, Sums
    <3>2. CASE i \in 1..n  BY <1>6, <2>6, <3>2
    <3>3. CASE i - n \in 1..parts /\ n + (i - n) = i
      <4> DEFINE k == i - n
      <4>1. G[i] = <<c, refs[k]>> /\ k \in 1..parts  BY <2>7, <3>3
      <4> HIDE DEF k
      <4>2. refs[k] = counter[c] + k  BY <2>1, <4>1
      <4>3. counter[c] + k \in 1..(counter[c] + parts)  BY <1>1, <4>1
      <4> QED BY <1>3, <4>1, <4>2, <4>3
    <3> QED BY <3>1, <3>2, <3>3
  <2> QED BY <1>2, <1>3, <1>4, <1>8, <2>9, <2>10 DEF IInv
<1> QED BY <1>7, <1>8

\* (recent-bot-message-ids.ts:30) A reply is known by what is tracked of its chat.
LEMMA RepliesTracked ==
  ASSUME IInv, NEW c \in Chats, NEW id
  PROVE  I!isReplyToBot(c, id) <=> Tracks(idsByChat, c, id)
<1> DEFINE ids == I!idsOf(c)
<1>1. OneEach(idsByChat) /\ idsByChat \in Seq(Chats \X Seq(Nat))  BY DEF IInv, Noted
<1>2. ids \in Seq(Nat)  BY IdsCounted
<1> HIDE DEF ids
<1>3. I!isReplyToBot(c, id) <=> id # 0 /\ \E y \in 1..Len(ids) : ids[y] = id
  BY <1>2 DEF I!isReplyToBot, I!ToSet, ids
<1>4. CASE I!placesOf(c) = {}
  <2>1. ids = <<>> /\ \A x \in 1..Len(idsByChat) : idsByChat[x][1] # c  BY <1>1, <1>4, PlaceFacts DEF ids
  <2> QED BY <1>3, <2>1 DEF Tracks
<1>5. CASE I!placesOf(c) # {}
  <2> DEFINE x == I!placeOf(c)
  <2>1. /\ x \in 1..Len(idsByChat) /\ idsByChat[x][1] = c /\ ids = idsByChat[x][2]
        /\ \A z \in 1..Len(idsByChat) : idsByChat[z][1] = c => z = x
    BY <1>1, <1>5, PlaceFacts DEF ids
  <2> HIDE DEF x
  <2> QED BY <1>3, <2>1 DEF Tracks
<1> QED BY <1>4, <1>5

\* (napcat.ts:376, telegram.ts:280) A message of a user.
LEMMA ReceiveIInv ==
  ASSUME IInv, NEW c \in Chats, NEW kind \in {"dm", "group"}, NEW message \in Messages, I!Receive(c, kind, message)
  PROVE  IInv'
<1> DEFINE event == I!mapMessage(message)
           answers == I!isReplyToBot(c, event.replyTo)
           wakes == I!shouldProcessEvent(event, kind, answers)
<1>1. /\ heard' = IF event = I!Nothing THEN I!Nothing
                  ELSE [kind |-> kind, chat |-> c, event |-> event,
                        command |-> I!parseAddressedSlashCommand(event),
                        wakes |-> wakes]
      /\ groupTrigger' = groupTrigger /\ idsByChat' = idsByChat /\ counter' = counter /\ said' = said
  BY DEF I!Receive
<1> HIDE DEF event
<1>2. answers <=> Tracks(idsByChat, c, event.replyTo)  BY RepliesTracked
<1> HIDE DEF answers
<1>3. wakes <=> \/ kind = "dm" \/ groupTrigger = "all" \/ answers
                \/ event.mentions # {} /\ "me" \in event.mentions
  BY DEF I!shouldProcessEvent, I!isExplicitlyAddressedEvent
<1> HIDE DEF wakes
<1>4. HeardRight'
  <2>1. CASE event = I!Nothing  BY <1>1, <2>1 DEF HeardRight, I!Nothing
  <2>2. CASE event # I!Nothing
    <3>1. heard'.kind = kind /\ heard'.chat = c /\ heard'.event = event /\ (heard'.wakes <=> wakes)  BY <1>1, <2>2
    <3>2. Tracks(idsByChat, heard.chat, heard.event.replyTo)' <=> answers  BY <1>1, <1>2, <3>1 DEF Tracks
    <3> QED BY <1>1, <1>3, <3>1, <3>2 DEF HeardRight
  <2> QED BY <2>1, <2>2
<1>5. Noted(idsByChat, said)'  BY <1>1 DEF IInv
<1> QED BY <1>1, <1>4, <1>5 DEF IInv

LEMMA NextIInv == ASSUME IInv, I!Next PROVE IInv'
<1>1. CASE \E c \in Chats, parts \in 1..2, failed \in BOOLEAN : I!sendPayload(c, parts, failed)  BY <1>1, SendIInv
<1>2. CASE \E c \in Chats, kind \in {"dm", "group"}, message \in Messages : I!Receive(c, kind, message)
  BY <1>2, ReceiveIInv
<1> QED BY <1>1, <1>2 DEF I!Next

LEMMA SameIInv == ASSUME IInv, UNCHANGED inboundVars PROVE IInv'
<1>1. heard' = heard /\ groupTrigger' = groupTrigger /\ idsByChat' = idsByChat /\ counter' = counter /\ said' = said
  BY DEF inboundVars
<1>2. Noted(idsByChat, said)'  BY <1>1 DEF IInv
<1>3. HeardRight'  BY <1>1 DEF IInv, HeardRight
<1> QED BY <1>1, <1>2, <1>3 DEF IInv

LEMMA InboundSteps == [Next]_vars => I!Next \/ UNCHANGED inboundVars
BY DEF Next, Maintenance, Catalog, Runtime, Context, Schedule, Hear, Tools, Register, vars

\* (napcat.ts:376, telegram.ts:280) What IInv says of a message in a group.
LEMMA RepliesKnown == ASSUME IInv PROVE RepliesAreHeard
<1> DEFINE since(i) == (i + 1)..Len(said)
           noted == {i \in DOMAIN said : said[i] = <<heard.chat, heard.event.replyTo>>}
<1> SUFFICES ASSUME heard.kind = "group"
             PROVE  /\ \A i \in noted :
                         /\ Cardinality({j \in since(i) : said[j][1] = heard.chat}) < MaxTrackedIds
                         /\ Cardinality({said[j][1] : j \in since(i)} \ {heard.chat}) < MaxTrackedChats
                         => heard.wakes
                    /\ groupTrigger = "mention" /\ heard.wakes => noted # {} \/ "me" \in heard.event.mentions
  BY DEF RepliesAreHeard
<1>1. Noted(idsByChat, said) /\ said \in Seq(Chats \X Nat) /\ DOMAIN said = 1..Len(said)
  <2>1. said \in Seq(Chats \X Nat)  BY DEF IInv, Noted
  <2> QED BY <2>1 DEF IInv
<1>2. heard.wakes <=> \/ groupTrigger = "all" \/ Tracks(idsByChat, heard.chat, heard.event.replyTo)
                      \/ heard.event.mentions # {} /\ "me" \in heard.event.mentions
  BY DEF IInv, HeardRight
<1>3. ASSUME NEW i \in noted,
             Cardinality({j \in since(i) : said[j][1] = heard.chat}) < MaxTrackedIds,
             Cardinality({said[j][1] : j \in since(i)} \ {heard.chat}) < MaxTrackedChats
      PROVE  heard.wakes
  <2>1. i \in 1..Len(said) /\ said[i][1] = heard.chat /\ said[i][2] = heard.event.replyTo  BY <1>1
  <2>2. SinceIn(said, i) = {j \in since(i) : said[j][1] = heard.chat}
        /\ OthersSince(said, i) = {said[j][1] : j \in since(i)} \ {heard.chat}
    BY <2>1 DEF SinceIn, OthersSince
  <2>3. IsFiniteSet(SinceIn(said, i)) /\ IsFiniteSet(OthersSince(said, i))  BY <1>1, <2>1, SinceFinite
  <2>4. {Cardinality(SinceIn(said, i)), Cardinality(OthersSince(said, i)), MaxTrackedIds, MaxTrackedChats} \subseteq Nat
    BY <2>3, FS_CardinalityType, InboundAssumption
  <2>5. ~Forgotten(said, i)
    <3>1. Cardinality(SinceIn(said, i)) < MaxTrackedIds /\ Cardinality(OthersSince(said, i)) < MaxTrackedChats
      BY <1>3, <2>2
    <3> QED BY <2>4, <3>1 DEF Forgotten
  <2>6. PICK x \in 1..Len(idsByChat) : \E y \in 1..Len(idsByChat[x][2]) : Held(idsByChat, said, i, x, y)
    BY <1>1, <2>1, <2>5 DEF Noted, Remembered
  <2>7. PICK y \in 1..Len(idsByChat[x][2]) : Held(idsByChat, said, i, x, y)  BY <2>6
  <2>8. idsByChat[x][1] = heard.chat /\ idsByChat[x][2][y] = heard.event.replyTo  BY <2>1, <2>7 DEF Held
  <2>9. heard.event.replyTo # 0
    <3>1. said[i] \in Chats \X Nat  BY <1>1, <2>1
    <3>2. said[i][1] \in Chats /\ said[i][2] \in 1..counter[said[i][1]] /\ counter[said[i][1]] \in Nat
      BY <2>1, <3>1 DEF IInv
    <3> QED BY <2>1, <3>2
  <2> QED BY <1>2, <2>8, <2>9 DEF Tracks
<1>4. ASSUME groupTrigger = "mention", heard.wakes PROVE noted # {} \/ "me" \in heard.event.mentions
  <2>1. CASE Tracks(idsByChat, heard.chat, heard.event.replyTo)
    <3>1. PICK x \in 1..Len(idsByChat) : \E y \in 1..Len(idsByChat[x][2]) :
               idsByChat[x][1] = heard.chat /\ idsByChat[x][2][y] = heard.event.replyTo
      BY <2>1 DEF Tracks
    <3>2. PICK y \in 1..Len(idsByChat[x][2]) : idsByChat[x][1] = heard.chat /\ idsByChat[x][2][y] = heard.event.replyTo
      BY <3>1
    <3>3. \E i \in 1..Len(said) : said[i] = <<heard.chat, heard.event.replyTo>>  BY <1>1, <3>2 DEF Noted, AllSaid
    <3> QED BY <1>1, <3>3
  <2> QED BY <1>2, <1>4, <2>1
<1> QED BY <1>3, <1>4

\* (recent-bot-message-ids.ts:9) For any limits and however many chats, a reply
\* to a message not yet forgotten wakes the bot, and of the other messages in a
\* group only those that mention it do.
THEOREM RepliesWakeTheBot == Spec => []RepliesAreHeard
<1>1. Init => IInv  BY InitIInv
<1>2. IInv /\ [Next]_vars => IInv'  BY InboundSteps, NextIInv, SameIInv
<1>3. IInv => RepliesAreHeard  BY RepliesKnown
<1> QED BY <1>1, <1>2, <1>3, PTL DEF Spec

=============================================================================
