-------------------------------- MODULE MCJobs --------------------------------
(***************************************************************************)
(* The jobs of an agent and the reminders that become jobs: JobQueue on      *)
(* stores that do not throw, and SessionCron. The two share no state here,    *)
(* as the queue of SessionCron is a number of jobs, and what a job is for is  *)
(* nothing to JobQueue; a behaviour is one of either of them.                *)
(***************************************************************************)
EXTENDS MCJobQueue, CronBounds

VARIABLES
  part,      \* "queue" or "reminders"
  now, status, generation, cron, jobs, turn, due, held, purging, mishaps,
  fires, asked, reset   \* the state of SessionCron

cronVars == <<now, status, generation, cron, jobs, turn, due, held, purging, mishaps, fires, asked, reset>>

S == INSTANCE SessionCronProps WITH run <- turn

JobsInit ==
  /\ part \in {"queue", "reminders"}
  /\ Init /\ S!Init

QueueStep == part = "queue" /\ Next /\ UNCHANGED <<part, cronVars>>
ReminderStep == part = "reminders" /\ S!Next /\ UNCHANGED <<part, vars>>

\* Time and session records run out; the queue never stops.
Over == part = "reminders" /\ UNCHANGED <<part, vars, cronVars>>

\* The fairness of JobQueueProps and of SessionCron, each where it is what goes on.
Fair ==
  LET Queue(A) == part = "queue" /\ A
      Poll(A) == part = "reminders" /\ A
  IN  /\ \A g \in Gens, s \in Sessions : WF_vars(Queue(\E outcome \in Outcomes : Finish(g, s, outcome)))
      /\ WF_vars(Queue(Initialize)) /\ WF_vars(Queue(Exit))
      /\ WF_cronVars(Poll(S!Tick)) /\ WF_cronVars(Poll(S!ListDue))
      /\ WF_cronVars(Poll(\E c \in Crons : S!Poll(c))) /\ WF_cronVars(Poll(S!WriteBack))

JobsSpec == JobsInit /\ [][QueueStep \/ ReminderStep \/ Over]_<<part, vars, cronVars>> /\ Fair

\* SessionCronProps: a slot of a reminder becomes a job once, and once more for each store
\* fault or crash.
OncePerSlot == S!OncePerSlot

\* SessionCronProps: a reminder is completed or advanced only after its slot was enqueued.
NoSlotSkipped == S!NoSlotSkipped

\* SessionCronProps: a reminder written before a reset of its session, canceled, or of a
\* session that is gone never fires.
OnlyLiveCronsFire == S!OnlyLiveCronsFire

\* SessionCronProps: whatever a removal, a purge or a broken-off reset left active is retired
\* when it comes due.
StaleCronsRetired == S!StaleCronsRetired

\* SessionCronProps: a reminder that comes due is taken off the list, unless the queue is full.
DueCronsFire == S!DueCronsFire
=============================================================================
