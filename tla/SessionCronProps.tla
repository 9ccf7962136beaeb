-------------------------- MODULE SessionCronProps --------------------------
(***************************************************************************)
(* What is checked of SessionCron: which reminders may fire, how often,    *)
(* that none is passed over, and that those of a lost session are retired. *)
(***************************************************************************)
EXTENDS SessionCron

\* The type of every variable, with the queue's depth.
TypeOK ==
  /\ now \in 0..MaxNow
  /\ status \in [Conversations -> {"none", "active", "gone"}]
  /\ generation \in [Conversations -> Generations]
  /\ cron \in [Crons -> CronRecord \cup {NotWritten}]
  /\ jobs \in [Conversations -> 0..QueueDepth] /\ Tracked <= QueueDepth
  /\ run \in [Conversations -> Generations \cup {NoRun}]
  /\ due \in SUBSET Crons
  /\ held \in SUBSET [id : Crons, record : CronRecord] /\ Cardinality(held) <= 1
  /\ purging \in SUBSET Conversations
  /\ mishaps \in 0..MaxMishaps
  /\ fires \in [Crons -> [0..MaxNow -> 0..(1 + MaxMishaps)]]
  /\ asked \in [Crons -> Generations]
  /\ reset \in SUBSET Crons

\* A slot of a reminder becomes a job once; each store fault or crash, falling between
\* the enqueue and the write of the cron, can add one delivery and no more.
OncePerSlot ==
  \A c \in Crons, t \in 0..MaxNow : fires[c][t] <= 1 + mishaps

\* A once cron is completed, and a daily one advanced, only after its slot was enqueued:
\* a full queue or a lost write never makes a slot pass silently.
NoSlotSkipped ==
  [][\A c \in Crons :
       /\ cron[c] # NotWritten
       /\ cron'[c].next # cron[c].next
          \/ (cron'[c].status = "completed" /\ cron[c].status # "completed")
       => fires[c][cron[c].next] > 0]_vars

Fires(c) == fires'[c] # fires[c]

\* A reminder written before a reset of its session, canceled, or of a session that is
\* gone never fires, even if the reset was cut short between its writes.
OnlyLiveCronsFire ==
  [][\A c \in Crons : Fires(c) =>
       /\ c \notin reset /\ Active(c)
       /\ status[cron[c].session] = "active"]_vars

\* README.md: reminders are bound to the session and lapse when it is reset.  A reminder
\* asked for before a reset does not fire after it.
ResetEndsReminders ==
  [][\A c \in Crons : Fires(c) => asked[c] = generation[cron[c].session]]_vars

Pending(c) == Active(c) /\ cron[c].next <= MaxNow

\* Whatever a removal, a purge or a broken-off reset left active is retired when it comes
\* due, also when the poll writes a purged session's cron back over the CLI's write.
StaleCronsRetired == \A c \in Crons : (Pending(c) /\ ~Bound(c)) ~> ~Pending(c)

\* A reminder that comes due is taken off the list however long the daemon was away,
\* unless the queue is full; by NoSlotSkipped it has fired then.
DueCronsFire == \A c \in Crons : (Pending(c) /\ Bound(c)) ~> (~(Pending(c) /\ Bound(c)) \/ Full)
=============================================================================
