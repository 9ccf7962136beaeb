----------------------------- MODULE SessionCron -----------------------------
(***************************************************************************)
(* The reminders of one agent and the sessions they are bound to:          *)
(* cron-store.ts and services/{session,cron}-lifecycle.ts of src/store,    *)
(* processDueCrons of daemon.ts, and the cron actions a finished run hands *)
(* to OutboundDispatch.                                                    *)
(*                                                                         *)
(* Two processes write these files.  The daemon's handlers run without     *)
(* interruption, and a poll awaits nothing but its own enqueues, so inside *)
(* it the daemon starts jobs and does nothing else; the CLI, which purges  *)
(* sessions, may write at any point.  A cron file is read and written back *)
(* without a lock over both: the poll's last write of a cron is a step of  *)
(* its own, of the record it read.                                         *)
(*                                                                         *)
(* A day is one unit of time, reminders are due at whole units.  The queue *)
(* is reduced to the number of jobs of a session; JobQueue has the rest.   *)
(* MaxNow, MaxResets and MaxMishaps (store faults and crashes together)    *)
(* bound what they name.                                                   *)
(***************************************************************************)
EXTENDS CronBounds

Generations == 0..MaxResets
NoRun == MaxResets + 1
NotWritten == [status |-> "none"]
CronRecord ==
  [status : {"active", "completed", "canceled", "invalidated"}, session : Conversations,
   generation : Generations, next : 0..(MaxNow + 1)]

VARIABLES
  now,
  status,      \* [session]: "none", "active", or "gone" (removed or purged)
  generation,  \* [session]: resetGeneration
  cron,        \* [cron]: its file
  jobs,        \* [session]: jobs queued, the one that runs not counted
  run,         \* [session]: resetGeneration in the record its run holds, or NoRun
  due,         \* what listDueCrons returned and the poll has not come to
  held,        \* the cron the poll has enqueued and read again, to write it back
  purging,     \* the sessions a CLI has purged whose crons it has not invalidated yet
  mishaps,     \* store faults and crashes so far
  fires,       \* history: [cron][slot]: how often it was enqueued
  asked,       \* history: [cron]: resetGeneration when the run that asked for it began
  reset        \* history: the crons whose session was reset after they were written

files   == <<status, generation, cron>>
queue   == <<jobs, run>>
polling == <<due, held>>
history == <<fires, asked, reset>>
vars    == <<now, files, queue, polling, purging, mishaps, history>>

Init ==
  /\ now = 0
  /\ status = [s \in Conversations |-> "none"] /\ generation = [s \in Conversations |-> 0]
  /\ cron = [c \in Crons |-> NotWritten]
  /\ jobs = [s \in Conversations |-> 0] /\ run = [s \in Conversations |-> NoRun]
  /\ due = {} /\ held = {} /\ purging = {}
  /\ mishaps = 0
  /\ fires = [c \in Crons |-> [t \in 0..MaxNow |-> 0]]
  /\ asked = [c \in Crons |-> 0] /\ reset = {}

Active(c) == cron[c].status = "active"
ActiveOf(s) == {c \in Crons : Active(c) /\ cron[c].session = s}
Idle == due = {} /\ held = {}   \* no poll is under way
Awaits == due = {} \/ held # {}  \* or it awaits an enqueue, which starts jobs
Running == {s \in Conversations : run[s] # NoRun}
Tracked == Cardinality({p \in Conversations \X (1..QueueDepth) : p[2] <= jobs[p[1]]}) + Cardinality(Running)
WithStatus(S, st) == [c \in Crons |-> IF c \in S THEN [cron[c] EXCEPT !.status = st] ELSE cron[c]]

Mishap == mishaps < MaxMishaps /\ mishaps' = mishaps + 1
-----------------------------------------------------------------------------
(* Sessions. *)

\* createSession: an active session of the address would be returned instead.
CreateSession(s) ==
  /\ Idle /\ status[s] = "none"
  /\ \A t \in Conversations : status[t] # "active"
  /\ status' = [status EXCEPT ![s] = "active"]
  /\ UNCHANGED <<now, generation, cron, queue, polling, purging, mishaps, history>>

\* /reset: the record first, then the session's crons one by one, of which only those
\* in S are reached.
ResetFiles(s, S) ==
  /\ Idle /\ status[s] = "active" /\ generation[s] < MaxResets
  /\ generation' = [generation EXCEPT ![s] = @ + 1]
  /\ cron' = WithStatus(S, "invalidated")
  /\ reset' = reset \cup {c \in Crons : cron[c] # NotWritten /\ cron[c].session = s}
  /\ UNCHANGED <<now, status, purging, fires, asked>>

Reset(s) ==
  /\ \/ ResetFiles(s, ActiveOf(s)) /\ mishaps' = mishaps
     \/ Mishap /\ \E S \in SUBSET ActiveOf(s) : ResetFiles(s, S)
  /\ UNCHANGED <<queue, polling>>

\* session remove: the record is marked, then looked up among the active ones, and the
\* throw leaves the crons as they are.
RemoveSession(s) ==
  /\ status[s] = "active"
  /\ status' = [status EXCEPT ![s] = "gone"]
  /\ UNCHANGED <<now, generation, cron, queue, polling, purging, mishaps, history>>

\* With --purge, and when a channel or an agent is removed, the crons follow.
PurgeSession(s) ==
  /\ status[s] = "active"
  /\ status' = [status EXCEPT ![s] = "gone"] /\ purging' = purging \cup {s}
  /\ UNCHANGED <<now, generation, cron, queue, polling, mishaps, history>>

InvalidateCrons(s) ==
  /\ s \in purging /\ purging' = purging \ {s}
  /\ cron' = WithStatus(ActiveOf(s), "invalidated")
  /\ UNCHANGED <<now, status, generation, queue, polling, mishaps, history>>
-----------------------------------------------------------------------------
(* Jobs. *)

Mut_Full == Tracked > QueueDepth
Full == Tracked >= QueueDepth

Message(s) ==
  /\ Idle /\ status[s] = "active" /\ ~Full
  /\ jobs' = [jobs EXCEPT ![s] = @ + 1]
  /\ UNCHANGED <<now, files, run, polling, purging, mishaps, history>>

\* runJob reads the session record once, at its start; without an active one it throws.
StartJob(s) ==
  /\ Awaits /\ jobs[s] > 0 /\ run[s] = NoRun
  /\ jobs' = [jobs EXCEPT ![s] = @ - 1]
  /\ run' = IF status[s] = "active" THEN [run EXCEPT ![s] = generation[s]] ELSE run
  /\ UNCHANGED <<now, files, polling, purging, mishaps, history>>

\* cron_create: the record is read again, a daily cron is due at the next slot.
CreateCron(s, c) ==
  /\ cron[c] = NotWritten /\ status[s] = "active"
  /\ \E next \in IF c \in Daily THEN {now + 1} ELSE {now, now + 1} :
       cron' = [cron EXCEPT ![c] =
         [status |-> "active", session |-> s, generation |-> generation[s], next |-> next]]
  /\ asked' = [asked EXCEPT ![c] = run[s]]

\* cron_cancel: scoped to the session, and a cron that is not active stays what it is.
CancelCron(s, c) ==
  /\ cron[c] # NotWritten /\ cron[c].session = s /\ status[s] = "active"
  /\ cron' = WithStatus({c} \cap ActiveOf(s), "canceled")
  /\ UNCHANGED asked

EndJob(s) ==
  /\ Idle /\ run[s] # NoRun
  /\ run' = [run EXCEPT ![s] = NoRun]
  /\ \/ UNCHANGED <<cron, asked>>   \* no cron action, or the job failed before it
     \/ \E c \in Crons : CreateCron(s, c) \/ CancelCron(s, c)
  /\ UNCHANGED <<now, status, generation, jobs, polling, purging, mishaps, fires, reset>>
-----------------------------------------------------------------------------
(* processDueCrons. *)

Mut_DueNow(c) == Active(c) /\ cron[c].next = now
DueNow(c) == Active(c) /\ cron[c].next <= now

ListDue ==
  /\ Idle
  /\ \E c \in Crons : DueNow(c)
  /\ due' = {c \in Crons : DueNow(c)}
  /\ UNCHANGED <<now, files, queue, held, purging, mishaps, history>>

Mut_Bound(c) == status[cron[c].session] = "active"
Bound(c) ==
  /\ status[cron[c].session] = "active"
  /\ generation[cron[c].session] = cron[c].generation

Mut_Retired(c) ==
  WithStatus({c} \cap {d \in Crons : Active(d) /\ status[cron[d].session] = "active"}, "invalidated")
Retired(c) == WithStatus({c} \cap {d \in Crons : Active(d)}, "invalidated")

\* A full queue is a poll error: the cron stays due.
Mut_Enqueue(c) ==
  LET s == cron[c].session
  IN /\ held' = {[id |-> c, record |-> cron[c]]}
     /\ jobs' = IF Full THEN jobs ELSE [jobs EXCEPT ![s] = @ + 1]
     /\ fires' = IF Full THEN fires ELSE [fires EXCEPT ![c][cron[c].next] = @ + 1]
Enqueue(c) ==
  \/ Full /\ UNCHANGED <<jobs, fires, held>>
  \/ /\ ~Full
     /\ jobs' = [jobs EXCEPT ![cron[c].session] = @ + 1]
     /\ fires' = [fires EXCEPT ![c][cron[c].next] = @ + 1]
     /\ held' = {[id |-> c, record |-> cron[c]]}

Poll(c) ==
  /\ c \in due /\ held = {} /\ due' = due \ {c}
  /\ \/ Bound(c) /\ Enqueue(c) /\ UNCHANGED cron
     \/ ~Bound(c) /\ cron' = Retired(c) /\ UNCHANGED <<jobs, fires, held>>
  /\ UNCHANGED <<now, status, generation, run, purging, mishaps, asked, reset>>

\* completeCron and advanceDailyCron; the next slot is the first one after now.
Mut_Triggered(h) ==
  IF h.id \in Daily THEN h.record ELSE [h.record EXCEPT !.status = "completed"]
Triggered(h) ==
  IF h.id \in Daily THEN [h.record EXCEPT !.next = now + 1]
                    ELSE [h.record EXCEPT !.status = "completed"]

WriteBack ==
  /\ \E h \in held :
       \/ cron' = [cron EXCEPT ![h.id] = Triggered(h)] /\ mishaps' = mishaps
       \/ cron' = cron /\ Mishap
  /\ held' = {}
  /\ UNCHANGED <<now, status, generation, queue, due, purging, history>>
-----------------------------------------------------------------------------
Tick ==
  /\ now < MaxNow /\ now' = now + 1
  /\ UNCHANGED <<files, queue, polling, purging, mishaps, history>>

\* The daemon dies and starts again: the queue log still has the jobs, the run's included.
\* Two jobs of one slot share an id and would come back as one; here both are counted.
Restart ==
  /\ Mishap
  /\ jobs' = [s \in Conversations |-> IF run[s] = NoRun THEN jobs[s] ELSE jobs[s] + 1]
  /\ run' = [s \in Conversations |-> NoRun]
  /\ due' = {} /\ held' = {}

Crash == Restart /\ UNCHANGED <<now, files, purging, history>>

\* It dies between the writes of a reset.
CrashInReset(s) == Restart /\ \E S \in SUBSET ActiveOf(s) : ResetFiles(s, S)

Next ==
  \/ Tick \/ Crash \/ ListDue \/ WriteBack
  \/ \E s \in Conversations :
       \/ CreateSession(s) \/ Reset(s) \/ CrashInReset(s)
       \/ RemoveSession(s) \/ PurgeSession(s) \/ InvalidateCrons(s)
       \/ Message(s) \/ StartJob(s) \/ EndJob(s)
  \/ \E c \in Crons : Poll(c)

Spec == Init /\ [][Next]_vars

(* Time passes, and the poll runs every 2 s to its end.  Nobody has to end *)
(* a job, to send a message or to finish a purge.                          *)
FairSpec == Spec /\ WF_vars(Tick) /\ WF_vars(ListDue) /\ WF_vars(\E c \in Crons : Poll(c)) /\ WF_vars(WriteBack)
=============================================================================
