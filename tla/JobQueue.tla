------------------------------ MODULE JobQueue ------------------------------
(***************************************************************************)
(* JobQueueService (src/runtime/job-queue.ts) for one agent, with the      *)
(* queue log it recovers from (runtime-state-store.ts), the two ways the   *)
(* daemon ends (daemon.ts) and the runtime removal that pulls the maps     *)
(* from under it (runtime-control.ts).  Agents share no map and no file,   *)
(* so one agent is the general case.                                       *)
(*                                                                         *)
(* Node runs a handler without interruption up to its next await, and the  *)
(* only await between two queue operations is that of runJob: one action   *)
(* is one stretch between awaits, with every call it makes.                *)
(*                                                                         *)
(* Store calls can throw (a lock held by the CLI, a full disk).  Such a    *)
(* throw is a fault; MaxFaults bounds how many happen.  MaxCrashes bounds  *)
(* the crashes, MaxGen the runtime removals of one daemon process.         *)
(***************************************************************************)
EXTENDS Naturals, Sequences, FiniteSets

CONSTANTS
  Jobs,           \* job ids; the order of ids is localeCompare on them
  Sessions,       \* session record ids, ordered likewise
  SessionOf,      \* the session a job belongs to
  CreatedAt,      \* job.createdAt, a millisecond timestamp
  Scheduled,      \* the jobs of kind "scheduled", which come from the cron poll
  MaxConcurrent,  \* MAX_CONCURRENT_SESSIONS_PER_AGENT
  MaxDepth,       \* MAX_QUEUE_DEPTH
  MaxFaults, MaxCrashes, MaxGen

ASSUME JobQueueAssumption ==
  /\ Jobs \subseteq Nat /\ IsFiniteSet(Jobs)
  /\ Sessions \subseteq Nat /\ IsFiniteSet(Sessions)
  /\ SessionOf \in [Jobs -> Sessions]
  /\ CreatedAt \in [Jobs -> Nat]
  /\ Scheduled \subseteq Jobs
  /\ MaxConcurrent \in Nat \ {0} /\ MaxDepth \in Nat \ {0}
  /\ MaxFaults \in Nat /\ MaxCrashes \in Nat /\ MaxGen \in Nat \ {0}

Gens == 1..MaxGen
RunState == {"none", "running", "aborted"}
Outcomes == {"complete", "fail", "cancel"}
Final == Outcomes \cup {"dropped"}

VARIABLES
  phase,     \* "down", "up", or "stopping" (daemon.shuttingDown)
  gen,       \* which pair of maps agentQueues/activeRunsByAgent hold for the agent
  queue,     \* [gen][session]: RunJob[]; << >> is a session absent from the map
  active,    \* [gen]: the keys of the activeRuns map
  run,       \* [gen][session]: the runJob processSession awaits, for the queue's head
  cancel,    \* [session]: gen of the run whose AbortController is registered, 0: none
  removing,  \* removeAgentRuntime awaits docker
  line,      \* the queue log: 0, or the rank of the job's line among the pending ones
  reported,  \* activeRuns in the runtime state file
  faults, crashes,
  fate       \* history: what became of each job

memory  == <<gen, queue, active, run, cancel, removing>>
history == <<faults, crashes>>
vars    == <<phase, memory, line, reported, history, fate>>

Idle     == [g \in Gens |-> [s \in Sessions |-> <<>>]]
NoRun    == [g \in Gens |-> [s \in Sessions |-> "none"]]
NoActive == [g \in Gens |-> {}]

Init ==
  /\ phase = "down" /\ gen = 1 /\ removing = FALSE
  /\ queue = Idle /\ active = NoActive /\ run = NoRun
  /\ cancel = [s \in Sessions |-> 0]
  /\ line = [j \in Jobs |-> 0] /\ reported = {}
  /\ faults = 0 /\ crashes = 0
  /\ fate = [j \in Jobs |-> "new"]

JobsIn(q) == UNION {{q[s][i] : i \in 1..Len(q[s])} : s \in Sessions}
Tracked(q) == Cardinality({p \in Sessions \X (1..Cardinality(Jobs)) : p[2] <= Len(q[p[1]])})
-----------------------------------------------------------------------------
(* The queue log.  recoverPendingJobs replays it into a Map that "enqueue"  *)
(* sets, that a terminal event deletes from and that iterates in insertion *)
(* order, so the log is kept as that order: line[j] = 0 is "not pending".  *)

Pending == {j \in Jobs : line[j] > 0}

AppendedAt(n) ==
  /\ \A k \in Jobs : line[k] < n
  /\ \A m \in 1..Cardinality(Jobs) : m < n => \E k \in Jobs : line[k] >= m

\* compactQueueLog rewrites the log: one "enqueue" per job, by createdAt, then jobId.
CompactBefore(j, k) ==
  \/ CreatedAt[j] < CreatedAt[k]
  \/ CreatedAt[j] = CreatedAt[k] /\ j < k
Mut_CompactedLog(S) ==
  LET waiting == {j \in S : ~ \E s \in active[gen] : queue[gen][s] # <<>> /\ j = Head(queue[gen][s])}
  IN [j \in Jobs |-> IF j \in waiting THEN 1 + Cardinality({k \in waiting : CompactBefore(k, j)}) ELSE 0]
CompactedLog(S) ==
  [j \in Jobs |-> IF j \in S THEN 1 + Cardinality({k \in S : CompactBefore(k, j)}) ELSE 0]

\* The pending jobs of a session in the order recovery sorts them: createdAt,
\* and the order of the Map where that is equal (the sort is stable).
Mut_RecoverBefore(j, k) == CreatedAt[j] > CreatedAt[k]
RecoverBefore(j, k) ==
  \/ CreatedAt[j] < CreatedAt[k]
  \/ CreatedAt[j] = CreatedAt[k] /\ line[j] < line[k]
RecoveredQueue(s) ==
  LET mine == {j \in Pending : SessionOf[j] = s}
  IN [i \in 1..Cardinality(mine) |->
        CHOOSE j \in mine : Cardinality({k \in mine : RecoverBefore(k, j)}) = i - 1]
-----------------------------------------------------------------------------
(* Dispatch. *)

Candidates(q, act) == {s \in Sessions \ act : q[s] # <<>>}

HeadBefore(q, s, t) ==
  LET a == CreatedAt[Head(q[s])]
      b == CreatedAt[Head(q[t])]
  IN a < b \/ (a = b /\ s < t)

Lesser(m, n) == IF m < n THEN m ELSE n
Mut_Slots(q, act) == Lesser(MaxConcurrent, Cardinality(Candidates(q, act)))
Slots(q, act) == Lesser(MaxConcurrent - Cardinality(act), Cardinality(Candidates(q, act)))

\* pickNextSession n times: the n idle sessions with the oldest heads.
Picked(q, act, n) ==
  {P \in SUBSET Candidates(q, act) :
     /\ Cardinality(P) = n
     /\ \A s \in P, t \in Candidates(q, act) \ P : HeadBefore(q, s, t)}

\* syncRuntimeState runs at each start that does not throw first, so the file
\* ends with what was active at the last of those.
Mut_ReportJobs(q, act, P, broken, old) == act \cup {Head(q[s]) : s \in P}
Mut_ReportAfter(q, act, P, broken, old) ==
  IF P \subseteq broken THEN old ELSE act \cup {s \in P : \E t \in P \ broken : HeadBefore(q, s, t)}
ReportAfter(q, act, P, broken, old) ==
  IF P \subseteq broken THEN old
  ELSE act \cup {s \in P : \E t \in P \ broken : s = t \/ HeadBefore(q, s, t)}

\* dispatchAgent on the current maps, from the values the handler has given the
\* variables so far.  It goes on until the slots are full or no session waits;
\* an audit call that throws ends it early.  In a session of "broken" the start
\* throws once activeRuns and the AbortController are set and before runJob.
Dispatch(q, act, rn, cn, rep, f) ==
  \E n \in 0..Slots(q[gen], act[gen]) : \E P \in Picked(q[gen], act[gen], n) :
  \E broken \in SUBSET P :
    LET cost == Cardinality(broken) + (IF n < Slots(q[gen], act[gen]) THEN 1 ELSE 0)
    IN /\ f + cost <= MaxFaults
       /\ faults' = f + cost
       /\ active' = [act EXCEPT ![gen] = @ \cup P]
       /\ run' = [rn EXCEPT ![gen] = [s \in Sessions |->
                    IF s \in P \ broken THEN "running" ELSE @[s]]]
       /\ cancel' = [s \in Sessions |-> IF s \in P THEN gen ELSE cn[s]]
       /\ reported' = ReportAfter(q[gen], act[gen], P, broken, rep)
-----------------------------------------------------------------------------
(* Operations. *)

\* initialize, on daemon start: the maps are rebuilt from the log and the log
\* is compacted.  Nothing is dispatched and the runtime state file keeps its text.
Initialize ==
  /\ phase = "down"
  /\ phase' = "up"
  /\ queue' = [queue EXCEPT ![gen] = [s \in Sessions |-> RecoveredQueue(s)]]
  /\ line' = CompactedLog(Pending)
  /\ UNCHANGED <<gen, active, run, cancel, removing, reported, history, fate>>

\* enqueue.  The router calls it for an inbound job; a scheduled one comes through
\* daemon.enqueue, which refuses it during shutdown.  A full queue, and a log
\* that cannot be written, change nothing.  createdAt is read just before.
Enqueue(j) ==
  /\ phase = "up" \/ (phase = "stopping" /\ j \notin Scheduled)
  /\ fate[j] = "new"
  /\ \A k \in Jobs : fate[k] # "new" => CreatedAt[k] <= CreatedAt[j]
  /\ Tracked(queue[gen]) < MaxDepth
  /\ \E n \in 1..Cardinality(Jobs) : AppendedAt(n) /\ line' = [line EXCEPT ![j] = n]
  /\ fate' = [fate EXCEPT ![j] = "pending"]
  /\ queue' = [queue EXCEPT ![gen][SessionOf[j]] = Append(@, j)]
  /\ Dispatch(queue', active, run, cancel, reported, faults)
  /\ UNCHANGED <<phase, gen, removing, crashes>>

\* The rest of the loop in processSession when the session has another job: it
\* starts in the slot held, after the finally block dropped the controller.
Mut_StartNext(g, s) ==
  /\ run' = [run EXCEPT ![g][s] = "running"]
  /\ cancel' = [cancel EXCEPT ![s] = 0]
  /\ reported' = active[gen]
  /\ UNCHANGED <<active, faults>>
StartNext(g, s) ==
  \E broken \in BOOLEAN :
    /\ (IF broken THEN faults + 1 ELSE faults) <= MaxFaults
    /\ faults' = IF broken THEN faults + 1 ELSE faults
    /\ run' = [run EXCEPT ![g][s] = IF broken THEN "none" ELSE "running"]
    /\ cancel' = [cancel EXCEPT ![s] = g]
    /\ reported' = IF broken THEN reported ELSE active[gen]
    /\ UNCHANGED active

\* The end of processSession: the slot is given back, the state file written and
\* dispatchAgent called; a write that throws is a fault and skips the dispatch.
Mut_ReleaseSlot(g, s) ==
  /\ active' = [active EXCEPT ![g] = @ \ {s}]
  /\ run' = [run EXCEPT ![g][s] = "none"]
  /\ cancel' = [cancel EXCEPT ![s] = 0]
  /\ reported' = active'[gen]
  /\ UNCHANGED faults
ReleaseSlot(g, s) ==
  LET act == [active EXCEPT ![g] = @ \ {s}]
      rn  == [run EXCEPT ![g][s] = "none"]
      cn  == [cancel EXCEPT ![s] = 0]
  IN \/ Dispatch(queue', act, rn, cn, act[gen], faults)
     \/ /\ faults < MaxFaults /\ faults' = faults + 1
        /\ active' = act /\ run' = rn /\ cancel' = cn
        /\ UNCHANGED reported

\* A terminal event is logged for a job.
Mut_Settle(job, outcome) ==
  /\ UNCHANGED line
  /\ fate' = [fate EXCEPT ![job] = outcome]
Settle(job, outcome) ==
  /\ line' = [line EXCEPT ![job] = 0]
  /\ fate' = [fate EXCEPT ![job] = outcome]

\* runJob of session s, begun under the maps of generation g, returns or throws.
\* Its terminal event is logged, the job shifted, and the loop goes on or ends.
\* Only a run that was aborted throws SessionStoppedError; an abort that reaches
\* it after the worker answered leaves the outcome as it is.
Finish(g, s, outcome) ==
  /\ run[g][s] # "none"
  /\ outcome = "cancel" => run[g][s] = "aborted"
  /\ Settle(Head(queue[g][s]), outcome)
  /\ queue' = [queue EXCEPT ![g][s] = Tail(@)]
  /\ IF Tail(queue[g][s]) # <<>> THEN StartNext(g, s) ELSE ReleaseSlot(g, s)
  /\ UNCHANGED <<phase, gen, removing, crashes>>

\* The catch block throws: its "fail" event or the agent update after it could
\* not be written.  The finally block still shifts the job; then the rejection
\* leaves processSession and the session stays in activeRuns with nobody running it.
FinishThrows(g, s, logged) ==
  /\ run[g][s] # "none"
  /\ faults < MaxFaults /\ faults' = faults + 1
  /\ IF logged THEN Settle(Head(queue[g][s]), "fail") ELSE UNCHANGED <<line, fate>>
  /\ queue' = [queue EXCEPT ![g][s] = Tail(@)]
  /\ run' = [run EXCEPT ![g][s] = "none"]
  /\ cancel' = [cancel EXCEPT ![s] = 0]
  /\ UNCHANGED <<phase, gen, active, removing, reported, crashes>>
-----------------------------------------------------------------------------
\* What stopSession leaves of a session's queue: the head if the session is active.
Mut_Kept(s) == <<>>
Kept(s) ==
  IF s \in active[gen] /\ queue[gen][s] # <<>> THEN <<Head(queue[gen][s])>> ELSE <<>>

\* stopSession (/stop): the registered run is aborted, the waiting jobs are dropped
\* from memory, then the log is compacted.  With the rewrite lost (a fault) the
\* dropped jobs stay in the log, so they are not settled.
Stop(s, rewritten) ==
  LET dropped == {queue[gen][s][i] : i \in (Len(Kept(s)) + 1)..Len(queue[gen][s])}
      g == cancel[s]
  IN /\ phase # "down"
     /\ queue[gen][s] = <<>> => rewritten
     /\ run' = IF g # 0 /\ run[g][s] = "running"
               THEN [run EXCEPT ![g][s] = "aborted"] ELSE run
     /\ queue' = [queue EXCEPT ![gen][s] = Kept(s)]
     /\ IF queue[gen][s] = <<>> \/ ~rewritten
          THEN UNCHANGED <<line, fate>>
          ELSE /\ line' = CompactedLog(JobsIn(queue'[gen]))
               /\ fate' = [j \in Jobs |-> IF j \in dropped THEN "dropped" ELSE fate[j]]
     /\ faults' = IF rewritten THEN faults ELSE faults + 1
     /\ faults' <= MaxFaults
     /\ UNCHANGED <<phase, gen, active, cancel, removing, reported, crashes>>

\* removeAgentRuntime up to its await of docker: the maps are deleted, the next
\* access makes new ones, and the runs in flight keep the old.  The map of
\* AbortControllers belongs to the service and stays.
Mut_RemoveRuntime ==
  /\ phase # "down" /\ ~removing /\ gen < MaxGen
  /\ gen' = gen + 1
  /\ removing' = TRUE
  /\ queue' = [queue EXCEPT ![gen + 1] = [s \in Sessions |-> RecoveredQueue(s)]]
  /\ UNCHANGED <<phase, active, run, cancel, line, reported, history, fate>>
RemoveRuntime ==
  /\ phase # "down" /\ ~removing /\ gen < MaxGen
  /\ gen' = gen + 1
  /\ removing' = TRUE
  /\ UNCHANGED <<phase, queue, active, run, cancel, line, reported, history, fate>>

\* Docker has answered: on success the state file is written without active runs.
RuntimeRemoved(ok) ==
  /\ removing
  /\ removing' = FALSE
  /\ reported' = IF ok THEN {} ELSE reported
  /\ UNCHANGED <<phase, gen, queue, active, run, cancel, line, history, fate>>

\* stopInternal sets shuttingDown and stops the channel plugins; runs go on.
Shutdown ==
  /\ phase = "up"
  /\ phase' = "stopping"
  /\ UNCHANGED <<memory, line, reported, history, fate>>

\* The process is gone and with it everything but the files.
LoseMemory ==
  /\ phase' = "down" /\ gen' = 1 /\ removing' = FALSE
  /\ queue' = Idle /\ active' = NoActive /\ run' = NoRun
  /\ cancel' = [s \in Sessions |-> 0]

\* The drain of stopInternal ends: no run left, or 30 s gone by with runs in
\* flight.  compactIdleQueues then empties the log of an agent with no work, if
\* the agent has a queue map (after a removal it may have none).
Exit ==
  /\ phase = "stopping"
  /\ LET idle == JobsIn(queue[gen]) = {} /\ active[gen] = {} IN
       \/ idle /\ line' = CompactedLog({})
       \/ (~idle \/ gen > 1) /\ UNCHANGED line
  /\ LoseMemory
  /\ UNCHANGED <<reported, history, fate>>

\* A crash, or the SIGKILL the CLI sends five seconds after its SIGTERM.
Crash ==
  /\ phase # "down" /\ crashes < MaxCrashes
  /\ crashes' = crashes + 1
  /\ LoseMemory
  /\ UNCHANGED <<line, reported, faults, fate>>

Next ==
  \/ Initialize
  \/ \E j \in Jobs : Enqueue(j)
  \/ \E g \in Gens, s \in Sessions, outcome \in Outcomes : Finish(g, s, outcome)
  \/ \E g \in Gens, s \in Sessions, logged \in BOOLEAN : FinishThrows(g, s, logged)
  \/ \E s \in Sessions, rewritten \in BOOLEAN : Stop(s, rewritten)
  \/ RemoveRuntime
  \/ \E ok \in BOOLEAN : RuntimeRemoved(ok)
  \/ Shutdown
  \/ Exit
  \/ Crash

Spec == Init /\ [][Next]_vars

=============================================================================
