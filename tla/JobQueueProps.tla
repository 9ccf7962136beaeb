---------------------------- MODULE JobQueueProps ----------------------------
(***************************************************************************)
(* What is checked of JobQueue: the type invariant, the safety of the      *)
(* slots, of the log and of /stop, the refinement of DurableFifo, and the  *)
(* progress the queue makes under the fairness of its environment.         *)
(***************************************************************************)
EXTENDS JobQueue

\* The type of every variable.
TypeOK ==
  /\ phase \in {"down", "up", "stopping"}
  /\ gen \in Gens
  /\ queue \in [Gens -> [Sessions -> Seq(Jobs)]]
  /\ active \in [Gens -> SUBSET Sessions]
  /\ run \in [Gens -> [Sessions -> RunState]]
  /\ cancel \in [Sessions -> 0..MaxGen]
  /\ removing \in BOOLEAN
  /\ line \in [Jobs -> Nat]
  /\ reported \in SUBSET Sessions
  /\ faults \in 0..MaxFaults
  /\ crashes \in 0..MaxCrashes
  /\ fate \in [Jobs -> {"new", "pending"} \cup Final]

-----------------------------------------------------------------------------
(* Slots. *)

\* Under one pair of maps no more sessions run than MAX_CONCURRENT_SESSIONS_PER_AGENT,
\* whatever handler dispatches and whatever store call throws on the way.
SlotLimit == \A g \in Gens : Cardinality(active[g]) <= MaxConcurrent

\* dispatchAgent runs wherever a slot or a job appears, so while any session runs
\* no other waits beside a free slot.
WorkConserving ==
  faults = 0 /\ active[gen] # {} /\ Cardinality(active[gen]) < MaxConcurrent
    => Candidates(queue[gen], active[gen]) = {}

\* A session in activeRuns is run by a processSession, for a job still at its head.
\* A slot without one is lost: nothing takes the session out of the map again.
NoLeakedSlot ==
  faults = 0 => \A g \in Gens, s \in Sessions :
    /\ s \in active[g] <=> run[g][s] # "none"
    /\ s \in active[g] => queue[g][s] # <<>>

-----------------------------------------------------------------------------
(* /stop. *)

\* The run of a session can be aborted by /stop as long as the session runs, the
\* second and later jobs of its loop included: its controller is the registered one.
Abortable ==
  phase # "down" /\ gen = 1 => \A s \in Sessions : run[gen][s] # "none" => cancel[s] = gen

\* A job that finished, or that /stop dropped, is never run, dropped or settled
\* a second time, also when the process crashes at any later point.
FateIsFinal == [][\A j \in Jobs : fate[j] \in Final => fate'[j] = fate[j]]_vars

-----------------------------------------------------------------------------
(* The log. *)

\* Between two handlers the log recovers to exactly the jobs in memory, so that a
\* crash at that point neither loses an accepted job nor brings back a settled one.
LogMatchesMemory == phase # "down" /\ faults = 0 /\ gen = 1 => Pending = JobsIn(queue[gen])

\* Whatever store call throws, and with older maps orphaned by a removal, every
\* job in the current queues is in the log: a crash cannot lose it.
NoJobLost == phase # "down" => JobsIn(queue[gen]) \subseteq Pending

\* No job is held twice: not in two sessions, not twice in one, and not by the
\* orphaned maps of a removed runtime and the new ones at once.
OneHolder ==
  \A g, h \in Gens : \A s, t \in Sessions :
    \A i \in 1..Len(queue[g][s]) : \A k \in 1..Len(queue[h][t]) :
      queue[g][s][i] = queue[h][t][k] => g = h /\ s = t /\ i = k

\* The runtime state file that the CLI shows follows every change of the active
\* runs in the same handler, as long as no write throws and no runtime is removed.
ReportFollows ==
  [][active'[gen] # active[gen] /\ phase' # "down" /\ faults' = faults /\ gen' = 1
       => reported' = active'[gen]]_vars

-----------------------------------------------------------------------------
(* Refinement.  What a session's FIFO holds is in memory while the process *)
(* lives and in the log while it does not.                                 *)

Fifo == INSTANCE DurableFifo WITH
  fifo    <- [s \in Sessions |-> IF phase = "down" THEN RecoveredQueue(s) ELSE queue[gen][s]],
  running <- {s \in Sessions : run[gen][s] # "none"}

\* Without store faults and removals the queue and its log implement DurableFifo:
\* start-up, crashes, exits and compactions are invisible in it.
RefinesDurableFifo == Fifo!Spec

-----------------------------------------------------------------------------
(* Progress. *)

\* The worker of every run ends (its timeouts and the kill after an abort see to
\* it) and a daemon that is down is started again.  Nobody has to send anything,
\* to stop a session or to crash.
Fairness ==
  /\ \A g \in Gens, s \in Sessions : WF_vars(\E outcome \in Outcomes : Finish(g, s, outcome))
  /\ WF_vars(Initialize)
  /\ WF_vars(Exit)

FairSpec == Spec /\ Fairness

\* Once any session runs, every accepted job of the agent gets settled, if the
\* process lives: each end of a run hands the slot on, no session is passed over.
RunningDrainsAll ==
  \A j \in Jobs :
    (fate[j] = "pending" /\ phase = "up" /\ active[gen] # {}) ~> (fate[j] \in Final \/ phase # "up")

\* docs/ARCHITECTURE.md: after a restart the daemon recovers the pending tasks
\* from the queue log.  As long as it stays up, every accepted job gets settled.
RecoveredJobsRun ==
  \A j \in Jobs : (fate[j] = "pending" /\ phase = "up") ~> (fate[j] \in Final \/ phase # "up")

=============================================================================
