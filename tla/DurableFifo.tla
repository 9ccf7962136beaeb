----------------------------- MODULE DurableFifo -----------------------------
(***************************************************************************)
(* What the job queue promises the rest of the daemon: an accepted job     *)
(* waits in the FIFO of its session, the head of a session's FIFO is the   *)
(* only job of it that runs, at most MaxConcurrent sessions run, a job     *)
(* leaves only by finishing or by a stop of its session, and a crash takes *)
(* the runs away and no job.                                               *)
(***************************************************************************)
EXTENDS Naturals, Sequences, FiniteSets

CONSTANTS Jobs, Sessions, SessionOf, MaxConcurrent

VARIABLES
  fifo,     \* [session]: the jobs accepted and not finished, oldest first
  running   \* the sessions whose head runs
vars == <<fifo, running>>

Init == fifo = [s \in Sessions |-> <<>>] /\ running = {}

\* Any step may begin to run sessions that wait; only the step's own session,
\* if any, stops running.
Begin(R) ==
  /\ running' \in SUBSET Sessions
  /\ running \ R \subseteq running'
  /\ Cardinality(running') <= MaxConcurrent
  /\ \A s \in running' : fifo'[s] # <<>>

Accept(j) ==
  /\ \A s \in Sessions : \A i \in 1..Len(fifo[s]) : fifo[s][i] # j
  /\ fifo' = [fifo EXCEPT ![SessionOf[j]] = Append(@, j)]
  /\ Begin({})

Finish(s) ==
  /\ s \in running
  /\ fifo' = [fifo EXCEPT ![s] = Tail(@)]
  /\ Begin({s})

Stop(s) ==
  /\ fifo' = [fifo EXCEPT ![s] = IF s \in running THEN <<Head(@)>> ELSE <<>>]
  /\ UNCHANGED running

Crash == running' = {} /\ UNCHANGED fifo

Next ==
  \/ \E j \in Jobs : Accept(j)
  \/ \E s \in Sessions : Finish(s) \/ Stop(s)
  \/ Crash

Spec == Init /\ [][Next]_vars

=============================================================================
