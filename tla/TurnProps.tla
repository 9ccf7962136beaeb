------------------------------ MODULE TurnProps ------------------------------
(***************************************************************************)
(* What is checked of Turn: what a stop, a failure half way and a shared   *)
(* container may do to a turn.                                             *)
(***************************************************************************)
EXTENDS Turn

\* The type of every variable.
TypeOK ==
  /\ phase \in [Turns -> Phases]
  /\ handle \in [Turns -> {"none", "pending", "ready", "failed"}]
  /\ wait \in [Turns -> BOOLEAN] /\ stopped \in [Turns -> BOOLEAN]
  /\ aborted \in [Turns -> BOOLEAN] /\ timedOut \in [Turns -> BOOLEAN]
  /\ child \in [Turns -> {"none", "runs", "term", "killed"}]
  /\ \A t \in Turns : sent[t] \in 0..Len(plan[t])
  /\ end \in [Turns -> {"", "complete", "fail", "cancel", "removed"}]
  /\ container \in {"missing", "exited", "running"}
  /\ start \in {"none", "inspect", "start", "run"}
  /\ plugin \in BOOLEAN /\ early \subseteq Turns /\ remembered \subseteq Turns

\* A turn that is stopped before its worker has closed, be it still waiting for the
\* container or for its memory files, sends nothing, is not remembered and does not
\* end as completed, whatever its worker goes on to print.
StoppedSaysNothing ==
  \A t \in early : plan[t] = <<>> /\ end[t] # "complete" /\ t \notin remembered

\* Formation hears of exactly the turns that complete, and a turn completes only when
\* the platform has taken every message and action of it: one that failed half way is
\* reported as failed and is not remembered as said.
RememberedIsSaid ==
  \A t \in Turns :
    /\ t \in remembered <=> end[t] = "complete"
    /\ t \in remembered => sent[t] = Len(plan[t])

\* A turn that awaits the container is served by a start under way, and no start goes on
\* that nobody awaits; a turn that has ended leaves no docker command and no prefetch.
NothingLeftBehind ==
  /\ Waiters # {} <=> start # "none"
  /\ \A t \in Turns :
       /\ child[t] # "none" <=> phase[t] = "worker"
       /\ handle[t] # "none" => phase[t] # "done"

\* Whatever the worker does, also ignoring signals, the session gets its slot back.
WorkersEnd == \A t \in Turns : phase[t] = "worker" ~> phase[t] # "worker"
=============================================================================
