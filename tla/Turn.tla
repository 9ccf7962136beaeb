-------------------------------- MODULE Turn --------------------------------
(***************************************************************************)
(* A turn, from the job the queue starts to what is sent and remembered:   *)
(* worker-runner.ts, docker.ts, outbound-dispatch.ts and worker.ts of      *)
(* src/runtime, the tools of src/tools/index.ts, and the selector prefetch *)
(* of src/runtime/persona-memory/service.ts.                               *)
(*                                                                         *)
(* Turns of one agent run at once in different sessions (the queue starts  *)
(* one per session) and share its container and the channel's plugin.  An  *)
(* action is a stretch of a handler between two awaits.  Docker, the model *)
(* and the platform answer, fail or stay silent as they like; the clocks   *)
(* of a command, 300 s and then 5 s to the SIGKILL, always run out.        *)
(***************************************************************************)
EXTENDS Naturals, FiniteSets, TurnCalls

VARIABLES
  phase,     \* [turn]: how far runJob is
  handle,    \* [turn]: its selector prefetch: "none", "pending", "ready", "failed"
  wait,      \* [turn]: allowPersonaPrefetchWait
  stopped,   \* [turn]: its signal is aborted
  aborted,   \* [turn]: runCommand has seen the abort
  timedOut,  \* [turn]: runCommand has timed out
  child,     \* [turn]: the docker exec: "none", "runs", "term" or "killed" signalled
  plan,      \* [turn]: what the worker's result asks to deliver, in order
  sent,      \* [turn]: how many of these are delivered
  end,       \* [turn]: what the queue logs: "", "complete", "fail", "cancel", "removed"
  container, \* state of the agent's container
  start,     \* containerStartLocks: the start under way, "none" without one
  plugin,    \* whether the channel's plugin is in channelPlugins
  early,     \* history: the turns stopped before their worker closed or timed out
  remembered \* history: the turns handed to Formation

queueing == <<handle, wait, stopped>>
command  == <<aborted, timedOut, child>>
result   == <<plan, sent, end, remembered>>
around   == <<container, start, plugin>>
vars     == <<phase, queueing, command, result, around, early>>

Phases == {"new", "queued", "container", "context", "worker", "deliver", "done"}
Running(t) == phase[t] \notin {"new", "queued", "done"}
Waiters == {t \in Turns : phase[t] = "container"}

Init ==
  /\ phase = [t \in Turns |-> "new"] /\ handle = [t \in Turns |-> "none"]
  /\ wait = [t \in Turns |-> FALSE] /\ stopped = [t \in Turns |-> FALSE]
  /\ aborted = [t \in Turns |-> FALSE] /\ timedOut = [t \in Turns |-> FALSE]
  /\ child = [t \in Turns |-> "none"]
  /\ plan = [t \in Turns |-> <<>>] /\ sent = [t \in Turns |-> 0]
  /\ end = [t \in Turns |-> ""]
  /\ container \in {"missing", "exited", "running"} /\ start = "none" /\ plugin = TRUE
  /\ early = {} /\ remembered = {}

\* The jobs of T end; onRemoved drops their prefetches, and the rest was local to runJob.
Off(f, T, v) == [t \in Turns |-> IF t \in T THEN v ELSE f[t]]
Ends(T, e) ==
  /\ phase' = Off(phase, T, "done") /\ end' = Off(end, T, e)
  /\ handle' = Off(handle, T, "none") /\ wait' = Off(wait, T, FALSE)
  /\ stopped' = Off(stopped, T, FALSE) /\ aborted' = Off(aborted, T, FALSE)
  /\ timedOut' = Off(timedOut, T, FALSE) /\ child' = Off(child, T, "none")
Goes(t, p) == phase' = [phase EXCEPT ![t] = p]
-----------------------------------------------------------------------------
(* Before the worker. *)

\* onEnqueued: an inbound job starts the selector, if there is a memory file, text in
\* the message and a model to ask.
Enqueue(t) ==
  /\ phase[t] = "new" /\ Goes(t, "queued")
  /\ \E h \in {"none", "pending"} : handle' = [handle EXCEPT ![t] = h]
  /\ UNCHANGED <<wait, stopped, command, result, around, early>>

\* The model answers, fails, or its ten seconds are over.
SelectorEnds(t) ==
  /\ handle[t] = "pending"
  /\ \E h \in {"ready", "failed"} : handle' = [handle EXCEPT ![t] = h]
  /\ UNCHANGED <<phase, wait, stopped, command, result, around, early>>

\* runJob: the agent, the session, and then a container, whose start is shared.
Begin(t) ==
  /\ phase[t] = "queued" /\ Goes(t, "container")
  /\ \E w \in BOOLEAN : wait' = [wait EXCEPT ![t] = w]
  /\ start' = IF start = "none" THEN "inspect" ELSE start
  /\ UNCHANGED <<handle, stopped, command, result, container, plugin, early>>

\* The session was removed for good since the job was queued.
BeginFails(t) ==
  /\ phase[t] = "queued" /\ Ends({t}, "fail")
  /\ UNCHANGED <<plan, sent, remembered, around, early>>

Joined == phase' = [t \in Turns |-> IF phase[t] = "container" THEN "context" ELSE phase[t]]

\* docker inspect: a running container will do, a stopped one is started, and for any
\* other one is created.
Inspected ==
  /\ start = "inspect"
  /\ \/ container = "running" /\ start' = "none" /\ Joined
     \/ container = "exited" /\ start' = "start" /\ UNCHANGED phase
     \/ container = "missing" /\ start' = "run" /\ UNCHANGED phase
  /\ UNCHANGED <<queueing, command, result, container, plugin, early>>

Started ==
  /\ start \in {"start", "run"} /\ start' = "none" /\ container' = "running" /\ Joined
  /\ UNCHANGED <<queueing, command, result, plugin, early>>

Mut_StartFails ==
  /\ start # "none" /\ start' = "none"
  /\ \E t \in Waiters : Ends({t}, "fail")
  /\ UNCHANGED <<plan, sent, remembered, container, plugin, early>>

\* Any of the docker commands fails, for every turn that awaits them.
StartFails ==
  /\ start # "none" /\ start' = "none" /\ Ends(Waiters, "fail")
  /\ UNCHANGED <<plan, sent, remembered, container, plugin, early>>

\* resolveSelectedMemoryFiles waits for the selector only if it may.
ContextReady(t) == ~(handle[t] = "pending" /\ wait[t])

Mut_BuildContext(t) ==
  /\ phase[t] = "context" /\ ContextReady(t) /\ Goes(t, "worker")
  /\ child' = [child EXCEPT ![t] = "runs"]
  /\ UNCHANGED <<queueing, aborted, timedOut, result, around, early>>

\* The context is built and runCommand spawns the worker, to end it at once if the stop
\* came before.
BuildContext(t) ==
  /\ phase[t] = "context" /\ ContextReady(t) /\ Goes(t, "worker")
  /\ child' = [child EXCEPT ![t] = IF stopped[t] THEN "term" ELSE "runs"]
  /\ aborted' = [aborted EXCEPT ![t] = stopped[t]]
  /\ UNCHANGED <<queueing, timedOut, result, around, early>>

ContextFails(t) ==
  /\ phase[t] = "context" /\ ContextReady(t) /\ Ends({t}, "fail")
  /\ UNCHANGED <<plan, sent, remembered, around, early>>
-----------------------------------------------------------------------------
(* The worker, in docker exec, and its clocks. *)

\* /stop: a waiting job is removed, the signal of a running one is aborted; runCommand
\* heeds it unless it has timed out.
StopQueued(t) ==
  /\ phase[t] = "queued" /\ Ends({t}, "removed")
  /\ UNCHANGED <<plan, sent, remembered, around, early>>

Stop(t) ==
  /\ Running(t) /\ ~stopped[t] /\ stopped' = [stopped EXCEPT ![t] = TRUE]
  /\ early' = IF phase[t] = "deliver" \/ timedOut[t] THEN early ELSE early \cup {t}
  /\ IF phase[t] = "worker" /\ ~timedOut[t]
       THEN /\ aborted' = [aborted EXCEPT ![t] = TRUE]
            /\ child' = [child EXCEPT ![t] = "term"]
       ELSE UNCHANGED <<aborted, child>>
  /\ UNCHANGED <<phase, handle, wait, timedOut, result, around>>

\* 300 s are over: SIGTERM.
Timeout(t) ==
  /\ phase[t] = "worker" /\ ~timedOut[t]
  /\ timedOut' = [timedOut EXCEPT ![t] = TRUE]
  /\ child' = [child EXCEPT ![t] = IF @ = "killed" THEN @ ELSE "term"]
  /\ UNCHANGED <<phase, queueing, aborted, result, around, early>>

Mut_Kill(t) ==
  /\ child[t] = "term" /\ aborted[t] /\ child' = [child EXCEPT ![t] = "killed"]
  /\ UNCHANGED <<phase, queueing, aborted, timedOut, result, around, early>>

\* Five seconds after a SIGTERM: SIGKILL.
Kill(t) ==
  /\ child[t] = "term" /\ child' = [child EXCEPT ![t] = "killed"]
  /\ UNCHANGED <<phase, queueing, aborted, timedOut, result, around, early>>

Closes(t) == phase[t] = "worker"
Signalled(t) == timedOut[t] \/ aborted[t]

\* The command was stopped or timed out: it closes as that, whatever it had printed.
CloseSignalled(t) ==
  /\ Closes(t) /\ Signalled(t)
  /\ Ends({t}, IF timedOut[t] THEN "fail" ELSE "cancel")
  /\ UNCHANGED <<plan, sent, remembered, around, early>>

\* A non-zero exit, output that is no JSON, a spawn error, or actions and no plugin.
CloseFails(t) ==
  /\ Closes(t) /\ ~Signalled(t) /\ Ends({t}, "fail")
  /\ UNCHANGED <<plan, sent, remembered, around, early>>

\* parseWorkerResult of the last line; no line at all is a result that says nothing.
CloseWithResult(t) ==
  /\ Closes(t) /\ ~Signalled(t) /\ container = "running"
  /\ \E calls \in Calls, text \in BOOLEAN :
       LET p == WorkerResult(calls, text)
       IN /\ plan' = [plan EXCEPT ![t] = p]
          /\ p # <<>> /\ Head(p) # "outbound" => plugin
  /\ Goes(t, "deliver") /\ child' = [child EXCEPT ![t] = "none"]
  /\ UNCHANGED <<queueing, aborted, timedOut, sent, end, remembered, around, early>>
-----------------------------------------------------------------------------
(* The delivery, one await after another; nothing looks at the signal any more. *)

Next1(t) == plan[t][sent[t] + 1]

Mut_Deliver(t) ==
  /\ phase[t] = "deliver" /\ sent[t] < Len(plan[t])
  /\ sent' = [sent EXCEPT ![t] = @ + 1] /\ plan' = [plan EXCEPT ![t] = Tail(@)]
  /\ UNCHANGED <<phase, queueing, command, end, remembered, around, early>>

\* An action goes through the plugin looked up before the first of them, the reply
\* through one looked up again; what is sent to a session is logged there.
Deliver(t) ==
  /\ phase[t] = "deliver" /\ sent[t] < Len(plan[t])
  /\ Next1(t) = "outbound" => plugin
  /\ sent' = [sent EXCEPT ![t] = @ + 1]
  /\ UNCHANGED <<phase, queueing, command, plan, end, remembered, around, early>>

Mut_DeliverFails(t) ==
  /\ phase[t] = "deliver" /\ sent[t] < Len(plan[t]) /\ Ends({t}, "complete")
  /\ remembered' = remembered \cup {t}
  /\ UNCHANGED <<plan, sent, around, early>>

\* The platform refuses one, or its plugin is gone: the rest is not delivered.
DeliverFails(t) ==
  /\ phase[t] = "deliver" /\ sent[t] < Len(plan[t]) /\ Ends({t}, "fail")
  /\ UNCHANGED <<plan, sent, remembered, around, early>>

\* The transcript for Formation is built and handed over, and the job completes.
Remember(t) ==
  /\ phase[t] = "deliver" /\ sent[t] = Len(plan[t]) /\ Ends({t}, "complete")
  /\ remembered' = remembered \cup {t}
  /\ UNCHANGED <<plan, sent, around, early>>

\* The session log cannot be read for it.
RememberFails(t) ==
  /\ phase[t] = "deliver" /\ sent[t] = Len(plan[t]) /\ Ends({t}, "fail")
  /\ UNCHANGED <<plan, sent, remembered, around, early>>
-----------------------------------------------------------------------------
(* Around the turns: syncAgents takes the plugin out or puts it in; the container is
   stopped or removed by a command line or by docker. *)

PluginChanges ==
  /\ plugin' = ~plugin
  /\ UNCHANGED <<phase, queueing, command, result, container, start, early>>

ContainerStops ==
  /\ container = "running" /\ \E c \in {"exited", "missing"} : container' = c
  /\ UNCHANGED <<phase, queueing, command, result, start, plugin, early>>

Next ==
  \/ \E t \in Turns :
       \/ Enqueue(t) \/ SelectorEnds(t) \/ Begin(t) \/ BeginFails(t)
       \/ BuildContext(t) \/ ContextFails(t) \/ StopQueued(t) \/ Stop(t)
       \/ Timeout(t) \/ Kill(t) \/ CloseSignalled(t) \/ CloseFails(t) \/ CloseWithResult(t)
       \/ Deliver(t) \/ DeliverFails(t) \/ Remember(t) \/ RememberFails(t)
  \/ Inspected \/ Started \/ StartFails \/ PluginChanges \/ ContainerStops

Spec == Init /\ [][Next]_vars

\* Timers run out, and a process that has got its SIGKILL closes.
Clocks ==
  \A t \in Turns :
    /\ WF_vars(Timeout(t)) /\ WF_vars(Kill(t))
    /\ WF_vars(child[t] = "killed" /\ CloseSignalled(t))
FairSpec == Spec /\ Clocks
=============================================================================
