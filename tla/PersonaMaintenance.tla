------------------------- MODULE PersonaMaintenance -------------------------
(***************************************************************************)
(* The maintenance of one agent's persona memory                           *)
(* (src/runtime/persona-memory/service.ts): inbound messages append to     *)
(* the observation log of their scene; Formation after a turn, the backlog *)
(* sweep and Dream run one after the other on the agent's maintenance      *)
(* queue; a Formation session takes a prefix of the log it read when it    *)
(* started, and a log whose sessions keep failing is dropped.              *)
(*                                                                         *)
(* A handler runs without interruption up to its next await, and the only  *)
(* await of a maintenance task is its model session: the stretch that ends *)
(* one session goes on to the start of the task's next one.  What a        *)
(* session edits is left to the session itself; here it returns the number *)
(* of lines to consume, or throws.                                         *)
(*                                                                         *)
(* A store call of the failure handler may throw: MaxFaults bounds those.  *)
(* MaxLines, MaxChain and MaxCrashes bound messages, queue and crashes.    *)
(***************************************************************************)
EXTENDS Naturals, Sequences

CONSTANTS
  Scenes,      \* sceneRefs, ordered as the sorted directory listing
  MinLines,    \* FORMATION_MIN_OBSERVATION_LINES
  MaxRetries,  \* FORMATION_MAX_RETRIES
  MaxLines, MaxChain, MaxFaults, MaxCrashes

ASSUME PersonaMaintenanceAssumption ==
  /\ Scenes \subseteq Nat \ {0}
  /\ MinLines \in Nat \ {0} /\ MaxRetries \in Nat \ {0}
  /\ MaxLines \in Nat /\ MaxChain \in Nat
  /\ MaxFaults \in Nat /\ MaxCrashes \in Nat

NoScene == 0
Turn(s) == [kind |-> "turn", scene |-> s]
Sweep == [kind |-> "sweep", scene |-> NoScene]
Dream == [kind |-> "dream", scene |-> NoScene]
NoRetry == [signature |-> <<>>, attempts |-> 0]

VARIABLES
  log,          \* observations/<scene>.log: its lines, << >> is no file
  retry,        \* control/formation-retry/<scene>.json
  chain,        \* maintenanceLocks: the tasks not yet done, the head may be running
  session,      \* the session awaited: "none", "formation" or "dream"
  scene, lines, \* the scene of the Formation session and the lines it read
  todo,         \* files the running sweep has listed and not come to
  sweepQueued, dreamQueued,   \* backlogSweepQueued, dreamQueued
  recorded,     \* messages recorded so far: their numbers are the lines
  faults, crashes,
  consumed,     \* history: lines a session took
  tries         \* history: failed sessions over each line, up to MaxRetries

disk    == <<log, retry>>
running == <<session, scene, lines, todo>>
flags   == <<sweepQueued, dreamQueued>>
history == <<consumed, tries>>
vars    == <<disk, chain, running, flags, recorded, faults, crashes, history>>

Init ==
  /\ log = [s \in Scenes |-> <<>>] /\ retry = [s \in Scenes |-> NoRetry]
  /\ chain = <<>> /\ session = "none" /\ scene = NoScene /\ lines = <<>> /\ todo = {}
  /\ sweepQueued = FALSE /\ dreamQueued = FALSE
  /\ recorded = 0 /\ faults = 0 /\ crashes = 0
  /\ consumed = {} /\ tries = [l \in 1..MaxLines |-> 0]

Ran(seq) == {seq[i] : i \in 1..Len(seq)}
-----------------------------------------------------------------------------
(* What arrives: messages, and tasks for the maintenance queue. *)

Mut_WithLine(lg, s, l) ==
  [lg EXCEPT ![s] = IF Len(@) >= MinLines THEN Append(Tail(@), l) ELSE Append(@, l)]
WithLine(lg, s, l) == [lg EXCEPT ![s] = Append(@, l)]

\* recordInbound, called for every message of a paired chat that is no command.
Record(s) ==
  /\ recorded < MaxLines
  /\ recorded' = recorded + 1
  /\ log' = WithLine(log, s, recorded + 1)
  /\ UNCHANGED <<retry, chain, running, flags, faults, crashes, history>>

EnqueueMaintenance(task) == Len(chain) < MaxChain /\ chain' = Append(chain, task)

ScheduleFormation(s) ==
  /\ EnqueueMaintenance(Turn(s))
  /\ UNCHANGED <<disk, running, flags, recorded, faults, crashes, history>>

QueueBacklogSweep ==
  /\ ~sweepQueued /\ sweepQueued' = TRUE
  /\ EnqueueMaintenance(Sweep)
  /\ UNCHANGED <<disk, running, dreamQueued, recorded, faults, crashes, history>>

\* The early returns of requestDream (not due, nothing new, no files) queue nothing.
RequestDream ==
  /\ ~dreamQueued /\ dreamQueued' = TRUE
  /\ EnqueueMaintenance(Dream)
  /\ UNCHANGED <<disk, running, sweepQueued, recorded, faults, crashes, history>>
-----------------------------------------------------------------------------
(* Tasks. *)

\* shouldRunFormationForObservations; aged holds the scenes whose first line
\* is older than FORMATION_MAX_WAIT_MS.
Due(lg, s, aged) == lg[s] # <<>> /\ (Len(lg[s]) >= MinLines \/ s \in aged)

Mut_EndTask ==
  /\ chain' = Tail(chain)
  /\ sweepQueued' = (sweepQueued /\ ~(Head(chain) = Sweep /\ session = "formation"))
  /\ dreamQueued' = (dreamQueued /\ Head(chain) # Dream)
  /\ session' = "none" /\ scene' = NoScene /\ lines' = <<>> /\ todo' = {}
\* The finally blocks clear the flag of the task, the queue takes its next one.
EndTask ==
  /\ chain' = Tail(chain)
  /\ sweepQueued' = (sweepQueued /\ Head(chain) # Sweep)
  /\ dreamQueued' = (dreamQueued /\ Head(chain) # Dream)
  /\ session' = "none" /\ scene' = NoScene /\ lines' = <<>> /\ todo' = {}

\* The sweep's for loop never comes back to a file.
Mut_After(rest, s) == rest
After(rest, s) == {t \in rest : t > s}

\* On to the first due scene of the task, over the logs lg; at its end, the task is over.
GoOn(rest, lg) ==
  \E aged \in SUBSET Scenes :
    LET due == {s \in rest : Due(lg, s, aged)}
    IN \/ due = {} /\ EndTask
       \/ \E s \in due :
            /\ \A t \in due : s <= t
            /\ session' = "formation" /\ scene' = s /\ lines' = lg[s]
            /\ todo' = After(rest, s)
            /\ UNCHANGED <<chain, flags>>

\* runFormationForTurn, runBacklogSweep and runDream up to their session.
Start ==
  /\ chain # <<>> /\ session = "none"
  /\ \/ EndTask   \* no model for the agent; nothing to dream of; a throw
     \/ Head(chain) = Dream /\ session' = "dream" /\ UNCHANGED <<chain, scene, lines, todo, flags>>
     \/ Head(chain) = Sweep /\ GoOn({s \in Scenes : log[s] # <<>>}, log)
     \/ \E s \in Scenes : Head(chain) = Turn(s) /\ GoOn({s}, log)
  /\ UNCHANGED <<disk, recorded, faults, crashes, history>>

\* Dream consumes nothing, whether it applies its edits or fails.
DreamEnds ==
  /\ session = "dream" /\ EndTask
  /\ UNCHANGED <<disk, recorded, faults, crashes, history>>

\* The log is rewritten with what is left of the lines read at the start.
Mut_Rewritten(n) == [log EXCEPT ![scene] = IF n = 0 THEN lines ELSE SubSeq(lines, n, Len(lines))]
Rewritten(n) == [log EXCEPT ![scene] = SubSeq(lines, n + 1, Len(lines))]
Taken(n) == Ran(SubSeq(lines, 1, n))

SessionApplies(n) ==
  /\ session = "formation" /\ n <= Len(lines)
  /\ log' = Rewritten(n) /\ consumed' = consumed \cup Taken(n)
  /\ retry' = [retry EXCEPT ![scene] = NoRetry]
  /\ GoOn(todo, log')
  /\ UNCHANGED <<recorded, faults, crashes, tries>>

(* A session fails when it throws or times out, or when the index guard or *)
(* the sync throws.  The audit after the rewrite may throw as well: then   *)
(* n lines are gone from the log already.                                  *)
LateFault(n) ==
  /\ faults < MaxFaults /\ faults' = faults + 1
  /\ n <= Len(lines)
NoFault == faults' = faults

Mut_Attempts == retry[scene].attempts + 1
Attempts == IF retry[scene].signature = lines THEN retry[scene].attempts + 1 ELSE 1

Mut_Discards == Attempts > MaxRetries
Discards == Attempts >= MaxRetries

Tried == tries' = [l \in 1..MaxLines |->
  IF l \in Ran(lines) /\ tries[l] < MaxRetries THEN tries[l] + 1 ELSE tries[l]]

\* handleFormationFailure: the third failure over the same lines removes the log.
HandleFailure(lg) ==
  /\ Tried
  /\ IF Discards
     THEN /\ log' = [lg EXCEPT ![scene] = <<>>]
          /\ retry' = [retry EXCEPT ![scene] = NoRetry]
     ELSE /\ log' = lg
          /\ retry' = [retry EXCEPT ![scene] = [signature |-> lines, attempts |-> Attempts]]

SessionFails ==
  /\ session = "formation"
  /\ \/ HandleFailure(log) /\ NoFault /\ consumed' = consumed
     \/ \E n \in 0..Len(lines) :
          LateFault(n) /\ HandleFailure(Rewritten(n)) /\ consumed' = consumed \cup Taken(n)
  /\ GoOn(todo, log')
  /\ UNCHANGED <<recorded, crashes>>

\* A throw of handleFormationFailure, at an audit or at the retry file: the attempt is
\* not counted, or the log is gone, and the scenes left of a sweep are skipped.
HandlerThrows ==
  /\ session = "formation" /\ faults < MaxFaults /\ faults' = faults + 1
  /\ Tried /\ EndTask
  /\ \/ UNCHANGED <<disk, consumed>>
     \/ \E n \in 0..Len(lines) :
          log' = Rewritten(n) /\ consumed' = consumed \cup Taken(n) /\ UNCHANGED retry
     \/ /\ Discards
        /\ log' = [log EXCEPT ![scene] = <<>>]
        /\ retry' = [retry EXCEPT ![scene] = NoRetry]
        /\ UNCHANGED consumed
  /\ UNCHANGED <<recorded, crashes>>

SessionEnds == SessionFails \/ HandlerThrows \/ \E n \in 0..MaxLines : SessionApplies(n)
-----------------------------------------------------------------------------
(* The process dies and a new one starts: the queue and its flags are gone.  *)

Restart ==
  /\ crashes < MaxCrashes /\ crashes' = crashes + 1
  /\ chain' = <<>> /\ session' = "none" /\ scene' = NoScene /\ lines' = <<>> /\ todo' = {}
  /\ sweepQueued' = FALSE /\ dreamQueued' = FALSE
  /\ UNCHANGED <<recorded, faults>>

Crash == Restart /\ UNCHANGED <<disk, history>>

\* It dies between the rewrite of the log and the removal of the retry file.
CrashApplying(n) ==
  /\ session = "formation" /\ n <= Len(lines)
  /\ log' = Rewritten(n) /\ consumed' = consumed \cup Taken(n)
  /\ Restart
  /\ UNCHANGED <<retry, tries>>

\* It dies between the removal of the log and that of the retry file.
CrashDiscarding ==
  /\ session = "formation" /\ Discards
  /\ log' = [log EXCEPT ![scene] = <<>>] /\ Tried
  /\ Restart
  /\ UNCHANGED <<retry, consumed>>

Next ==
  \/ \E s \in Scenes : Record(s) \/ ScheduleFormation(s)
  \/ QueueBacklogSweep \/ RequestDream
  \/ Start \/ DreamEnds \/ SessionEnds
  \/ Crash \/ CrashDiscarding \/ \E n \in 0..MaxLines : CrashApplying(n)

Spec == Init /\ [][Next]_vars

(* A promise queue starts its next task as soon as the last one settles; a *)
(* session settles within MAINTENANCE_TIMEOUT_MS, one way or another.      *)
FairSpec == Spec /\ WF_vars(Start) /\ WF_vars(DreamEnds \/ SessionEnds)
=============================================================================
