---------------------- MODULE PersonaMaintenanceProps ----------------------
(***************************************************************************)
(* What is checked of PersonaMaintenance: what a session may rely on while *)
(* it runs, what may become of a recorded line, and the turn of the tasks. *)
(***************************************************************************)
EXTENDS PersonaMaintenance

Tasks == {Sweep, Dream} \cup {Turn(s) : s \in Scenes}

\* The type of every variable.
TypeOK ==
  /\ log \in [Scenes -> Seq(1..MaxLines)]
  /\ retry \in [Scenes -> [signature : Seq(1..MaxLines), attempts : 0..(MaxRetries - 1)]]
  /\ chain \in Seq(Tasks)
  /\ session \in {"none", "formation", "dream"}
  /\ scene \in Scenes \cup {NoScene}
  /\ lines \in Seq(1..MaxLines)
  /\ todo \in SUBSET Scenes
  /\ sweepQueued \in BOOLEAN /\ dreamQueued \in BOOLEAN
  /\ recorded \in 0..MaxLines
  /\ faults \in 0..MaxFaults /\ crashes \in 0..MaxCrashes
  /\ consumed \in SUBSET (1..MaxLines)
  /\ tries \in [1..MaxLines -> 0..MaxRetries]

\* While a Formation session runs, the lines it read are still the head of the log of
\* its scene, in order: messages append behind them and no other task touches them.
SnapshotIsPrefix ==
  session = "formation" =>
    /\ 0 < Len(lines) /\ Len(lines) <= Len(log[scene])
    /\ \A i \in 1..Len(lines) : log[scene][i] = lines[i]

\* No line a session has taken is in a log again, where the next session would fold it
\* into the memory a second time; every log keeps its lines in the order of arrival.
ConsumedStaysOut ==
  \A s \in Scenes :
    /\ Ran(log[s]) \cap consumed = {}
    /\ \A i, j \in 1..Len(log[s]) : i < j => log[s][i] < log[s][j]

\* A flag is up exactly as long as its task is in the queue, once: otherwise the
\* sweep, or Dream, would never be queued again or be queued twice.
FlagsMatchQueue ==
  LET at(task) == {i \in 1..Len(chain) : chain[i] = task}
  IN /\ sweepQueued = (at(Sweep) # {}) /\ \A i, j \in at(Sweep) : i = j
     /\ dreamQueued = (at(Dream) # {}) /\ \A i, j \in at(Dream) : i = j

Left(s) == Ran(log[s]) \ Ran(log[s])'

\* A line leaves a log only when a session over its scene ends, and one that session
\* had read leaves only as consumed or after MaxRetries failed sessions over it.
ReadLinesAreHandled ==
  [][\A s \in Scenes : \A l \in Left(s) :
       /\ session = "formation" /\ scene = s
       /\ l \in Ran(lines) => l \in consumed' \/ tries'[l] = MaxRetries]_vars

\* A line leaves a log only as consumed or after MaxRetries failed sessions over it
\* (docs/ARCHITECTURE.md: N lines go from the head of the log, three failures discard).
NoObservationLost ==
  [][\A s \in Scenes : \A l \in Left(s) : l \in consumed' \/ tries'[l] = MaxRetries]_vars

\* A queued sweep or Dream gets its turn behind whatever the turns of the agent queue.
QueuedTasksRun == (sweepQueued ~> ~sweepQueued) /\ (dreamQueued ~> ~dreamQueued)
=============================================================================
