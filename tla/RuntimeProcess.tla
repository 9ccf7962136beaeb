---------------------------- MODULE RuntimeProcess ----------------------------
(***************************************************************************)
(* Starting, stopping and restarting the background runtime from several    *)
(* command lines at once (src/cli/handlers/runtime.ts): the runtime is the  *)
(* process named in a pid file, which command lines and runtimes write under *)
(* a file lock (src/store/fs.ts).                                          *)
(*                                                                         *)
(* A command line spawns while it holds the lock, in steps of its own; every *)
(* other write takes and releases the lock in one step.  A lock whose holder *)
(* was killed is taken over once it is stale.  Process numbers are not used *)
(* again.  Bounds: MaxRuntimes spawned.                                     *)
(***************************************************************************)
EXTENDS Naturals

CONSTANTS Clis, MaxRuntimes, Nobody

VARIABLES
    process,   \* runtimes by process number
    spawned,   \* how many there were
    pid,       \* the pid file, 0 for none
    lock,      \* who holds its lock: a command line or Nobody
    pc, target, thenStart,   \* per command line: its next step, the runtime it acts on, restart
    crossed    \* history: a pid was written over that was alive, or never written

runtimeVars == <<process, spawned, pid, lock, pc, target, thenStart, crossed>>

Pids == 1..MaxRuntimes
isRuntimeAlive(p) == p # 0 /\ process[p] \in {"booting", "running", "exiting"}

Init ==
    /\ process = [p \in Pids |-> "none"]
    /\ spawned = 0
    /\ pid = 0
    /\ lock = Nobody
    /\ pc = [c \in Clis |-> "idle"]
    /\ target = [c \in Clis |-> 0]
    /\ thenStart = [c \in Clis |-> FALSE]
    /\ crossed = FALSE

(* ------------------------------------------------------------------------ *)
(* The lock and the file *)

\* Ten attempts 20 ms apart, then the error reaches the command.
LockFree == lock = Nobody

\* The new content is written beside the file and renamed over it.
writeRuntimeProcessState(p) ==
    /\ LockFree
    /\ pid' = p

Goes(c, step) == pc' = [pc EXCEPT ![c] = step]

TimesOut(c) ==
    /\ pc[c] \in {"locking", "clearing"} /\ ~LockFree
    /\ Goes(c, "idle")
    /\ thenStart' = [thenStart EXCEPT ![c] = FALSE]
    /\ UNCHANGED <<process, spawned, pid, lock, target, crossed>>

LockGoesStale ==
    /\ lock # Nobody /\ pc[lock] = "killed"
    /\ lock' = Nobody
    /\ Goes(lock, "idle")
    /\ UNCHANGED <<process, spawned, pid, target, thenStart, crossed>>

(* ------------------------------------------------------------------------ *)
(* Start *)

\* `runtime start` looks first; other commands that need the runtime go
\* straight to ensureRuntimeProcess.
handleRuntimeStart(c) ==
    /\ pc[c] \in {"idle", "restarting"}
    /\ Goes(c, IF isRuntimeAlive(pid) THEN "idle" ELSE "locking")
    /\ UNCHANGED <<process, spawned, pid, lock, target, thenStart, crossed>>

Ensure(c) ==
    /\ pc[c] = "idle"
    /\ Goes(c, "locking")
    /\ UNCHANGED <<process, spawned, pid, lock, target, thenStart, crossed>>

acquireLock(c) ==
    /\ pc[c] = "locking" /\ LockFree
    /\ lock' = c
    /\ Goes(c, "locked")
    /\ UNCHANGED <<process, spawned, pid, target, thenStart, crossed>>

Spawn(c) ==
    /\ spawned < MaxRuntimes
    /\ spawned' = spawned + 1
    /\ process' = [process EXCEPT ![spawned'] = "booting"]
    /\ target' = [target EXCEPT ![c] = spawned']
    /\ Goes(c, "spawned")
    /\ UNCHANGED <<pid, lock, thenStart, crossed>>

Mut_ensureRuntimeProcess(c) ==
    /\ pc[c] = "locked"
    /\ Spawn(c)

ensureRuntimeProcess(c) ==
    /\ pc[c] = "locked"
    /\ \/ /\ isRuntimeAlive(pid)
          /\ lock' = Nobody
          /\ Goes(c, "idle")
          /\ UNCHANGED <<process, spawned, pid, target, thenStart, crossed>>
       \/ /\ ~isRuntimeAlive(pid)
          /\ Spawn(c)

WriteSpawned(c) ==
    /\ pc[c] = "spawned"
    /\ pid' = target[c]
    /\ lock' = Nobody
    /\ Goes(c, "idle")
    /\ UNCHANGED <<process, spawned, target, thenStart, crossed>>

\* The command line is killed with the lock in its hands.
KillCli(c) ==
    /\ lock = c /\ pc[c] \in {"locked", "spawned"}
    /\ crossed' = (crossed \/ pc[c] = "spawned")
    /\ Goes(c, "killed")
    /\ UNCHANGED <<process, spawned, pid, lock, target, thenStart>>

(* ------------------------------------------------------------------------ *)
(* Stop and restart *)

\* A runtime that is still starting has no handler for the signal yet.
OnSigterm(p) ==
    CASE process[p] = "booting" -> "dead"
      [] process[p] = "running" -> "exiting"
      [] OTHER -> process[p]

handleRuntimeStop(c, restart) ==
    /\ pc[c] = "idle"
    /\ thenStart' = [thenStart EXCEPT ![c] = restart]
    /\ target' = [target EXCEPT ![c] = pid]
    /\ IF isRuntimeAlive(pid)
       THEN /\ process' = [process EXCEPT ![pid] = OnSigterm(pid)]
            /\ Goes(c, "waiting")
       ELSE /\ Goes(c, "clearing")
            /\ UNCHANGED process
    /\ UNCHANGED <<spawned, pid, lock, crossed>>

\* Up to five seconds for the runtime to end, then it is killed.
waitForRuntimeExit(c) ==
    /\ pc[c] = "waiting"
    /\ process' = [process EXCEPT ![target[c]] = "dead"]
    /\ Goes(c, "clearing")
    /\ UNCHANGED <<spawned, pid, lock, target, thenStart, crossed>>

StopClears(c) ==
    /\ pc[c] = "clearing"
    /\ writeRuntimeProcessState(0)
    /\ crossed' = (crossed \/ isRuntimeAlive(pid))
    /\ Goes(c, IF thenStart[c] THEN "restarting" ELSE "idle")
    /\ thenStart' = [thenStart EXCEPT ![c] = FALSE]
    /\ UNCHANGED <<process, spawned, lock, target>>

(* ------------------------------------------------------------------------ *)
(* The runtime *)

Becomes(p, state) == process' = [process EXCEPT ![p] = state]
Clears(p) == crossed' = (crossed \/ (pid # p /\ isRuntimeAlive(pid)))

Boots(p) ==
    /\ process[p] = "booting"
    /\ writeRuntimeProcessState(p)
    /\ crossed' = (crossed \/ (pid # p /\ isRuntimeAlive(pid)))
    /\ Becomes(p, "running")
    /\ UNCHANGED <<spawned, lock, pc, target, thenStart>>

\* A recoverable error or an unhandled rejection writes the pid again.
refreshRuntimeProcessState(p) ==
    /\ process[p] \in {"running", "exiting"}
    /\ writeRuntimeProcessState(p)
    /\ crossed' = (crossed \/ (pid # p /\ isRuntimeAlive(pid)))
    /\ UNCHANGED <<process, spawned, lock, pc, target, thenStart>>

fatalExit(p) ==
    /\ process[p] = "running"
    /\ writeRuntimeProcessState(0)
    /\ Clears(p)
    /\ Becomes(p, "dead")
    /\ UNCHANGED <<spawned, lock, pc, target, thenStart>>

\* daemon.stop clears the file once the queue has drained.
shutdown(p) ==
    /\ process[p] = "exiting"
    /\ writeRuntimeProcessState(0)
    /\ Clears(p)
    /\ Becomes(p, "dead")
    /\ UNCHANGED <<spawned, lock, pc, target, thenStart>>

\* Killed, or ended by the error of a lock it did not get.
Dies(p) ==
    /\ isRuntimeAlive(p)
    /\ Becomes(p, "dead")
    /\ UNCHANGED <<spawned, pid, lock, pc, target, thenStart, crossed>>

Next ==
    \/ \E c \in Clis :
          \/ TimesOut(c)
          \/ handleRuntimeStart(c)
          \/ Ensure(c)
          \/ acquireLock(c)
          \/ ensureRuntimeProcess(c)
          \/ WriteSpawned(c)
          \/ KillCli(c)
          \/ \E restart \in BOOLEAN : handleRuntimeStop(c, restart)
          \/ waitForRuntimeExit(c)
          \/ StopClears(c)
    \/ LockGoesStale
    \/ \E p \in Pids :
          \/ Boots(p)
          \/ refreshRuntimeProcessState(p)
          \/ fatalExit(p)
          \/ shutdown(p)
          \/ Dies(p)

Spec == Init /\ [][Next]_runtimeVars

=============================================================================
