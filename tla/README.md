# nekoclaw in TLA+

Models of the concurrent and persistent core of nekoclaw, a daemon that runs AI agents in
containers and connects them to chat channels. Every definition is read off `src/`; the line
ranges are in `PROJECT.json` under `map`. Paths below are relative to the repository.

    cd tla
    tlc -workers 2 -config MCJobs.cfg MCJobs.tla      # one run, likewise the others
    tlapm JobQueueProofs.tla                          # proofs, likewise the other *Proofs

| module | what it is |
|---|---|
| `JobQueue`, `JobQueueProps`, `MCJobQueue` | the job queue of an agent with its log; properties; instances |
| `DurableFifo` | what the job queue promises: the abstract specification that `JobQueue` implements |
| `PersonaMaintenance`, `PersonaMaintenanceProps`, `MCPersonaMaintenance` | observation logs, Formation, backlog sweep, Dream |
| `CronBounds`, `SessionCron`, `SessionCronProps`, `MCSessionCron` | sessions, reminders, the daemon's cron poll |
| `TurnCalls`, `Turn`, `TurnProps`, `MCTurn` | a turn: prefetch, container, docker exec with its clocks, delivery, hand-over to Formation |
| `GatewayBounds`, `Gateway`, `GatewayProps`, `MCGateway` | a message's way in, pairing codes, the command lines beside the daemon |
| `MCJobs` | `JobQueue` and `SessionCron` side by side, one run of both |
| `MCIntake` | `JobQueue` where stores throw and `Gateway` side by side, one run of both |
| `Channels`, `ChannelsProps`, `MCChannels` | NapCat and Telegram plugins, their sync with the configuration, removal of a running agent |
| `Library`, `LibraryProps`, `MCLibrary` | the composition of the eight parts that follow, their properties, their instances |
| `MaintenanceSession` | what a Formation or Dream session does to the memory files; when Dream is due |
| `ModelStore` | default and override of a chat's model, catalogs, `models.json` |
| `RuntimeProcess` | start, stop and restart of the daemon by several command lines |
| `ModelContext` | what is cut from memory, logs and sessions to fit a prompt |
| `Schedules` | local times, zones and the next run of a reminder |
| `Inbound` | from a platform's message to an event, a command, a reply to the bot |
| `Outreach` | directory and tools of a turn, `no_reply`, the actions done after it |
| `Registry` | the agents that bear a name one after another, their files, their removal |
| `JobQueueProofs` | theorems about `JobQueue`, checked by TLAPS, and that it implements `DurableFifo` |
| `PersonaMaintenanceProofs`, `SessionCronProofs`, `TurnProofs`, `GatewayProofs`, `ChannelsProofs`, `LibraryProofs` | theorems about the modules of those names, checked by TLAPS |
| `LibraryDataProofs` | theorems about `Schedules`, `Outreach` and `Inbound`, checked by TLAPS |

A component's module holds state and actions, its `Props` module the properties, its `MC` module
the instances, its `Proofs` module the theorems; `CronBounds`, `TurnCalls` and `GatewayBounds` hold the
constants and the assumption of theirs. `MCJobs` and `MCIntake` take two components that share no state here (the
queue of `SessionCron` and of `Gateway` is a number of jobs): `part`, chosen at first, says which of them goes
on, fairness holds of that one alone, and `Over` lets the one whose bounds are used up stand still, so that a
deadlock of the queue is still found. The parts of `Library` share no state with each other, so they
have one `Props` and one `MC` module between them, and two of theorems. Each `TypeOK` gives the types of a module's
variables; those of `JobQueue`, `PersonaMaintenance`, `SessionCron`, `Turn` and `Gateway` are theorems. The
configurations leave it out, to spend their time on the rest. The `Mut_` operators beside some definitions are plausible bugs in that code
(a dropped guard, a swapped order). None is used by a specification; each shows that some
property fails when the definition is replaced by it.

## 1. The system

One daemon process (Node, a single thread) and any number of short-lived CLI processes share a
directory of JSON files. The daemon's parts call each other directly; there is no message bus.
What makes them concurrent is `await`: a handler runs undisturbed up to its next await, and any
other handler may run there. Between processes nothing is atomic but the write of one file.

    channel plugin --onEvent--> MessageRouter --enqueue, /stop--> JobQueue --runJob--> WorkerRunner --> container
         ^                        |       |                          ^                    |    |
         |          recordInbound |       | /reset                   | enqueue            |    | result
         |                        v       v                          |                    |    v
         |               PersonaMemory   sessions, crons <------ cron poll                | OutboundDispatch
         |                  ^     ^              ^                   ^                    |    |    |
         |                  |     +-- sweeps ----|---- timer, 2 s ---+                    |    |    |
         |                  +--------------------|------ scheduleFormation ---------------+    |    |
         |                                       +----------------- cron_create, cron_cancel --+    |
         +------------------------------------ send, reply, edit -----------------------------------+

The 2 s timer also runs the control actions the CLI has left as files and syncs the channel plugins with
the configuration. The CLI writes the same files as the daemon (pairs, sessions, crons, configuration).

| component | state | operations | hard behaviour |
|---|---|---|---|
| job queue (`runtime/job-queue.ts`, `store/runtime-state-store.ts`) | per agent: queue of each session, active sessions, abort controllers; on disk an event log and the runtime state | enqueue, dispatch, session loop, `/stop`, compaction, recovery, removal, drain, exit | sessions end, are stopped and fill up in any order; store calls throw half way; crashes; maps replaced under a running loop |
| persona maintenance (`persona-memory/service.ts`, `observations.ts`) | observation log of each scene, retry files, a promise chain of tasks, two flags | record, Formation after a turn, sweep with retries and discard, Dream | messages arrive during a session of minutes that rewrites the log from what it read before |
| maintenance session (`maintenance-agent.ts`, `formation.ts`, `dream.ts`, `manifest.ts`) | a clone of the memory directory, Dream's stored signature | edits by a model, index guard, sync back, decision whether Dream is due | partial sync, a file deleted and recreated, an abandoned prompt that goes on editing |
| prompt context (`selector.ts`, `service.ts`, `session-log.ts`, `session-hygiene.ts`, `token-service.ts`) | prefetches by job, remembered counts | start, await, clear; cut to a budget, shape old results | timeouts racing answers; counts that fail; boundaries |
| sessions and crons (`session-store.ts`, `cron-store.ts`, their lifecycle services, `daemon.ts`, `cron-schedule.ts`) | session records with status and resetGeneration; one file per cron | create, reset, remove, purge; create, cancel, poll, enqueue, complete, advance | two processes write one file; a reset of several writes; a run that outlives a reset; a full queue; daylight saving |
| router and pairing (`message-router.ts`, `command-router.ts`, `pair-store.ts`, `pairing.ts`) | pair requests with expiry and last prompt | inbound message, prompt, accept, reject, expire | awaits between check and stamp; CLI and daemon overwrite each other |
| turn (`worker-runner.ts`, `outbound-dispatch.ts`, `worker.ts`, `docker.ts`, `tools/`, `runtime-directory.ts`) | a container shared by turns, a docker process, the conversation file, recorded actions | run, abort, timeout, tools, `no_reply`, deliver | kill racing the answer; some of several actions sent; sessions gone meanwhile |
| NapCat, Telegram (`channels/`) | connection promise, reconnect timer, flags; polling, media group buffers; ids of the bot's messages | connect, lose, retry, map a message, send, stop | events at every point of a reconnect; timers racing a stop |
| channel runtime, runtime control (`channel-runtime.ts`, `runtime-control.ts`, `cli/handlers`) | plugins by configuration fingerprint; action files | sync, stop, remove; request with a timeout | an action processed twice or after its requester gave up |
| runtime process (`cli/handlers/runtime.ts`, `store/fs.ts`) | pid file and its lock | start, stop, restart | several at once; a daemon that drains for longer than the CLI waits; a lock whose holder was killed |
| agents, channels, models (`agent-store.ts`, `channel-store.ts`, `model-store.ts`, `model/`, lifecycle services) | the configuration, `models.json`, workspaces, files by agent id | create, configure, enable, remove; `/model`, catalogs, probe, metadata | removal in seven writes; two processes write one file |
| chat harness (`internal/chat-harness`) | fake transports | development tooling | not part of the runtime |

What makes each correct, in short: the queue loses no accepted job, runs none twice after it is
settled, keeps to its slots and leaves none idle; maintenance takes every observation once or
discards it after its retries, and its tasks get their turn; a reminder fires once for each slot, only
in the conversation it belongs to, and is never passed over; an accepted code, and only that, opens
a session; a turn is delivered or reported once; a channel that should be connected is, or is
trying; one daemon serves and the CLI finds it; a model a chat may choose is one its worker finds; a removed
agent leaves nothing to the next of its name. `PROJECT.json` lists the hazards with their
lines and the property that watches over each, and the components not modelled with the reason.

## 2. The job queue

`JobQueue` is `JobQueueService` for one agent: agents share no map and no file. One action is one
stretch of code between awaits, and the only await is that of `runJob`.

| state | code |
|---|---|
| `queue`, `active` | `agentQueues`, `activeRunsByAgent`, one per generation `gen` of the maps: `removeAgentRuntime` deletes them, the next access makes new ones, loops in flight keep the old |
| `run`, `cancel` | the `runJob` that `processSession` awaits; the `AbortController`s, keyed by session and shared by all generations |
| `line` | the event log as what recovery makes of it: the place of each pending job |
| `reported` | `activeRuns` in the runtime state file |
| `phase`, `removing` | daemon down, up, shutting down; a removal that awaits docker |
| `fate` | history: what became of each job |

`Enqueue`, `Finish`, `FinishThrows`, `Stop`, `Initialize`, `RemoveRuntime`, `RuntimeRemoved`, `Shutdown`,
`Exit` and `Crash` are the operations; `Dispatch` is `dispatchAgent`, which the handlers call as part
of their step. A store call may throw (a lock held by another process, a full disk): the start of a
session after it is in `activeRuns` (`broken` in `Dispatch`), the catch block of the loop
(`FinishThrows`), the write that ends it (`ReleaseSlot`), the rewrite of a compaction (`Stop`).

| run | instance | shows |
|---|---|---|
| `jobs`, its queue | 3 sessions, one with 2 jobs, 2 slots, queue limit 3 of 4 jobs, 2 crashes; 28 068 of 163 420 states | `RefinesDurableFifo`; `LogMatchesMemory`, `WorkConserving`, `NoLeakedSlot`, `Abortable`, `ReportFollows`; `RunningDrainsAll` |
| `intake`, its queue | 2 sessions, 3 jobs, two created in the same millisecond, 1 slot, 1 fault anywhere, 1 crash, 1 removal; 99 100 of 1 975 888 states | `SlotLimit`, `NoJobLost`, `OneHolder`, `FateIsFinal` |
| `queue_recovery` | as small | violated, see Findings: recovered jobs wait for an unrelated enqueue |

The bounds: three sessions on two slots are the least where a choice is made and a session waits;
a session with two jobs is the least whose loop goes on; the fourth job meets the limit; the second
crash falls into what the first recovery left. With one fault and one removal every throw point and
every orphaned loop meets every interleaving of the rest.

`DurableFifo` says what the rest of the daemon relies on: a FIFO for each session whose head alone runs, at
most `MaxConcurrent` runs, jobs that leave only by finishing or by a stop, crashes that take runs
and no jobs. The refinement maps a session's FIFO to memory while the process lives and to the
recovered log while it is down, so start-up, exit, compaction and crash become stuttering or `Crash`. It
holds for distinct timestamps, which `jobs` uses: with equal ones a compaction followed by a
crash swaps two jobs of a session, as compaction breaks the tie by job id and memory by arrival.

A job whose run a crash interrupts is run again: the queue delivers at least once, and `FateIsFinal`
is about jobs with a logged end. Jobs in the model have ids of their own; the ids of reminders, which
repeat, are the subject of `SessionCron`.

Fairness: a run ends (`Finish`, for each session), since the worker has timeouts and an abort kills
it; a daemon that is down is started again; a shutdown drain ends, by its 30 s limit at the latest.
Nobody has to enqueue, to stop or to crash. Every wait in `RunningDrainsAll` ends early if the
process goes down.

### What is proved

For all finite sets of jobs and sessions, any limit and depth, and any number of
faults, crashes and removals:

| theorem | states |
|---|---|
| `TypeCorrect` | `Spec => []TypeOK` |
| `SlotsBounded` | `Spec => []SlotLimit` |
| `JobsSurvive` | `Spec => []NoJobLost`: what is in the current queues is in the log |
| `JobsHaveOneHolder` | `Spec => []OneHolder`: one place for a job, orphaned queues included |
| `FateStaysFinal` | `Spec => FateIsFinal` |
| `NoSlotLeaks`, `SlotsAreUsed` | `Spec => []NoLeakedSlot`, `Spec => []WorkConserving`, which speak of the time before a fault |
| `RunsAreAbortable`, `LogIsExact` | `Spec => []Abortable`, `Spec => []LogMatchesMemory`, which speak of the first maps, the latter before a fault |
| `ReportIsCurrent` | `Spec => ReportFollows` |
| `QueueIsDurableFifo` | `Spec => RefinesDurableFifo` if `MaxFaults = 0`, `MaxGen = 1` and `NoTies` |

From the one assumption `JobQueueAssumption` (ids are finite sets of naturals, limits are positive). The
argument is one inductive invariant, `IInv`. None of the last three is inductive alone:
a job enqueued anew must not be in a queue already (`HeldKnown`, `LoggedKnown`: what is held or
logged has been accepted), a recovered job must not be in any queue when the maps are filled (`LaterEmpty`: a
process that is down holds nothing, and generations to come are empty), a run must end at the head
of the queue it began at (`RunHasHead`), and recovery must put each job at one place (`LineDistinct`,
`Homed`: the order of the log is strict, a job is in the queue of its session). `InLog` carries `NoJobLost`
through a compaction, which rewrites the log from memory. `CompactedLogLines` and `RecoveredQueueJobs` say what
the rewritten log and the recovered queue contain; they rest on lemmas on ranks in a strict
order. `NextIInv` has a case for each action, `DispatchFacts` what they share. TLC checked `IInv`
as an invariant of the queue of `intake` before it was proved.

The second half of the module adds three parts to it. `FateKnown`: what is held or logged is pending, so a step that
settles a job finds it unsettled. `Faultless`: the four properties of the time before a fault, which only
together are inductive (a log that matches memory needs loops that end at the head of their queue, and those slots
that do not leak). `OldestFirst`: a queue is in order of creation, as recovery would make it. With it each step maps to one of
`DurableFifo` or to a stutter: start-up and compaction leave a session's jobs where they were. The three hypotheses
of the refinement are what it needs: after a throw or a removal, log and memory differ, and `NoTies`
(no two jobs of a session in one millisecond) excludes the swap by job id (`job-queue.ts:146`).

Only model-checked: `RunningDrainsAll` (fairness and ENABLED are out of the prover's reach).

## 3. Persona maintenance

`PersonaMaintenance` models what `service.ts` does to the observation logs of one agent. `log` and
`retry` are the files; `chain` is the promise chain (`maintenanceLocks`), whose head runs; `session`,
`scene`, `lines`, `todo` are what the head knows while it awaits a model session; the flags keep sweep
and Dream to one place each. `Record` is a message; `ScheduleFormation`, `QueueBacklogSweep` and `RequestDream`
queue tasks; `Start` takes the head to its session; `SessionApplies`, `SessionFails`, `HandlerThrows`,
`DreamEnds` end it and go on; `Crash` and its two variants cut it off between two writes. A session is any number of
lines consumed, or a failure; what it edits is in `MaintenanceSession`. A scene whose first line is old enough may be due at any time.

| run | instance | shows |
|---|---|---|
| `maintenance_core` | 2 scenes, 3 messages, 2 tasks, 1 fault, 1 crash; about 500 000 states | `SnapshotIsPrefix`, `ConsumedStaysOut`, `ReadLinesAreHandled`, `FlagsMatchQueue`, `QueuedTasksRun` |
| `observations_lost` | 2 scenes, 3 messages, no fault, no crash | violated, see Findings |

Proved in `PersonaMaintenanceProofs`, for any number of scenes, lines, tasks, faults and crashes: `TypeOK`, the three
invariants of `maintenance_core` and `ReadLinesAreHandled`. The invariant `PInv` adds that lines in a log or
consumed were recorded, in one scene (`LinesAreRecorded`: a new message repeats none), that a session runs for the head of the
chain (`SessionHasTask`), and that a retry file counts no attempt over a line that was not made
(`AttemptsWereMade`: a discarded log had its `MaxRetries` sessions). `QueuedTasksRun` is only model-checked.

Two scenes make the sweep go on and fail between them; two lines are the threshold of a due log, the
third arrives during a session. `MaxRetries` is 2 for TLC, 3 in the code: one failure counted, one that
discards. Lines are whole observations; a reply's two physical lines are one. Fairness: the
chain starts its next task when the last settles, and a session settles within `MAINTENANCE_TIMEOUT_MS`.

## 4. Sessions and reminders

`SessionCron` has the session records of one agent (`status`, `generation`), the cron files (`cron`), the
queue as a count of jobs (`jobs`, `run`), and the poll in progress (`due`, `held`). The daemon's handlers do not
interleave with a poll, which awaits only enqueues; the CLI's purge does (`PurgeSession`, then
`InvalidateCrons`, at any point), and `WriteBack` writes the record `Poll` read. `RemoveSession` is a removal
without purge: the record is marked and then not found, so the crons are left active. `Reset` may
be cut short between its writes by a fault or a crash. Store faults and crashes are counted together as
mishaps. At most one cron action per run, days as the unit of time.

| run | instance | shows |
|---|---|---|
| `jobs`, its reminders | a session, a once and a daily cron, slots 0 to 2, 1 reset, 1 mishap, queue limit 1; about 135 000 of its states | `OncePerSlot`, `NoSlotSkipped`, `OnlyLiveCronsFire`, `StaleCronsRetired`, `DueCronsFire` |
| `cron_reset` | a once cron | violated, see Findings |

Proved in `SessionCronProofs` (of the formulas that `MCJobs` takes over by name from an instance of `SessionCronProps`), for finitely many sessions, any crons, depth, slots, resets and mishaps: `TypeOK`, `OncePerSlot`,
`NoSlotSkipped`, `OnlyLiveCronsFire`. What carries them (`CInv`) is that a purge under way has already
marked its session (`PurgedAreGone`), that what the poll has listed is still due and, but for a purge, active (`DueStays`), that the one record
it holds agrees with the file but for the status (`HeldFresh`), and how often each slot was enqueued (`SlotsCounted`):
never one still to come, and the next one of an active cron no more often than there were mishaps. `StaleCronsRetired`
and `DueCronsFire` are liveness and only model-checked.

Three slots let a daily cron fire, advance and skip what it slept through; a limit of one makes a running
job fill the queue, and keeps two jobs of one slot, which share an id, from being in it at
once. An agent has one active session per address, so one session is where reset,
removal and poll meet. Time, session records and crons are bounded; a run that has used them up
stands still (`Over`). Fairness: time passes and the poll runs to its end; no
job has to end and no purge has to be finished.

## 5. Turns

`Turn` follows the jobs of one agent from the queue to the platform. `phase` is the await at which `runJob` of a
turn stands; `handle` its selector prefetch, started when the message is queued; `child` the docker command with
the two clocks of `runCommand` (300 s, then 5 s to the SIGKILL) and the abort it has seen; `container` and `start`
the agent's container and the start that turns share (`containerStartLocks`); `plan`, `sent` what the worker
asked for and what the platform has taken; `remembered` what Formation is told. `Inspected`, `Started` and
`StartFails` are docker's answers to the shared start; `Deliver` and `DeliverFails` one message or action
each. The history variable `early` keeps the turns stopped before their worker closed.

| run | instance | shows |
|---|---|---|
| `turns` | 2 turns in 2 sessions, 3 answers of the model, a plugin and a container that come and go; 428 166 states | `StoppedSaysNothing`, `RememberedIsSaid`, `NothingLeftBehind`, `WorkersEnd` |

Proved in `TurnProofs`, for any number of turns and any tool calls: `TypeOK` and the three invariants. `TInv` says where
the record of an early stop is at each phase (`StopHeld`: in the signal, then in the flags of `runCommand`), what a
turn has at each phase (`StageOK`), and that whoever awaits the container has a start under way (`WaitersServed`). `TurnAssumption`
says that the calls recorded of an answer are a sequence of those it made: `Recorded` is a `SelectSeq`, of which
nothing can be proved, so TLC evaluates the assumption for the answers of the instance. `WorkersEnd` is only model-checked.

Two turns are what it takes to share a start and to fail it for each other. Fairness: timers fire, and a
process that got a SIGKILL closes. Nothing else has to happen: docker and the model may be silent for ever, which
is why `WorkersEnd` speaks of the worker alone; `docker inspect` and `docker start` have no timeout in
the code, so a turn may wait for its container for ever.

## 6. Gateway

`Gateway` has the pair requests of an agent (`pair`), the messages it handles at once (`handler`: where each
awaits, and the copy of the request it will write back) and the command lines of administrators (`line`), each
a process that reads and writes in steps. `Receive` is `handleInbound` up to its first await: a paired chat gets a
job or a command, another one a code, a prompt, or silence within the cooldown. `PromptSent` and `Touch` stamp the
request from the copy read before the prompt. `AcceptLookup` to `AcceptWrite` are the steps of `pair accept`.

| run | instance | shows |
|---|---|---|
| `intake`, its gateway | a chat, 2 codes, 2 messages at once (interchangeable), a command line, expiry after 2 and cooldown of 1 units of time; the rest of its states | `OneLiveCode`, `PromptsAreSpaced` |
| `gateway_dead_codes` | the same, accepting | violated, see Findings |

Both are proved in `GatewayProofs` (`MCIntake` has them from an instance of `GatewayProps`), with `TypeOK`, for any number of chats, codes, handlers and command lines. In `GInv`,
`OneLive` is the first with what makes it inductive: at most one handler is about to write a copy back, and a live copy is of the only code
its chat may have; `StampsAreKept` says that a pending request carries the last stamp put on it: a write
that brings back an older one leaves the request decided; and `PromptsArePast` that no stamp lies ahead.

Chats do not touch each other's requests, so one is enough; a second code is the one offered after the
first expired, a second message what meets the first at its prompt. Safety only. Two messages handled at the
same time may both prompt, and two administrators who accept at once make two sessions: neither property denies it.

## 7. Channels

`Channels` is one channel between the configuration and the platform. `plugin` has the fields of each plugin the
daemon has created (`running`, `open`, `promise`, `timer`, the close event on its way), `entry` and `served` are
`runtimeEntries` and `channelPlugins`, `sync` the poll's. `Replace` and `Retire` are `syncAgents`, with its `catch` when writing that the plugin started fails; `Opens`, `Connected`,
`Refused`, `CloseEvent`, `TimerFires` are NapCat's connection, `Polls` and `PollFails` Telegram's polling; `Arrive`, `TitleAnswer`,
`ListAnswer`, `Flush` what a group message waits for; the four `Send` actions a reply with its random delay. `RequestRemoval`
to `DeleteAgent` are `agent remove` of a running daemon: a control file that the poll and SIGUSR1 may both take.

| run | instance | shows |
|---|---|---|
| `channels` | a NapCat or Telegram channel, 2 configurations, 2 plugins, an outage, with a reply, two group messages or a removal; 436 602 states | `NeverStuck`, `Reconnects`, `FollowsConfig`, `DelayedSendsCancelled` |

Proved in `ChannelsProofs`, for any number of plugins, replies, messages, configurations and outages: `NeverStuck` and
`DelayedSendsCancelled`. `LinksAgree` is NapCat's connection, field against field: the promise is that of an
attempt, no timer beside one, and a plugin that is neither connected nor trying has a timer or an event on its way. `Moved`
states what every function of a plugin keeps, once for each. `NoneForgotten`, the `Remembered` of `NeverStuck`, is inductive beside it: no function makes a
plugin run, and each place that stops one finds it by the map that still has it (`StopsForgetNone`). It is about `running`:
a Telegram bot stopped before its polling began polls on without it (`telegram.ts:441-453`). `Reconnects` and `FollowsConfig` are
liveness and only model-checked.

Two plugins are the old and the new one; one outage in every state of the connection is what a loss can
meet. Scenes keep apart what shares no state (a reply and a group message). Fairness: the poll comes
round, timers fire, answers and events on their way arrive. Nothing makes the platform recover, so `Reconnects` assumes that it stays up.
`Reconnects` is about NapCat: a Telegram poll that fails keeps its fingerprint and is started again only when the
configuration changes (`telegram.ts:434-438`).

## 8. Library

The rest of the program with state of its own shares none between its parts: a behaviour of
`Library` is a behaviour of one of the eight parts, chosen by `part` in `Init`, so their state spaces add up
(1 129 675 states together), and one run checks them all. Where a part meets another module its effect is
there: what consumes observation lines in `PersonaMaintenance`, the enqueue of a due reminder in `SessionCron`, the
delivery of actions in `Turn`.

* **`MaintenanceSession`** (`SyncedAsLeft`, `DreamSettles`; `CloneIsCarriedOver`, violated). `BeginFormation` and `BeginDream`
  clone; `Edit`, `EditIndex`, `Write`, `Delete`, `Finalize` are the tools. `syncMaintenanceClone`, after
  `ensureSubstantiveIndexAfterMaintenance`, says what is to be carried over; `CopyBack` and `RemoveDeleted` do it one file at a time,
  `Settle` then consumes the lines or stores Dream's signature, and `Fail` (a write that throws, no or a second finalize, the timeout) or `Crash` may
  come after any of them. The order among the copies is free, as it is that of the model's calls; removals come last.
  Three more prompts do what one does, so they are not counted. Contents are
  stamps: which write made a file. `RequestDream` gives the code's answer, and `DreamSettles` compares it with the
  history `changed`, the parts of the corpus written since Dream completed. A log that was recorded since and that Formation has used up
  is gone, as it was before, so a corpus in which nothing else changed is refused although `changed` is not empty. One file beside
  the index, two lines in the log, four writes. A log recorded and used up between two Dreams takes five: that instance of
  647 039 states was checked as well, and is left out of the run for its time.
* **`ModelStore`** (`CustomModelsAreFound`). `configureBuiltInModel` and `configureCustomModel` are `model set`, in the
  steps `CliReads` and `CliWrites`; `Receive`, `Refuse`, `SetBuiltin`, `SetCustom` are `/model` with its checks; `AskForContext` and
  `StoreContext` refresh a context size. `torn` records that one process wrote `models.json` over the other's change, or
  died before its write: the file has no lock over read and write, so the property is for the rest.
* **`RuntimeProcess`** (`OneRuntime`). `acquireLock`, `Spawn`, `WriteSpawned` are `ensureRuntimeProcess`; `handleRuntimeStop`,
  `waitForRuntimeExit`, `StopClears` stop it, with SIGKILL after 5 s; `Boots`, `refreshRuntimeProcessState`, `OnSigterm`, `shutdown`,
  `fatalExit`, `Dies` are the runtime. `crossed` records that the pid of a live runtime was written over: `handleRuntimeStop` clears the
  file at its end, also when another command line has started a runtime meanwhile. Two command lines, three runtimes.
* **`ModelContext`** (`FitsBudget`). The searches of `fitLargestPrefix` and `fitLargestTail` (for observations, turns
  and the index), `prioritizeSelectedMemoryMarkdown`, `buildFormationTimeline`, `shapeSessionMessagesForPrompt`, one count at a
  time, each of which may fail. The property is the reference definition: the longest part that fits, of what is shortened
  at all; and of old tool results, that each was cleared only because those before it were not enough. That what is handed on whole
  keeps the documented budgets as well is `PromptsKeepTheirBudget`, which is violated.
* **`Schedules`** (`DailyOnce`). `zonedLocalToUtc` with its four attempts, `computeDailyNextRunAt`, creation, completion and
  advance of a reminder, over zones that change their offset about midnight, in half hours with days of 8 of them.
  The property names the three kinds of schedule the code gets wrong (Findings). `ScheduleAssumption`: a zone is less than a day from
  Greenwich, and changes by less than a third of a day. Islands that crossed the date line are left out.
* **`Inbound`** (`RepliesAreHeard`). `mapNapcatMessageToEvent` and Telegram's single messages and albums, mentions,
  replies and commands, `RecentBotMessageIds` with its two limits. Three chats of which two are kept.
* **`Outreach`** (`WordsAndDeeds`). `buildSnapshot`, the tools with their errors, the conversation in memory and in its file,
  `installTerminalNoReplyHook` and `finalizeTerminalNoReply`, then the actions one by one while sessions and
  reminders change; a purge deletes the session's log with it. Three messages in the conversation (`MaxMessages`), one change from outside.
* **`Registry`** (`RemovalIsComplete`). The entry of a name in the configuration, what is found by name (workspace) and by id
  (codes, reminders, state, queue and audit files), the commands on it, and the removal step by step, killed at any of
  them and begun again. A handler of the daemon may hold the agent meanwhile and write for it. What it writes a code or a reminder
  by is read first (`draft`: `createOrReusePair`, `createSessionCron`, and of any request or reminder there is `readPair`, `requireCron`) and
  written later (`writeJsonFile`), with the command line in between: no lock spans the two, and the file is made anew if it is gone. `late` records
  what was written so. Who is an administrator and whether the agent is enabled change nothing here. Two agents of the name one after the other.

`library` claims no liveness, and stops when the bounds of a part are used up.

`LibraryProofs` and `LibraryDataProofs` prove all nine of its properties for any number of files, writes, providers, models,
commands, command lines, runtimes, channels, agents, texts, chats, messages and zones. As a step is a step of one part
(`OneOrNone`), each part has an invariant of its own. TLC checked them on the instance of `library`, but for `SInv`,
which speaks of every day.

| theorem | states | invariant |
|---|---|---|
| `RuntimesAreAlone` | `[]OneRuntime` | `RInv`: a runtime that lives is in the file or in the hands of the command line that holds the lock, which saw no other |
| `NothingIsLeftOfTheRemoved` | `[]RemovalIsComplete` | `AInv`: what each step of a removal has taken away stays away, but for late writes, those by an earlier read included (`Swept`) |
| `DreamRunsWhenDue` | `[]DreamSettles` | `MInv`: every part written since Dream is younger than the same part of its signature (`SignatureAgrees`) |
| `SessionsLeaveWhatTheyWrote` | `SyncedAsLeft` | `MInv`: the clone agrees with the files it was copied from (`CloneAgrees`), and while it is carried over each file of it is either still to be copied or there (`SyncAgrees`) |
| `ChosenModelsExist` | `[]CustomModelsAreFound` | `CInv`: every copy of `models.json` about to be written extends the one it was read from (`WritesExtend`), and the provider of a `/model` under way is listed or coming (`ChosenAreFound`) |
| `PromptsFitBudget` | `[]FitsBudget` | `XInv`: a search goes on between a part that fits and the shortest known not to (`Searching`), and the sections chosen so far fit (`Choosing`) |
| `RemindersRunDaily` | `[]DailyOnce` | `SInv`: a daily reminder was computed for a poll no later than now, at which its last run lay on an earlier day or was due (`Scheduled`) |
| `DeedsFollowWords` | `[]WordsAndDeeds` | `OInv`: what each phase of a turn has (`WhilePrompting`, `WhenAborted`, `WhileDelivering`), every answer its results but the one whose calls run (`Conversed`), and what is sent, and logged where no purge took the log, are the first `done` actions (`Delivered`) |
| `RepliesWakeTheBot` | `[]RepliesAreHeard` | `IInv`: what is forgotten has enough said after it, and whatever is held behind a message was said since (`Noted`) |

`LibraryAssumption` keeps names apart (the index is no memory file, `Nobody` no command line, "no model" no provider);
the others give the inputs their types.

`PromptsFitBudget` speaks of sums over sequences of any length, and induction over data is out of the provers' reach as a
rule with a predicate. It is had from a fact about a set instead: a set of numbers that is not empty has a least member
(`Least`, from the well-foundedness of `<`), so a set that holds 0 and with each number the next is all of them
(`Induction`). With it `FoldExists` makes the function a fold stands for, `SumCounts` ties the sum of a sequence to it, and from there a longer
prefix or tail is no smaller (`PartsGrow`), the halving finds the longest part (`CandidateXInv`), a cleared result
leaves no more than it was (`CharsGrow`), and clearing stops where the rest fits (`ClearedRight`). `RemindersRunDaily` is
arithmetic of days: four attempts end at the instant that shows the time, at the first guess, or an hour off. In
`RepliesWakeTheBot`, ids and chats are dropped from the front of a sequence, and those behind a message are told apart,
so their number is no more than what was said since (`Enough`).

Liveness is not claimed of these parts. What each step of `ModelContext` computes is proved through its property, not for the timeline itself:
that its turns are in order and none is told twice is neither checked nor proved.

## 9. Findings

Runs that fail, each against a line of the repository:

* **Recovered jobs are not run** (`queue_recovery`). `docs/ARCHITECTURE.md:61` says pending tasks are
  recovered after a restart. `initialize` (`job-queue.ts:40-52`) fills the queues and dispatches nothing, so they
  wait until some other job of the agent is enqueued. If the recovered jobs fill the queue, every enqueue is
  refused and the agent never runs again.
* **Observations recorded during a Formation session are lost** (`observations_lost`). `ARCHITECTURE.md:318`
  says the first N lines are removed. `service.ts:673-679` writes back the rest of the lines it read before the
  session, over what was appended since.
* **A reminder outlives the reset of its conversation** (`cron_reset`). `README.md:25` says reminders lapse
  with a reset. A run that began before it creates its reminder after it, with the new generation
  (`cron-lifecycle.ts:26-37`).
* **A code that is not pending lets a chat in** (`gateway_dead_codes`). `markAccepted` refuses it with "is not pending"
  (`pair-store.ts:101-105`), after `acceptPair` has made the session (`pairing.ts:68`).
* **A text over its budget is in the prompt whole** (`prompt_over_budget`). `ARCHITECTURE.md:395` and `:574` promise at most 1,200
  tokens of observations. When not even the last line fits, `slice(-0)` is everything (`observations.ts:55`, `session-log.ts:223`). Where
  nothing can be counted, nothing is cut either (`observations.ts:17`, `:40`), the index and its 2,000 tokens (`:392`, `:572`) included.
* **A file that Dream deletes and writes again is lost** (`dream_rewrite_lost`). `ARCHITECTURE.md:356` says the temporary directory is
  synced back. The sync removes every file that was ever deleted after it has copied what was written (`maintenance-agent.ts:174-194`),
  and a later write does not take a file off that list (`:320`, `:368`). `SyncedAsLeft` is for the other files (`Rewritten`).

Met while modelling, and visible in a model as the exception a property makes or the bound it names:

* The instant of a daily reminder west of Greenwich lies on the day before when the clock skips its time, put forward across
  midnight, or shows it twice, put back across midnight. Its next run is then not after the poll, and it runs at every poll: of that
  day, or until the clock has passed midnight again. Where the formatter prints
  midnight as 24, reminders in the first hour of a day come a day early (`cron-schedule.ts:71-152`; `off` in `DailyOnce`).
* A `send_message` to a session that was closed before the delivery is sent and not logged (`outbound-dispatch.ts:116-174`; `WordsAndDeeds`).
* A purge of a session deletes its log, also of what a turn has just sent (`session-store.ts:218`; `"purged"` in `WordsAndDeeds`).
* `handleRuntimeStop` clears the pid of a runtime started meanwhile (`cli/handlers/runtime.ts:143`; `crossed` in `OneRuntime`).
* `no_reply` after another call of the same answer leaves an answer whose call has no result in the file (`worker.ts:93-160`;
  `answered` in `WordsAndDeeds`), and drops the actions recorded before it.
* What a handler writes for an agent that is being removed stays, and the next agent of the name inherits
  the workspace (`agent-store.ts:262`; `late` in `RemovalIsComplete`).
* A reminder or a code that the daemon has read when `agent remove` deletes its file is written again (`cron-store.ts:124-170`,
  `pair-store.ts:78-87`, `fs.ts:85`; `late`). Nothing removes such a reminder: when it comes due, each poll fails to find its agent and adds
  a line to an audit file of the agent that is gone (`daemon.ts:271-280`; `WritesArtifacts`).
* A prompt that outlasts the removal of its request is stamped onto nothing: `readPair` gives `{}`, and the file written is
  `undefined.json` (`pair-store.ts:78-87`, `:152-158`). Not in the models, where a stamp needs its request.
* `removeChannel` keeps the channel's pending codes; one accepted later makes a session for a channel the agent
  no longer has (`Registry`, `acceptPair`).

## 10. Plan

Done: the models of all components above, and proofs of every invariant and action property the runs check.

Left to TLC: liveness (`RunningDrainsAll`, `QueuedTasksRun`, `DueCronsFire`, `StaleCronsRetired`, `WorkersEnd`, `Reconnects`,
`FollowsConfig`), which rests on fairness and ENABLED. Where a property excuses a history by name (`crossed`, `torn`, `late`, a call before
`no_reply`, lines recorded during Dream, the time after a fault), `PROJECT.json` says so at the hazard. To come: the timeline of a session against a reference definition, the file store's locks under a crash.

## 11. Not modelled

* The chat harness (`internal/chat-harness`): development tooling over fake transports.
* Text: prompts of the worker, the selector, Formation and Dream, help, tables and notes of the command line, the parsing of
  its arguments. Where a decision hangs on text (commands, mentions, frontmatter, index placeholder) the decision is modelled.
* Downloads and uploads of attachments, encodings, health reports of channels: I/O without state the rest depends on.
* Lines torn by a power loss (`fs.ts:134`), and the migration of the legacy configuration (`config/migration.ts`), which writes once at the first start.
* Wall-clock rates: that three failures of a sweep may be six seconds apart, or that a steady supply of jobs in two
  sessions starves a third (`job-queue.ts:215`). The hazards of `PROJECT.json` say so where they stand.
* `/reset` and a purge truncate or delete `context.jsonl` while a turn of the session writes to it.
* Two agents at once, except where they share something: agents share the configuration file, whose updates are
  locked, and the process.
