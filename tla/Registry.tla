-------------------------------- MODULE Registry --------------------------------
(***************************************************************************)
(* One name of an agent over the agents that bear it one after another: the  *)
(* entry in the configuration with its channels and sessions                 *)
(* (src/store/agent-store.ts, channel-store.ts), the workspace found by      *)
(* name, and the pairing requests, reminders, queue, state and audit files    *)
(* found by the agent's id (src/store/services/agent-lifecycle.ts).         *)
(*                                                                         *)
(* One command line works at a time and may be killed between two of its      *)
(* writes; a handler, run or sweep of the daemon may hold an agent across      *)
(* them, and what it reads of the store to write a file by is not locked      *)
(* against the command line.  Each channel has one chat.  Bounds:             *)
(* ChannelTypes, MaxAgents.                                                *)
(***************************************************************************)
EXTENDS Naturals

CONSTANTS ChannelTypes, MaxAgents

VARIABLES
    registered,   \* the entry of the name in the configuration
    created,      \* agents created so far: their ids
    workspace,    \* whose files are in the workspace of the name
    codes,        \* <<agent, channel>>: files of pairing requests, whatever their status
    reminders,    \* <<agent, channel>>: reminder files of its session
    artifacts,    \* agents with a state, queue or audit file
    console,      \* the command line: its next step and the channel it is about
    handler,      \* the agent a handler of the daemon holds, or 0
    draft,         \* the file the daemon is about to write by what it has read, or Nothing
    late          \* history: files the daemon wrote for an agent being removed or gone

registryVars == <<registered, created, workspace, codes, reminders, artifacts, console, handler, draft, late>>

NoAgent == [id |-> 0]
Idle == [step |-> "idle", channel |-> "-"]
Nothing == <<>>
Do(step, type) == console' = [step |-> step, channel |-> type]

Exists == registered # NoAgent
id == registered.id
files == <<workspace, codes, reminders, artifacts>>

Init ==
    /\ registered = NoAgent
    /\ created = 0
    /\ workspace = {} /\ codes = {} /\ reminders = {} /\ artifacts = {}
    /\ console = Idle
    /\ handler = 0
    /\ draft = Nothing
    /\ late = {}

(* ------------------------------------------------------------------------ *)
(* Creation *)

createAgent ==
    /\ console = Idle /\ ~Exists /\ created < MaxAgents
    /\ created' = created + 1
    /\ registered' = [id |-> created', model |-> FALSE,
                      channels |-> [t \in ChannelTypes |-> "none"],
                      sessions |-> [t \in ChannelTypes |-> "none"]]
    /\ Do("workspace", "-")
    /\ UNCHANGED <<files, handler, draft, late>>

\* Files that are there already are kept.
ensureWorkspace ==
    /\ console.step = "workspace"
    /\ workspace' = workspace \cup {id}
    /\ Do("state", "-")
    /\ UNCHANGED <<registered, created, codes, reminders, artifacts, handler, draft, late>>

writeRuntimeState ==
    /\ console.step = "state"
    /\ artifacts' = artifacts \cup {id}
    /\ console' = Idle
    /\ UNCHANGED <<registered, created, workspace, codes, reminders, handler, draft, late>>

(* ------------------------------------------------------------------------ *)
(* Commands that change the entry; each is followed by a line of the audit *)

Update(entry) ==
    /\ console = Idle /\ Exists
    /\ registered' = entry
    /\ artifacts' = artifacts \cup {id}
    /\ UNCHANGED <<created, workspace, codes, reminders, console, handler, draft, late>>

createChannel(type) ==
    /\ Exists /\ registered.channels[type] = "none"
    /\ Update([registered EXCEPT !.channels[type] = "added"])

\* A token, or the endpoint of NapCat with its own number.
setChannelToken(type) ==
    /\ Exists /\ registered.channels[type] # "none"
    /\ Update([registered EXCEPT !.channels[type] = "complete"])

setModelConfig == Exists /\ Update([registered EXCEPT !.model = TRUE])

\* Who they are is told apart by nothing here.
changeAdmins == Exists /\ Update(registered)

collectReadinessIssues ==
    \/ ~registered.model
    \/ \A t \in ChannelTypes : registered.channels[t] = "none"
    \/ \E t \in ChannelTypes : registered.channels[t] = "added"

\* Whether it is enabled is read by nothing here.
handleAgentEnable ==
    /\ Exists /\ ~collectReadinessIssues
    /\ Update(registered)

\* The container is stopped and the state file written afterwards.
handleAgentDisable == Exists /\ Update(registered)

\* Whatever the status of the request, and also when its channel has been removed.
acceptPair(type) ==
    /\ console = Idle /\ Exists /\ <<id, type>> \in codes
    /\ registered' = [registered EXCEPT !.sessions[type] = "active"]
    /\ workspace' = workspace \cup {id}
    /\ artifacts' = artifacts \cup {id}
    /\ UNCHANGED <<created, codes, reminders, console, handler, draft, late>>

(* ------------------------------------------------------------------------ *)
(* Removal of a channel *)

Active == {t \in ChannelTypes : registered.sessions[t] = "active"}

\* With force its sessions go first; the files of a session are part of the
\* workspace, its reminders are only marked, in their own files.
removeSession(type) ==
    /\ registered' = [registered EXCEPT !.sessions[type] = "none"]
    /\ artifacts' = artifacts \cup {id}

removeChannel(type, force) ==
    /\ console = Idle /\ Exists /\ registered.channels[type] # "none"
    /\ force \/ type \notin Active
    /\ IF type \in Active THEN removeSession(type) ELSE UNCHANGED <<registered, artifacts>>
    /\ Do("channel", type)
    /\ UNCHANGED <<created, workspace, codes, reminders, handler, draft, late>>

deleteChannel ==
    /\ console.step = "channel"
    /\ registered' = [registered EXCEPT !.channels[console.channel] = "none"]
    /\ artifacts' = artifacts \cup {id}
    /\ console' = Idle
    /\ UNCHANGED <<created, workspace, codes, reminders, handler, draft, late>>

(* ------------------------------------------------------------------------ *)
(* Removal of the agent *)

handleAgentRemove(force) ==
    /\ console = Idle /\ Exists
    /\ ~force => \A t \in ChannelTypes : registered.channels[t] = "none" /\ t \notin Active
    /\ Do("runtime", "-")
    /\ UNCHANGED <<registered, created, files, handler, draft, late>>

\* By the running daemon, or here; a removal that fails or takes too long ends
\* the command.
removeAgentRuntime ==
    /\ console.step = "runtime"
    /\ \/ artifacts' = artifacts \cup {id} /\ Do("sessions", "-")
       \/ UNCHANGED artifacts /\ console' = Idle
    /\ UNCHANGED <<registered, created, workspace, codes, reminders, handler, draft, late>>

Removing == console.step \in {"sessions", "crons", "pairs", "artifacts", "root", "entry"}

purgeSessions ==
    /\ console.step = "sessions"
    /\ \/ /\ \E type \in Active : removeSession(type)
          /\ UNCHANGED console
       \/ /\ Active = {}
          /\ Do("crons", "-")
          /\ UNCHANGED <<registered, artifacts>>
    /\ UNCHANGED <<created, workspace, codes, reminders, handler, draft, late>>

deleteCronsForAgent ==
    /\ console.step = "crons"
    /\ reminders' = {r \in reminders : r[1] # id}
    /\ late' = late \ {<<"reminder", id>>}
    /\ Do("pairs", "-")
    /\ UNCHANGED <<registered, created, workspace, codes, artifacts, handler, draft>>

deletePairsForAgent ==
    /\ console.step = "pairs"
    /\ codes' = {c \in codes : c[1] # id}
    /\ late' = late \ {<<"code", id>>}
    /\ Do("artifacts", "-")
    /\ UNCHANGED <<registered, created, workspace, reminders, artifacts, handler, draft>>

removeAgentArtifacts ==
    /\ console.step = "artifacts"
    /\ artifacts' = artifacts \ {id}
    /\ late' = late \ {<<"artifact", id>>}
    /\ Do("root", "-")
    /\ UNCHANGED <<registered, created, workspace, codes, reminders, handler, draft>>

\* The files are kept, for instance because they belong to the user.
Mut_removeWorkspace ==
    /\ console.step = "root"
    /\ Do("entry", "-")
    /\ UNCHANGED <<registered, created, files, handler, draft, late>>

removeWorkspace ==
    /\ console.step = "root"
    /\ workspace' = {}
    /\ late' = {l \in late : l[1] # "workspace"}
    /\ Do("entry", "-")
    /\ UNCHANGED <<registered, created, codes, reminders, artifacts, handler, draft>>

deleteAgentConfig ==
    /\ console.step = "entry"
    /\ registered' = NoAgent
    /\ console' = Idle
    /\ UNCHANGED <<created, files, handler, draft, late>>

CliKilled ==
    /\ console # Idle
    /\ console' = Idle
    /\ UNCHANGED <<registered, created, files, handler, draft, late>>

(* ------------------------------------------------------------------------ *)
(* The daemon.  Between a read and the write by it nothing else of it runs. *)

\* A message, a job, a reminder or a sweep.
Begins ==
    /\ handler = 0 /\ Exists
    /\ handler' = id
    /\ UNCHANGED <<registered, created, files, console, draft, late>>

\* It may also be the process that ends.
Ends ==
    /\ handler # 0 \/ draft # Nothing
    /\ handler' = 0 /\ draft' = Nothing
    /\ UNCHANGED <<registered, created, files, console, late>>

Late(kind, agent) ==
    late' = IF Exists /\ id = agent /\ ~Removing THEN late ELSE late \cup {<<kind, agent>>}

\* Observations, memory and attachments, by the name it holds.
WritesWorkspace ==
    /\ handler # 0 /\ draft = Nothing
    /\ workspace' = workspace \cup {handler}
    /\ Late("workspace", handler)
    /\ UNCHANGED <<registered, created, codes, reminders, artifacts, console, handler, draft>>

\* Queue events, the state file and the audit, by the id it holds; and of a poll
\* that finds a due reminder of an agent that is gone.
WritesArtifacts(agent) ==
    /\ agent = handler \/ \E r \in reminders : r[1] = agent
    /\ agent # 0 /\ draft = Nothing
    /\ artifacts' = artifacts \cup {agent}
    /\ Late("artifact", agent)
    /\ UNCHANGED <<registered, created, workspace, codes, reminders, console, handler, draft>>

Reads(file) ==
    /\ draft = Nothing
    /\ draft' = file
    /\ UNCHANGED <<registered, created, files, console, handler, late>>

Current == Exists /\ id = handler

\* A code is offered only by an agent that is in the configuration, a reminder
\* made only for a session that is.
createOrReusePair(type) ==
    /\ Current /\ registered.channels[type] # "none" /\ type \notin Active
    /\ Reads(<<"code", handler, type>>)

createSessionCron(type) ==
    /\ Current /\ type \in Active
    /\ Reads(<<"reminder", handler, type>>)

\* The stamp of a prompt or an expiry, whoever the request is of.
readPair(c) == c \in codes /\ Reads(<<"code", c[1], c[2]>>)

\* The poll completes, advances or invalidates a reminder, a run cancels one.
requireCron(r) == r \in reminders /\ Reads(<<"reminder", r[1], r[2]>>)

\* The file is made again when it is gone.
writeJsonFile ==
    /\ draft # Nothing
    /\ LET entry == {<<draft[2], draft[3]>>}
       IN  IF draft[1] = "code" THEN codes' = codes \cup entry /\ UNCHANGED reminders
                               ELSE reminders' = reminders \cup entry /\ UNCHANGED codes
    /\ Late(draft[1], draft[2])
    /\ draft' = Nothing
    /\ UNCHANGED <<registered, created, workspace, artifacts, console, handler>>

Next ==
    \/ createAgent
    \/ ensureWorkspace
    \/ writeRuntimeState
    \/ \E type \in ChannelTypes :
          \/ createChannel(type)
          \/ setChannelToken(type)
          \/ acceptPair(type)
          \/ \E force \in BOOLEAN : removeChannel(type, force)
          \/ createOrReusePair(type)
          \/ createSessionCron(type)
    \/ setModelConfig
    \/ changeAdmins
    \/ handleAgentEnable
    \/ handleAgentDisable
    \/ deleteChannel
    \/ \E force \in BOOLEAN : handleAgentRemove(force)
    \/ removeAgentRuntime
    \/ purgeSessions
    \/ deleteCronsForAgent
    \/ deletePairsForAgent
    \/ removeAgentArtifacts
    \/ removeWorkspace
    \/ deleteAgentConfig
    \/ CliKilled
    \/ Begins
    \/ Ends
    \/ WritesWorkspace
    \/ \E agent \in 1..MaxAgents : WritesArtifacts(agent)
    \/ \E c \in codes : readPair(c)
    \/ \E r \in reminders : requireCron(r)
    \/ writeJsonFile

Spec == Init /\ [][Next]_registryVars

=============================================================================
