-------------------------------- MODULE Library --------------------------------
(***************************************************************************)
(* The parts of the program that keep state of their own and share none     *)
(* with the queue, the channels or the gateway: each is a module, and a      *)
(* behaviour of Library is a behaviour of one of them.                       *)
(***************************************************************************)
EXTENDS Integers, Sequences

CONSTANTS
    Parts,                                          \* the parts explored
    MemoryFiles, MaxStamp, MaxLines,               \* MaintenanceSession
    CustomProviders, BuiltinProviders, Models, MaxSets, MaxCommands, Failed, Answers,   \* ModelStore
    Clis, MaxRuntimes, Nobody,   \* RuntimeProcess
    Texts, Files, Logs, Histories, Budget, MaxEvents,  \* ModelContext
    Zones, DayLength, MaxNow,    \* Schedules
    Chats, Messages, MaxTrackedChats, MaxTrackedIds, MaxSent,  \* Inbound
    Contacts, Groups, Others, Calls, Reminders, MaxMessages, MaxChanges,   \* Outreach
    ChannelTypes, MaxAgents   \* Registry

\* Nobody is no command line, the index and the observations are beside the memory files, and that an
\* agent has no model is told apart from every provider.
ASSUME LibraryAssumption ==
    /\ MaxRuntimes \in Nat /\ Nobody \notin Clis
    /\ MemoryFiles \cap {"index", "observations"} = {}
    /\ <<>> \notin CustomProviders \cup BuiltinProviders

\* Counts of tokens and of characters.
ASSUME ContextAssumption ==
    /\ Budget \in Nat /\ MaxEvents \in Nat
    /\ Texts \subseteq Seq(Nat)
    /\ Files \subseteq [front : Nat, sections : Seq([tokens : Nat, heading : BOOLEAN])]
    /\ Logs \subseteq [log : Seq([type : STRING, tokens : Nat]), fallback : Seq(Nat)]
    /\ Histories \subseteq Seq([role : STRING, blocks : Seq(Nat)])

\* A zone is less than a day from Greenwich and changes its offset by less than a third of a
\* day: real ones do, but for the islands that moved across the date line.
ASSUME ScheduleAssumption ==
    /\ DayLength \in Nat \ {0}
    /\ \A z \in Zones :
          /\ z.at \in Int
          /\ {z.before, z.after} \subseteq (1 - DayLength)..(DayLength - 1)
          /\ 3 * (z.after - z.before) < DayLength /\ 3 * (z.before - z.after) < DayLength

ASSUME InboundAssumption == {MaxTrackedChats, MaxTrackedIds} \subseteq Nat

\* A reminder an action makes is named after the action, none of those there were is.
ASSUME OutreachAssumption == MaxMessages \in Nat /\ Reminders \cap (1..MaxMessages) = {}

VARIABLES
    part,      \* the part that runs
    stamp, live, index, obs, dream, queued, session, changed,
    default, override, catalog, cli, command, refresh, daemon, sets, commands, torn,
    process, spawned, pid, lock, pc, target, thenStart, crossed,
    work, cut,
    zone, midnight, cron, now,
    platform, groupTrigger, idsByChat, counter, said, heard,
    here, sessions, pairs, senders, directory, at, messages, file, pending,
    actions, done, sent, logs, crons, changes,
    registered, created, workspace, codes, reminders, artifacts, console, handler, draft, late

maintenanceVars == <<stamp, live, index, obs, dream, queued, session, changed>>
modelVars == <<default, override, catalog, cli, command, refresh, daemon, sets, commands, torn>>
runtimeVars == <<process, spawned, pid, lock, pc, target, thenStart, crossed>>
contextVars == <<work, cut>>
scheduleVars == <<zone, midnight, cron, now>>
inboundVars == <<platform, groupTrigger, idsByChat, counter, said, heard>>
outreachVars == <<here, sessions, pairs, senders, directory, at, messages, file, pending,
    actions, done, sent, logs, crons, changes>>
registryVars == <<registered, created, workspace, codes, reminders, artifacts, console, handler, draft, late>>
vars == <<part, maintenanceVars, modelVars, runtimeVars, contextVars, scheduleVars, inboundVars, outreachVars, registryVars>>

M == INSTANCE MaintenanceSession
C == INSTANCE ModelStore
R == INSTANCE RuntimeProcess
X == INSTANCE ModelContext
S == INSTANCE Schedules
I == INSTANCE Inbound
O == INSTANCE Outreach
A == INSTANCE Registry

Init ==
    /\ part \in Parts
    /\ M!Init
    /\ C!Init
    /\ R!Init
    /\ X!Init
    /\ S!Init
    /\ part # "schedules" => zone = (CHOOSE z \in Zones : TRUE) /\ midnight = 0
    /\ I!Init
    /\ part # "inbound" => platform = "napcat" /\ groupTrigger = "all"
    /\ O!Init
    /\ part # "outreach" =>
          /\ here \in Contacts
          /\ \A a \in Others : sessions[a] = "none" /\ pairs[a] = "none" /\ \A b \in Groups : a \notin senders[b]
    /\ A!Init

Maintenance ==
    /\ part = "maintenance"
    /\ M!Next
    /\ UNCHANGED <<part, modelVars, runtimeVars, contextVars, scheduleVars, inboundVars, outreachVars, registryVars>>

Catalog ==
    /\ part = "models"
    /\ C!Next
    /\ UNCHANGED <<part, maintenanceVars, runtimeVars, contextVars, scheduleVars, inboundVars, outreachVars, registryVars>>

Runtime ==
    /\ part = "runtime"
    /\ R!Next
    /\ UNCHANGED <<part, maintenanceVars, modelVars, contextVars, scheduleVars, inboundVars, outreachVars, registryVars>>

Context ==
    /\ part = "context"
    /\ X!Next
    /\ UNCHANGED <<part, maintenanceVars, modelVars, runtimeVars, scheduleVars, inboundVars, outreachVars, registryVars>>

Schedule ==
    /\ part = "schedules"
    /\ S!Next
    /\ UNCHANGED <<part, maintenanceVars, modelVars, runtimeVars, contextVars, inboundVars, outreachVars, registryVars>>

Hear ==
    /\ part = "inbound"
    /\ I!Next
    /\ UNCHANGED <<part, maintenanceVars, modelVars, runtimeVars, contextVars, scheduleVars, outreachVars, registryVars>>

Tools ==
    /\ part = "outreach"
    /\ O!Next
    /\ UNCHANGED <<part, maintenanceVars, modelVars, runtimeVars, contextVars, scheduleVars, inboundVars, registryVars>>

Register ==
    /\ part = "registry"
    /\ A!Next
    /\ UNCHANGED <<part, maintenanceVars, modelVars, runtimeVars, contextVars, scheduleVars, inboundVars, outreachVars>>

Next ==
    \/ Maintenance
    \/ Catalog
    \/ Runtime
    \/ Context
    \/ Schedule
    \/ Hear
    \/ Tools
    \/ Register

Spec == Init /\ [][Next]_vars

=============================================================================
