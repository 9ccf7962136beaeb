------------------------------- MODULE Channels -------------------------------
(***************************************************************************)
(* One channel of an agent between the configuration and the platform: the *)
(* plugins that src/runtime/channel-runtime.ts starts and stops to follow  *)
(* the configuration, the NapCat and Telegram plugins themselves           *)
(* (src/channels), and the removal of a running agent through a control    *)
(* file (src/runtime/runtime-control.ts, src/cli/handlers/runtime.ts).     *)
(*                                                                         *)
(* The daemon is one thread: an action is one stretch between two awaits.  *)
(* The platform, the command line that edits the configuration and the one *)
(* that removes the agent run beside it.  What the plugins report of their *)
(* health is left out.  Plugins, Sends, Messages, MaxRev and MaxOutages    *)
(* bound the instance, Scenes what happens together in it; a plugin has    *)
(* one connection attempt in flight (a stopped one could begin a second).  *)
(***************************************************************************)
EXTENDS Naturals, FiniteSets

CONSTANTS
  Plugins,     \* the plugins the daemon may create, 1..n, used in order
  Sends,       \* replies being sent
  Messages,    \* group messages that arrive: parts of an album, or without a title
  MaxRev,      \* the configurations of the channel: 1..MaxRev; 0 is none, or a disabled agent
  MaxOutages,  \* how often the platform goes down
  Scenes       \* pairs of an adapter and of which of "reply", "message" and "removal" happen

ASSUME ChannelsAssumption == Plugins \subseteq Nat \ {0} /\ MaxRev \in Nat /\ MaxOutages \in Nat

NoPlugin == 0
Processors == {"tick", "signal"}   \* who reads the control files: the poll and SIGUSR1

VARIABLES
  adapter,    \* "napcat" or "telegram"
  scene,      \* what happens beside the link and the configuration
  wanted,     \* what the configuration says of the channel
  entry,      \* runtimeEntries: the plugin started last, and for which configuration
  served,     \* channelPlugins: the plugin that messages and replies use
  plugin,     \* [plugin]: its fields
  up,         \* the platform answers
  outages,
  send,       \* [reply]: its plugin and where it awaits
  inbox,      \* [message]: where it is
  phase,      \* "up", "draining": the daemon is shutting down
  sync,       \* a sync follows the control files read just now
  request,    \* the control file: "none", "pending", "completed", "failed"
  removing,   \* the processors that await the removal of the container
  remover     \* the command line that removes the agent

vars == <<adapter, scene, wanted, entry, served, plugin, up, outages, send, inbox,
          phase, sync, request, removing, remover>>

platform == <<up, outages>>
removal == <<request, removing, remover>>
config == <<adapter, scene, wanted, phase, sync>>
maps == <<entry, served>>

Unused == [rev |-> 0, running |-> FALSE, open |-> FALSE, dial |-> "no", promise |-> FALSE,
           timer |-> FALSE, after |-> FALSE, loss |-> FALSE, ask |-> "no"]
NoEntry == [plugin |-> NoPlugin, rev |-> 0]
Silent == [at |-> "idle", plugin |-> NoPlugin, ran |-> FALSE]

Init ==
  /\ \E s \in Scenes : adapter = s[1] /\ scene = s[2]
  /\ wanted \in 0..MaxRev
  /\ entry = NoEntry /\ served = NoPlugin
  /\ plugin = [p \in Plugins |-> Unused]
  /\ up = TRUE /\ outages = 0
  /\ send = [s \in Sends |-> Silent] /\ inbox = [m \in Messages |-> [at |-> "none", plugin |-> NoPlugin]]
  /\ phase = "up" /\ sync = TRUE
  /\ request = "none" /\ removing = {} /\ remover = "idle"
-----------------------------------------------------------------------------
(* A plugin: functions from its fields to its fields after a call. *)

NapCat == adapter = "napcat"

\* beginConnect: a stale connection is closed, Start is called.
BeginConnect(r) == [r EXCEPT !.promise = TRUE, !.dial = IF @ = "no" THEN "dialing" ELSE @]

\* ensureConnected, which does not ask whether the plugin runs.
EnsureConnected(r) ==
  IF r.open \/ r.promise THEN r ELSE BeginConnect([r EXCEPT !.timer = FALSE])

\* scheduleReconnect, with its four guards.
ScheduleReconnect(r) ==
  IF r.running /\ ~r.promise /\ ~r.timer /\ ~r.open THEN [r EXCEPT !.timer = TRUE] ELSE r

\* handleConnectionLoss: during an attempt the reconnection waits for its end.
LossIgnored(r) == ~r.running \/ r.timer \/ r.open
Mut_AfterLoss(r) == IF r.promise THEN r ELSE ScheduleReconnect(r)
AfterLoss(r) == IF r.promise THEN [r EXCEPT !.after = TRUE] ELSE ScheduleReconnect(r)

\* The end of an attempt, and the reconnection it was asked for meanwhile.
Finally(r) ==
  LET ended == [r EXCEPT !.promise = FALSE, !.dial = "no", !.after = FALSE]
  IN IF r.after THEN ScheduleReconnect(ended) ELSE ended

\* startPolling: NapCat begins to connect, Telegram to ask who it is.
Started(rev) ==
  LET r == [Unused EXCEPT !.rev = rev, !.running = TRUE]
  IN IF NapCat THEN EnsureConnected(r) ELSE [r EXCEPT !.dial = "dialing"]

\* stop.  A Telegram bot that is not polling yet is not stopped by it, and an attempt
\* in flight goes on.
Stopped(r) ==
  IF ~r.running THEN r
  ELSE [r EXCEPT !.running = FALSE, !.promise = FALSE, !.timer = FALSE,
                 !.open = FALSE, !.loss = @ \/ (NapCat /\ r.open)]

Stop(f, p) == IF p = NoPlugin THEN f ELSE [f EXCEPT ![p] = Stopped(@)]

\* stop also forgets the parts of albums that wait; a group message that waits for its
\* title does not notice.
InboxAfterStop(p) ==
  [m \in Messages |->
     IF ~NapCat /\ inbox[m].plugin = p /\ inbox[m].at = "waiting" /\ p # NoPlugin /\ plugin[p].running
       THEN [inbox[m] EXCEPT !.at = "lost"] ELSE inbox[m]]
-----------------------------------------------------------------------------
(* The channel runtime follows the configuration. *)

Configure(rev) ==
  /\ remover # "done" /\ rev # wanted /\ wanted' = rev
  /\ phase = "up" /\ (rev \in {0, entry.rev} \/ Unused \in {plugin[p] : p \in Plugins})   \* bounds
  /\ UNCHANGED <<adapter, scene, phase, sync, plugin, platform, maps, send, inbox, removal>>

Fresh(p) == plugin[p] = Unused /\ \A q \in Plugins : q < p => plugin[q] # Unused

\* Each configuration has a fingerprint of its own: every field a plugin depends on is in it.
getFingerprint == wanted

Mut_Replace ==
  /\ wanted # 0 /\ entry.rev # getFingerprint
  /\ \E p \in Plugins, written \in BOOLEAN :
       /\ Fresh(p)
       /\ plugin' = [Stop(plugin, entry.plugin) EXCEPT ![p] = Started(wanted)]
       /\ entry' = IF written THEN [plugin |-> p, rev |-> getFingerprint] ELSE NoEntry
       /\ served' = IF written THEN p ELSE NoPlugin
  /\ inbox' = InboxAfterStop(entry.plugin)

\* A changed fingerprint: the plugin of the entry is stopped, a new one is started.  When
\* writing that it started fails, the new one is stopped again and leaves both maps.
Replace ==
  /\ wanted # 0 /\ entry.rev # getFingerprint
  /\ \E p \in Plugins, written \in BOOLEAN :
       LET new == Started(wanted)
       IN /\ Fresh(p)
          /\ plugin' = [Stop(plugin, entry.plugin) EXCEPT ![p] = IF written THEN new ELSE Stopped(new)]
          /\ entry' = IF written THEN [plugin |-> p, rev |-> getFingerprint] ELSE NoEntry
          /\ served' = IF written THEN p ELSE NoPlugin
  /\ inbox' = InboxAfterStop(entry.plugin)

Mut_Retire == wanted = 0 /\ UNCHANGED <<plugin, maps, inbox>>
\* No channel is wanted: what the map serves is stopped; an entry with no plugin in the
\* map stays.
Retire ==
  /\ wanted = 0
  /\ plugin' = Stop(plugin, served) /\ inbox' = InboxAfterStop(served)
  /\ entry' = IF served = NoPlugin THEN entry ELSE NoEntry
  /\ served' = NoPlugin

\* syncAgents: every two seconds while the daemon is up, after the control files.
Sync ==
  /\ phase = "up" \/ sync
  /\ \/ Replace
     \/ Retire
     \/ wanted # 0 /\ entry.rev = wanted /\ UNCHANGED <<plugin, maps, inbox>>
  /\ sync' = FALSE
  /\ UNCHANGED <<adapter, scene, wanted, phase, platform, send, removal>>

\* stopAll, when the daemon begins to shut down.  A poll that is processing a control
\* file goes on, and syncs after it.
ShutDown ==
  /\ phase = "up" /\ phase' = "draining" /\ sync' = FALSE
  /\ plugin' = Stop(plugin, served) /\ inbox' = InboxAfterStop(served)
  /\ entry' = NoEntry /\ served' = NoPlugin
  /\ UNCHANGED <<adapter, scene, wanted, platform, send, removal>>
-----------------------------------------------------------------------------
(* NapCat's connection, and Telegram's. *)

Others == UNCHANGED <<config, maps, platform, send, inbox, removal>>
Set(p, r) == plugin' = [plugin EXCEPT ![p] = r]

\* The socket opens; Start resolves a little later.
Opens(p) ==
  /\ NapCat /\ up /\ plugin[p].dial = "dialing"
  /\ Set(p, [plugin[p] EXCEPT !.dial = "opened", !.open = TRUE]) /\ Others

\* Start resolves: the failure seen before is over, and reported so.
Connected(p) ==
  LET r == plugin[p]
  IN /\ NapCat /\ r.dial = "opened"
     /\ Set(p, Finally([r EXCEPT !.timer = FALSE]))
     /\ Others

\* Start is refused, or the socket is gone before it resolves.
Refused(p) ==
  /\ NapCat
  /\ \/ plugin[p].dial = "dialing" /\ ~up
     \/ plugin[p].dial = "opened" /\ ~plugin[p].open
  /\ Set(p, Finally([plugin[p] EXCEPT !.after = TRUE])) /\ Others

\* The platform closes the connection, and the event is on its way.
Closes(p) ==
  /\ NapCat /\ ~up /\ plugin[p].open
  /\ Set(p, [plugin[p] EXCEPT !.open = FALSE, !.loss = TRUE]) /\ Others

CloseEvent(p) ==
  LET r == [plugin[p] EXCEPT !.loss = FALSE]
  IN /\ plugin[p].loss
     /\ Set(p, IF LossIgnored(r) THEN r ELSE AfterLoss(r))
     /\ Others

Mut_TimerFires(p) ==
  LET r == [plugin[p] EXCEPT !.timer = FALSE]
  IN NapCat /\ plugin[p].timer /\ Set(p, ScheduleReconnect(r)) /\ Others

\* The timer of scheduleReconnect, after 1, 2, 5, 10 and then 30 seconds.
TimerFires(p) ==
  LET r == [plugin[p] EXCEPT !.timer = FALSE]
  IN /\ NapCat /\ plugin[p].timer
     /\ Set(p, IF r.running /\ ~r.open /\ ~r.promise THEN BeginConnect(r) ELSE r)
     /\ Others

\* Telegram's getMe and setMyCommands answered: the bot polls, though it was stopped
\* meanwhile.
Polls(p) ==
  /\ ~NapCat /\ up /\ plugin[p].dial = "dialing"
  /\ Set(p, [plugin[p] EXCEPT !.dial = "no", !.open = TRUE]) /\ Others

\* They failed, or polling ended with an error: the plugin no longer runs, and nobody
\* starts it again.
PollFails(p) ==
  /\ ~NapCat /\ ~up /\ (plugin[p].dial = "dialing" \/ plugin[p].open)
  /\ Set(p, [plugin[p] EXCEPT !.dial = "no", !.open = FALSE, !.running = FALSE])
  /\ Others

PlatformFails ==
  /\ up /\ outages < MaxOutages /\ up' = FALSE /\ outages' = outages + 1
  /\ UNCHANGED <<config, maps, plugin, send, inbox, removal>>
PlatformRecovers ==
  /\ ~up /\ up' = TRUE /\ UNCHANGED <<outages, config, maps, plugin, send, inbox, removal>>
-----------------------------------------------------------------------------
(* Group messages that do not come in one piece. *)

Waiting(p) == {m \in Messages : inbox[m].at = "waiting" /\ inbox[m].plugin = p}
Deliver(ms) == inbox' = [m \in Messages |-> IF m \in ms THEN [inbox[m] EXCEPT !.at = "handled"] ELSE inbox[m]]
InboxOnly == UNCHANGED <<config, maps, platform, send, removal>>

\* A part of an album arms the flush timer again; a group message without a title asks
\* for it, unless the question is out already or the title known.
Arrive(m, p) ==
  /\ "message" \in scene /\ inbox[m].at = "none" /\ plugin[p].open
  /\ IF NapCat /\ plugin[p].ask = "known" THEN UNCHANGED plugin
     ELSE Set(p, IF NapCat THEN [plugin[p] EXCEPT !.ask = IF @ = "no" THEN "info" ELSE @]
                 ELSE [plugin[p] EXCEPT !.timer = TRUE])
  /\ inbox' = [inbox EXCEPT ![m] = [plugin |-> p, at |->
                 IF NapCat /\ plugin[p].ask = "known" THEN "handled" ELSE "waiting"]]
  /\ InboxOnly

\* get_group_info answers; where it fails or knows nothing, get_group_list is asked.
TitleAnswer(p) ==
  /\ plugin[p].ask = "info"
  /\ \/ Set(p, [plugin[p] EXCEPT !.ask = "known"]) /\ Deliver(Waiting(p))
     \/ Set(p, [plugin[p] EXCEPT !.ask = "list"]) /\ UNCHANGED inbox
  /\ InboxOnly

\* Whatever the list says, the messages go on, with a title or without.
ListAnswer(p) ==
  /\ plugin[p].ask = "list" /\ Deliver(Waiting(p))
  /\ \E known \in BOOLEAN : Set(p, [plugin[p] EXCEPT !.ask = IF known THEN "known" ELSE "no"])
  /\ InboxOnly

\* flushMediaGroup, 75 ms after the last part: one event of all of them.
Flush(p) ==
  /\ ~NapCat /\ plugin[p].timer /\ Set(p, [plugin[p] EXCEPT !.timer = FALSE])
  /\ Deliver(Waiting(p)) /\ InboxOnly
-----------------------------------------------------------------------------
(* A reply through NapCat: sendPayload. *)

SendOnly == UNCHANGED <<config, maps, platform, inbox, removal>>
At(s, at, ran) == send' = [send EXCEPT ![s].at = at, ![s].ran = ran]

SendBegins(s) ==
  /\ NapCat /\ "reply" \in scene /\ send[s].at = "idle" /\ served # NoPlugin
  /\ Set(served, EnsureConnected(plugin[served]))
  /\ send' = [send EXCEPT ![s] = [at |-> IF plugin[served].open THEN "delay" ELSE "connect",
                                  plugin |-> served, ran |-> TRUE]]
  /\ SendOnly

\* The attempt it waited for is over: it fails with it, or waits its one to three
\* seconds, remembering the generation, that is whether the plugin runs.
SendConnected(s) ==
  LET p == send[s].plugin
  IN /\ send[s].at = "connect" /\ plugin[p].dial = "no"
     /\ \/ At(s, "delay", plugin[p].running)
        \/ ~plugin[p].open /\ At(s, "idle", FALSE)
     /\ UNCHANGED plugin /\ SendOnly

Mut_SendDelayed(s) == send[s].at = "delay" /\ At(s, "call", send[s].ran) /\ UNCHANGED plugin /\ SendOnly
\* waitBeforeSend: cancelled when the generation has changed.
SendDelayed(s) ==
  /\ send[s].at = "delay"
  /\ IF send[s].ran = plugin[send[s].plugin].running THEN At(s, "call", send[s].ran) ELSE At(s, "idle", FALSE)
  /\ UNCHANGED plugin /\ SendOnly

\* sendMessage: an answer; or an error, which is a loss of the connection if that is not open.
SendAnswered(s) ==
  LET p == send[s].plugin
  IN /\ send[s].at = "call" /\ At(s, "idle", FALSE)
     /\ \/ plugin[p].open /\ UNCHANGED plugin
        \/ /\ ~plugin[p].open
           /\ Set(p, IF LossIgnored(plugin[p]) THEN plugin[p] ELSE AfterLoss(plugin[p]))
     /\ SendOnly
-----------------------------------------------------------------------------
(* agent remove, while the daemon runs. *)

RemovalOnly == UNCHANGED <<adapter, scene, phase, platform, send>>

\* requestBackgroundRuntimeRemoval: a control file, and SIGUSR1.
RequestRemoval ==
  /\ "removal" \in scene /\ remover = "idle" /\ request = "none" /\ request' = "pending" /\ remover' = "waiting"
  /\ UNCHANGED <<removing, wanted, sync, plugin, maps, inbox>> /\ RemovalOnly

\* removeAgentRuntime: the agent's plugins are stopped and leave the map, not the entries;
\* the container is awaited.
TakeRemoval(q) ==
  /\ request = "pending" /\ q \notin removing /\ (q = "tick" => phase = "up")
  /\ plugin' = Stop(plugin, served) /\ inbox' = InboxAfterStop(served) /\ served' = NoPlugin
  /\ removing' = removing \cup {q}
  /\ UNCHANGED <<request, remover, wanted, sync, entry>> /\ RemovalOnly

\* The outcome is written, whether or not the command line has deleted the file; the
\* poll goes on to sync.
FinishRemoval(q, status) ==
  /\ q \in removing /\ removing' = removing \ {q} /\ request' = status
  /\ sync' = (sync \/ q = "tick")
  /\ UNCHANGED <<remover, wanted, plugin, maps, inbox>> /\ RemovalOnly

\* The command line sees the outcome, or gives up after two seconds; it deletes the file.
SeeOutcome ==
  /\ remover = "waiting" /\ request' = "none"
  /\ remover' = IF request = "completed" THEN "deleting" ELSE "failed"
  /\ UNCHANGED <<removing, wanted, sync, plugin, maps, inbox>> /\ RemovalOnly

\* deleteAgent: its channels go with it.
DeleteAgent ==
  /\ remover = "deleting" /\ remover' = "done" /\ wanted' = 0
  /\ UNCHANGED <<request, removing, sync, plugin, maps, inbox>> /\ RemovalOnly
-----------------------------------------------------------------------------
LinkStep(p) == \/ Opens(p) \/ Connected(p) \/ Refused(p) \/ Closes(p) \/ CloseEvent(p)
               \/ TimerFires(p) \/ Polls(p) \/ PollFails(p)

Next ==
  \/ \E rev \in 0..MaxRev : Configure(rev)
  \/ Sync \/ ShutDown \/ PlatformFails \/ PlatformRecovers
  \/ \E p \in Plugins :
       \/ LinkStep(p) \/ TitleAnswer(p) \/ ListAnswer(p) \/ Flush(p)
       \/ \E m \in Messages : Arrive(m, p)
  \/ \E s \in Sends : SendBegins(s) \/ SendConnected(s) \/ SendDelayed(s) \/ SendAnswered(s)
  \/ RequestRemoval \/ SeeOutcome \/ DeleteAgent
  \/ \E q \in Processors : TakeRemoval(q) \/ \E status \in {"completed", "failed"} : FinishRemoval(q, status)

Spec == Init /\ [][Next]_vars

\* The poll comes round; timers fire, the platform answers or refuses, and events that
\* are on their way arrive.  Nothing makes the platform recover.
FairSpec == Spec /\ WF_vars(Sync) /\ \A p \in Plugins : WF_vars(LinkStep(p))
=============================================================================
