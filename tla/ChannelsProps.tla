----------------------------- MODULE ChannelsProps -----------------------------
(***************************************************************************)
(* What is checked of Channels: the connection comes back, the plugins     *)
(* follow the configuration, and what was waiting goes on.                 *)
(***************************************************************************)
EXTENDS Channels

\* A NapCat plugin that runs and is not connected has an attempt in flight, a timer, or
\* a close event on its way.
Recovering(p) ==
  plugin[p].running /\ ~plugin[p].open => plugin[p].promise \/ plugin[p].timer \/ plugin[p].loss

\* A part of an album has a flush to wait for, a message without a title a question.
Expected(p) == Waiting(p) # {} => IF NapCat THEN plugin[p].ask \in {"info", "list"} ELSE plugin[p].timer

\* A plugin that runs is the one that is served and the one the next sync compares with the
\* configuration: somebody will stop it, and there is no second.
Remembered(p) == plugin[p].running => p = served /\ p = entry.plugin

\* Whatever order closes, refused attempts, timers, sends, changes of the configuration,
\* failing starts and stops come in, a running plugin is never left with nothing that will
\* reconnect it, let its messages go on, or stop it.
NeverStuck == \A p \in Plugins : (NapCat => Recovering(p)) /\ Expected(p) /\ Remembered(p)

\* Once the platform stays up, a NapCat plugin that runs is connected again.
Reconnects ==
  <>[]up => (NapCat /\ \E p \in Plugins : plugin[p].running /\ ~plugin[p].open)
              ~> (\A p \in Plugins : plugin[p].running => plugin[p].open)

\* The plugins follow the configuration: again and again those that run are of the
\* configuration there is, and none runs when there is none, though an agent's removal
\* and its failure come between.
FollowsConfig ==
  []<>(phase # "up" \/ \A p \in Plugins : plugin[p].running => plugin[p].rev = wanted)

\* A reply that was waiting when its plugin was stopped is never handed to the platform
\* afterwards, although the stopped plugin may still connect.
DelayedSendsCancelled ==
  [][\A s \in Sends :
       send[s].at = "delay" /\ send[s].ran /\ send'[s].at = "call"
         => plugin[send[s].plugin].running]_vars
=============================================================================
