------------------------------- MODULE Outreach -------------------------------
(***************************************************************************)
(* What a turn does beside its reply: the directory of people and groups it  *)
(* is given (src/runtime/runtime-directory.ts), the tools that check a call   *)
(* against it and record an action (src/tools/index.ts), the end of a turn   *)
(* by no_reply (src/runtime/worker.ts), and the actions, done after the turn  *)
(* one by one (src/runtime/outbound-dispatch.ts) while sessions and           *)
(* reminders may have changed.                                             *)
(*                                                                         *)
(* An address is a contact or a group; each has at most one session.  One    *)
(* turn runs, and no pairing is accepted meanwhile.  Bounds: Calls,          *)
(* MaxMessages, MaxChanges, the sessions and pairs there may be of Others.  *)
(***************************************************************************)
EXTENDS Naturals, Sequences, SequencesExt

CONSTANTS
    Contacts, Groups,
    Others,       \* addresses the turn may not know
    Calls,        \* tool calls of the model
    Reminders,    \* active in the session when the turn starts
    MaxMessages,  \* answers with calls, and their results, in a conversation
    MaxChanges    \* commands and polls during the turn

VARIABLES
    here,       \* the address of the turn's session
    sessions,   \* [address]: "none", "active", "removed" or "purged"
    pairs,      \* [address]: "none" or "pending"
    senders,    \* [address]: who wrote in its log
    directory,  \* the snapshot the turn has
    at,         \* where the turn is
    messages,   \* the conversation in memory
    file,       \* what the session manager of the worker has as its file
    pending,    \* calls of the last answer still to run
    actions,    \* recorded
    done,       \* actions done
    sent,       \* <<address, action>>, as the platform got them
    logs,       \* [address]: actions in its session log
    crons,      \* [reminder or action]: its status
    changes

outreachVars == <<here, sessions, pairs, senders, directory, at, messages, file, pending,
                  actions, done, sent, logs, crons, changes>>

Addresses == Contacts \cup Groups
NoDirectory == [contacts |-> {}, groups |-> {}, crons |-> {}]
ActionIds == 1..MaxMessages

Init ==
    /\ here \in Addresses \ Others
    /\ \E s \in [Others -> {"none", "active"}], p \in [Others -> {"none", "pending"}] :
          /\ sessions = [a \in Addresses |-> IF a \in Others THEN s[a] ELSE "active"]
          /\ pairs = [a \in Addresses |-> IF a \in Others THEN p[a] ELSE "none"]
    /\ \E met \in SUBSET (Others \cap Contacts) :
          senders = [a \in Addresses |-> IF a \in Groups THEN met ELSE {a}]
    /\ directory = NoDirectory
    /\ at = "start"
    /\ messages = <<>> /\ file = <<>> /\ pending = <<>>
    /\ actions = <<>> /\ done = 0
    /\ sent = <<>> /\ logs = [a \in Addresses |-> <<>>]
    /\ crons = [c \in Reminders \cup ActionIds |-> IF c \in Reminders THEN "active" ELSE "none"]
    /\ changes = 0

world == <<sessions, pairs, crons, changes>>
conversation == <<messages, file, pending>>
delivery == <<done, sent, logs>>

(* ------------------------------------------------------------------------ *)
(* The directory *)

listSessions == {a \in Addresses : sessions[a] = "active"}
paired == {a \in Addresses : pairs[a] # "none"}

\* Whoever a source names has one entry, however many sources do.
upserted(kind, sources) == kind \cap UNION sources

\* Sessions, the senders in their logs, pairs and the current event's sender.
buildSnapshot ==
    /\ at = "start"
    /\ at' = "prompt"
    /\ directory' =
          [contacts |-> upserted(Contacts, {listSessions, paired, {here}} \cup {senders[a] : a \in listSessions}),
           groups |-> upserted(Groups, {listSessions, paired, {here}}),
           crons |-> IF here \in listSessions THEN {c \in Reminders : crons[c] = "active"} ELSE {}]
    /\ UNCHANGED <<here, senders, world, conversation, actions, delivery>>

(* ------------------------------------------------------------------------ *)
(* Tools *)

isKnownTarget(target) == target \in directory.contacts \cup directory.groups

shouldExposeNoReplyTool == here \notin Contacts

\* Whether the call succeeds; an unknown tool, a missing parameter, a target
\* or a reminder that is not in the snapshot is an error the model sees.
Succeeds(call) ==
    /\ call.tool = "no_reply" => shouldExposeNoReplyTool
    /\ call.valid
    /\ call.tool \in {"send_message", "get_contact_detail", "get_group_members"} => isKnownTarget(call.target)
    /\ call.tool = "cron_cancel" => call.cron \in directory.crons

\* Tools that only look record nothing.
recordAction(call) ==
    IF Succeeds(call) /\ call.tool \notin {"list_contacts", "get_contact_detail", "get_group_members"}
    THEN Append(actions, call) ELSE actions

(* ------------------------------------------------------------------------ *)
(* The conversation *)

Say(message) ==
    /\ messages' = Append(messages, message)
    /\ file' = Append(file, message)

Answer(calls) ==
    /\ at = "prompt" /\ pending = <<>> /\ Len(messages) + 1 + Len(calls) <= MaxMessages
    /\ Say([role |-> "assistant", calls |-> calls])
    /\ pending' = calls
    /\ UNCHANGED <<here, senders, directory, at, world, actions, delivery>>

RunTool ==
    /\ at = "prompt" /\ pending # <<>> /\ ~(Head(pending).tool = "no_reply" /\ Succeeds(Head(pending)))
    /\ Say([role |-> "toolResult", ok |-> Succeeds(Head(pending))])
    /\ pending' = Tail(pending)
    /\ actions' = recordAction(Head(pending))
    /\ UNCHANGED <<here, senders, directory, at, world, delivery>>

\* The hook throws; the loop ends with an error message in memory only.
installTerminalNoReplyHook ==
    /\ at = "prompt" /\ pending # <<>> /\ Head(pending).tool = "no_reply" /\ Succeeds(Head(pending))
    /\ messages' = Append(messages, [role |-> "error"])
    /\ actions' = recordAction(Head(pending))
    /\ at' = "aborted"
    /\ UNCHANGED <<here, senders, directory, world, file, pending, delivery>>

findNoReplyToolCallId(s) ==
    /\ s # <<>> /\ Last(s).role = "assistant"
    /\ \E i \in DOMAIN Last(s).calls : Last(s).calls[i].tool = "no_reply"

pop(s) == IF findNoReplyToolCallId(s) THEN Front(s) ELSE s

Mut_finalizeTerminalNoReply ==
    /\ at = "aborted"
    /\ messages' = pop(Front(messages))
    /\ actions' = <<Last(actions)>>
    /\ pending' = <<>>
    /\ at' = "deliver"
    /\ UNCHANGED <<here, senders, directory, world, file, delivery>>

\* The error and the answer that called no_reply are dropped, unless the
\* result of another call of that answer follows it; no_reply, recorded last,
\* is the only action kept.
finalizeTerminalNoReply ==
    /\ at = "aborted"
    /\ messages' = pop(Front(messages))
    /\ file' = pop(file)
    /\ actions' = <<Last(actions)>>
    /\ pending' = <<>>
    /\ at' = "deliver"
    /\ UNCHANGED <<here, senders, directory, world, delivery>>

getLastAssistantText ==
    /\ at = "prompt" /\ pending = <<>>
    /\ Say([role |-> "assistant", calls |-> <<>>])
    /\ at' = "deliver"
    /\ UNCHANGED <<here, senders, directory, world, pending, actions, delivery>>

(* ------------------------------------------------------------------------ *)
(* Actions after the turn *)

Action == actions[done + 1]
Doing(tools) == at = "deliver" /\ done < Len(actions) /\ Action.tool \in tools

sending == {"send", "reply", "send_message"}
To == IF Action.tool = "send_message" THEN Action.target ELSE here

\* The message leaves; the log is written when the platform has answered.
Send ==
    /\ Doing(sending)
    /\ sent' = Append(sent, <<To, done + 1>>)
    /\ at' = "sending"
    /\ UNCHANGED <<here, senders, directory, world, conversation, actions, done, logs>>

\* A message to another address is logged when that has a session by then.
appendBotOutboundLog ==
    /\ at = "sending"
    /\ logs' = IF Action.tool = "send_message" /\ To \notin listSessions THEN logs
               ELSE [logs EXCEPT ![To] = Append(@, done + 1)]
    /\ done' = done + 1
    /\ at' = "deliver"
    /\ UNCHANGED <<here, senders, directory, world, conversation, actions, sent>>

Edit ==
    /\ Doing({"edit", "delete", "typing", "no_reply"})
    /\ done' = done + 1
    /\ UNCHANGED <<here, senders, directory, at, world, conversation, actions, sent, logs>>

createSessionCron ==
    /\ Doing({"cron_create"}) /\ here \in listSessions
    /\ crons' = [crons EXCEPT ![done + 1] = "active"]
    /\ done' = done + 1
    /\ UNCHANGED <<here, sessions, pairs, senders, directory, at, changes, conversation, actions, sent, logs>>

cancelSessionCron ==
    /\ Doing({"cron_cancel"}) /\ here \in listSessions
    /\ crons' = [crons EXCEPT ![Action.cron] = IF @ = "active" THEN "canceled" ELSE @]
    /\ done' = done + 1
    /\ UNCHANGED <<here, sessions, pairs, senders, directory, at, changes, conversation, actions, sent, logs>>

\* A call to the platform fails, before or after the message left, or the
\* session of a reminder is gone: the actions behind it are not done.
Throws ==
    /\ \/ Doing(sending \cup {"edit", "delete", "typing"})
       \/ at = "sending"
       \/ Doing({"cron_create", "cron_cancel"}) /\ here \notin listSessions
    /\ at' = "failed"
    /\ UNCHANGED <<here, senders, directory, world, conversation, actions, delivery>>

Audited ==
    /\ at = "deliver" /\ done = Len(actions)
    /\ at' = "end"
    /\ UNCHANGED <<here, senders, directory, world, conversation, actions, delivery>>

(* ------------------------------------------------------------------------ *)
(* Meanwhile *)

Change ==
    /\ changes < MaxChanges
    /\ changes' = changes + 1
    /\ UNCHANGED <<here, pairs, senders, directory, at, conversation, actions>>

invalidated == [c \in DOMAIN crons |-> IF crons[c] = "active" THEN "invalidated" ELSE crons[c]]

\* With --purge the record goes, then its directory with the log, then its
\* reminders are invalidated; without, only the record is marked.
removeSession(a, purge) ==
    /\ sessions[a] = "active"
    /\ sessions' = [sessions EXCEPT ![a] = IF purge THEN "purged" ELSE "removed"]
    /\ logs' = IF purge THEN [logs EXCEPT ![a] = <<>>] ELSE logs
    /\ crons' = IF purge /\ a = here THEN invalidated ELSE crons
    /\ Change
    /\ UNCHANGED <<done, sent>>

resetSession ==
    /\ sessions[here] = "active"
    /\ crons' = invalidated
    /\ Change
    /\ UNCHANGED <<sessions, delivery>>

completeCron(c) ==
    /\ crons[c] = "active"
    /\ crons' = [crons EXCEPT ![c] = "completed"]
    /\ Change
    /\ UNCHANGED <<sessions, delivery>>

Next ==
    \/ buildSnapshot
    \/ \E n \in 1..2 : \E calls \in [1..n -> Calls] : Answer(calls)
    \/ RunTool
    \/ installTerminalNoReplyHook
    \/ finalizeTerminalNoReply
    \/ getLastAssistantText
    \/ Send
    \/ appendBotOutboundLog
    \/ Edit
    \/ createSessionCron
    \/ cancelSessionCron
    \/ Throws
    \/ Audited
    \/ \E a \in Addresses, purge \in BOOLEAN : removeSession(a, purge)
    \/ resetSession
    \/ \E c \in DOMAIN crons : completeCron(c)

Spec == Init /\ [][Next]_outreachVars

=============================================================================
