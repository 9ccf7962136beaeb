------------------------------- MODULE Gateway -------------------------------
(***************************************************************************)
(* How a message gets in, and how a conversation is let in: the message    *)
(* and command routers of src/runtime, the pair requests and sessions of   *)
(* src/store with services/pairing.ts, and the command line that accepts   *)
(* and rejects them (src/cli/handlers/{pair,session}.ts).                  *)
(*                                                                         *)
(* The daemon handles the messages of one agent concurrently: between two  *)
(* awaits a handler is not interrupted by another one.  The command lines  *)
(* are processes of their own and take no lock over a pair request, so a   *)
(* read and the write that follows it are two steps where another process  *)
(* may come between.  Time is in reprompt cooldowns; MaxNow, MaxJobs and   *)
(* the sets of GatewayBounds bound the instance.                           *)
(***************************************************************************)
EXTENDS FiniteSets, GatewayBounds

NoChat == 0
Never == MaxNow + 1
NoPair == 0

VARIABLES
  now,
  direct,    \* the chats that are direct messages, the others are groups
  pair,      \* [pair]: its file
  active,    \* [chat]: how many active sessions its address has
  jobs,      \* [chat]: jobs queued or running
  handler,   \* [handler]: where it awaits, for which chat and pair
  line,      \* [command line]: where it is, and with which code
  stamped    \* history: [pair]: when a prompt for it was last stamped

vars == <<now, direct, pair, active, jobs, handler, line, stamped>>

Unused == [chat |-> NoChat, status |-> "none", expires |-> 0, prompted |-> Never]
Idle == [at |-> "idle", chat |-> NoChat, kind |-> "", pair |-> NoPair, copy |-> Unused]

Init ==
  /\ now = 0 /\ direct \in SUBSET Chats /\ pair = [p \in Pairs |-> Unused]
  /\ active = [c \in Chats |-> 0] /\ jobs = [c \in Chats |-> 0]
  /\ handler = [h \in Handlers |-> Idle] /\ line = [l \in CommandLines |-> Idle]
  /\ stamped = [p \in Pairs |-> Never]

\* A handler between two awaits: no other one runs.
Busy == \E h \in Handlers : handler[h].at = "touch"

\* expirePairs: every listing of the pair requests begins with it.
Expired(p) == pair[p].status = "pending" /\ pair[p].expires <= now
AfterExpiry ==
  [p \in Pairs |-> IF Expired(p) THEN [pair[p] EXCEPT !.status = "expired"] ELSE pair[p]]

PendingOf(c, f) == {p \in Pairs : f[p].status = "pending" /\ f[p].chat = c}
FreshPairs == {p \in Pairs : pair[p] = Unused /\ \A q \in Pairs : q < p => pair[q] # Unused}
-----------------------------------------------------------------------------
(* A message in the daemon. *)

\* What a message is to the router: text, or one of the commands that a chat may send.
Kinds == {"text", "pair", "stop", "other"}

Done(h) == handler' = [handler EXCEPT ![h] = Idle]
Still == UNCHANGED <<now, direct, active, line, stamped>>

Mut_OfferedPair(c, f, p) ==
  /\ p \in FreshPairs
  /\ pair' = [f EXCEPT ![p] = [chat |-> c, status |-> "pending",
                               expires |-> now + Ttl, prompted |-> Never]]

\* createOrReusePair: the pending request of the chat, else a new one, whose code no
\* other request has.
OfferedPair(c, f, p) ==
  \/ p \in PendingOf(c, f) /\ pair' = f
  \/ /\ PendingOf(c, f) = {} /\ p \in FreshPairs
     /\ pair' = [f EXCEPT ![p] = [chat |-> c, status |-> "pending",
                                  expires |-> now + Ttl, prompted |-> Never]]

Mut_Suppressed(r) == r.prompted # Never /\ now - r.prompted >= Cooldown
\* shouldSuppressReprompt: the request was prompted for within the cooldown.
Suppressed(r) == r.prompted # Never /\ now - r.prompted < Cooldown

\* A code is offered: the handler then awaits the platform, unless the cooldown runs.
OfferPair(h, c) ==
  /\ \E p \in Pairs :
       /\ OfferedPair(c, AfterExpiry, p)
       /\ handler' = [handler EXCEPT ![h] =
            IF Suppressed(pair'[p]) THEN Idle ELSE [Idle EXCEPT !.at = "prompt", !.chat = c, !.pair = p]]
  /\ UNCHANGED jobs /\ Still

\* A chat with no session: a direct message is offered a code whatever it says, a group
\* only for /pair; other commands are answered or do nothing.
RouteUnpaired(h, c, k, triggers) ==
  /\ active[c] = 0
  /\ IF (k = "pair" /\ triggers) \/ (k = "text" /\ c \in direct)
       THEN OfferPair(h, c)
       ELSE Done(h) /\ UNCHANGED <<pair, jobs>> /\ Still

\* A chat with a session: its route and its log are written; /stop empties its queue
\* also where the trigger rule ignores the message; a text becomes a job.
RoutePaired(h, c, k, triggers) ==
  /\ active[c] > 0 /\ Done(h)
  /\ jobs' = CASE k = "stop" -> [jobs EXCEPT ![c] = 0]
               [] k = "text" /\ triggers /\ jobs[c] < MaxJobs -> [jobs EXCEPT ![c] = @ + 1]
               [] OTHER -> jobs   \* ignored, answered, or told that the queue is full
  /\ UNCHANGED pair /\ Still

\* The session is looked up; only a message of a session is hydrated first, which is
\* an await.
Receive(h, c, k) ==
  /\ ~Busy /\ handler[h].at = "idle"
  /\ \E triggers \in BOOLEAN :
       /\ c \in direct => triggers
       /\ \/ RouteUnpaired(h, c, k, triggers)
          \/ RoutePaired(h, c, k, triggers)
          \/ /\ active[c] > 0
             /\ handler' = [handler EXCEPT ![h] = [Idle EXCEPT !.at = "hydrate", !.chat = c, !.kind = k]]
             /\ UNCHANGED <<pair, jobs>> /\ Still

\* The session found before the await is used after it: writing its route fails when it
\* has been removed meanwhile, and the message is lost.
Hydrated(h) ==
  LET c == handler[h].chat
  IN /\ ~Busy /\ handler[h].at = "hydrate"
     /\ \/ \E triggers \in BOOLEAN :
             (c \in direct => triggers) /\ RoutePaired(h, c, handler[h].kind, triggers)
        \/ active[c] = 0 /\ Done(h) /\ UNCHANGED <<pair, jobs>> /\ Still

\* The platform refused the prompt: no stamp.
PromptFails(h) ==
  /\ ~Busy /\ handler[h].at = "prompt" /\ Done(h)
  /\ UNCHANGED <<pair, jobs>> /\ Still

\* The prompt is out: touchPairPrompt reads the request ...
PromptSent(h) ==
  /\ ~Busy /\ handler[h].at = "prompt"
  /\ handler' = [handler EXCEPT ![h].at = "touch", ![h].copy = pair[handler[h].pair]]
  /\ UNCHANGED <<pair, jobs>> /\ Still

Mut_Touch(h) ==
  LET p == handler[h].pair
  IN /\ handler[h].at = "touch" /\ Done(h)
     /\ pair' = [pair EXCEPT ![p] = [handler[h].copy EXCEPT !.prompted = now + 1]]
     /\ stamped' = [stamped EXCEPT ![p] = now]
     /\ UNCHANGED <<now, direct, active, jobs, line>>

\* ... and writes it back with the stamp.
Touch(h) ==
  LET p == handler[h].pair
  IN /\ handler[h].at = "touch" /\ Done(h)
     /\ pair' = [pair EXCEPT ![p] = [handler[h].copy EXCEPT !.prompted = now]]
     /\ stamped' = [stamped EXCEPT ![p] = now]
     /\ UNCHANGED <<now, direct, active, jobs, line>>

JobEnds(c) ==
  /\ jobs[c] > 0 /\ jobs' = [jobs EXCEPT ![c] = @ - 1]
  /\ UNCHANGED <<now, direct, pair, active, handler, line, stamped>>
-----------------------------------------------------------------------------
(* A command line. *)

LineAt(l, at) == line[l].at = at
LineDone(l) == line' = [line EXCEPT ![l] = Idle]
Elsewhere == UNCHANGED <<now, direct, jobs, handler, stamped>>

\* pair accept: the code is looked up, whatever its status, and so is a session of the
\* chat's address; the session is made, if there is none, under the configuration's lock.
AcceptLookup(l, p) ==
  /\ LineAt(l, "idle") /\ pair[p] # Unused /\ pair' = AfterExpiry
  /\ line' = [line EXCEPT ![l] = [Idle EXCEPT !.pair = p, !.chat = pair[p].chat,
                 !.at = IF active[pair[p].chat] = 0 THEN "create" ELSE "mark"]]
  /\ UNCHANGED active /\ Elsewhere

AcceptCreate(l) ==
  /\ LineAt(l, "create") /\ active[line[l].chat] < MaxSessions
  /\ active' = [active EXCEPT ![line[l].chat] = @ + 1]
  /\ line' = [line EXCEPT ![l].at = "mark"]
  /\ UNCHANGED pair /\ Elsewhere

\* markAccepted looks the code up again and throws unless it is pending, ...
AcceptMark(l) ==
  LET p == line[l].pair
  IN /\ LineAt(l, "mark") /\ pair' = AfterExpiry
     /\ line' = [line EXCEPT ![l] =
          IF AfterExpiry[p].status = "pending" THEN [@ EXCEPT !.at = "accept", !.copy = AfterExpiry[p]] ELSE Idle]
     /\ UNCHANGED active /\ Elsewhere

\* ... and writes what it has read; the chat is told.
AcceptWrite(l) ==
  /\ LineAt(l, "accept") /\ LineDone(l)
  /\ pair' = [pair EXCEPT ![line[l].pair] = [line[l].copy EXCEPT !.status = "accepted"]]
  /\ UNCHANGED active /\ Elsewhere

\* pair reject: markRejected, likewise.
Reject(l, p) ==
  /\ LineAt(l, "idle") /\ pair[p] # Unused /\ pair' = AfterExpiry
  /\ AfterExpiry[p].status = "pending"
  /\ line' = [line EXCEPT ![l] = [Idle EXCEPT !.at = "reject", !.pair = p, !.copy = AfterExpiry[p]]]
  /\ UNCHANGED active /\ Elsewhere

RejectWrite(l) ==
  /\ LineAt(l, "reject") /\ LineDone(l)
  /\ pair' = [pair EXCEPT ![line[l].pair] = [line[l].copy EXCEPT !.status = "rejected"]]
  /\ UNCHANGED active /\ Elsewhere

\* session remove, with or without --purge: the first active session of the address.
RemoveSession(c) ==
  /\ active[c] > 0 /\ active' = [active EXCEPT ![c] = @ - 1]
  /\ UNCHANGED <<now, direct, pair, jobs, handler, line, stamped>>

Tick ==
  /\ now < MaxNow /\ now' = now + 1
  /\ UNCHANGED <<direct, pair, active, jobs, handler, line, stamped>>

Next ==
  \/ \E h \in Handlers :
       \/ \E c \in Chats, k \in Kinds : Receive(h, c, k)
       \/ Hydrated(h) \/ PromptFails(h) \/ PromptSent(h) \/ Touch(h)
  \/ \E l \in CommandLines :
       \/ \E p \in Pairs : AcceptLookup(l, p) \/ Reject(l, p)
       \/ AcceptCreate(l) \/ AcceptMark(l) \/ AcceptWrite(l) \/ RejectWrite(l)
  \/ \E c \in Chats : JobEnds(c) \/ RemoveSession(c)
  \/ Tick

Spec == Init /\ [][Next]_vars
=============================================================================
