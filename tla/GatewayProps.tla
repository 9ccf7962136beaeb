----------------------------- MODULE GatewayProps -----------------------------
(***************************************************************************)
(* What is checked of Gateway: the codes a chat is offered, and who gets in. *)
(***************************************************************************)
EXTENDS Gateway

Records ==
  [chat : Chats \cup {NoChat}, status : {"none", "pending", "accepted", "rejected", "expired"},
   expires : 0..(MaxNow + Ttl), prompted : 0..Never]

\* The type of every variable.
TypeOK ==
  /\ now \in 0..MaxNow /\ direct \subseteq Chats
  /\ pair \in [Pairs -> Records]
  /\ active \in [Chats -> 0..MaxSessions] /\ jobs \in [Chats -> 0..MaxJobs]
  /\ \A r \in {handler[h] : h \in Handlers} \cup {line[l] : l \in CommandLines} :
       /\ r.at \in {"idle", "hydrate", "prompt", "touch", "create", "mark", "accept", "reject"}
       /\ r.chat \in Chats \cup {NoChat} /\ r.pair \in Pairs \cup {NoPair} /\ r.copy \in Records
       /\ \A p \in Pairs : r.copy.prompted <= now \/ r.copy.prompted = Never
  /\ stamped \in [Pairs -> 0..Never]

\* A chat has one code an administrator can accept at a time, though two messages may be
\* offered one at once and stale copies of a request are written back: a request that
\* has run out never comes back beside the one that replaced it.
OneLiveCode == \A c \in Chats : Cardinality({p \in PendingOf(c, pair) : ~Expired(p)}) <= 1

\* Once a prompt for a code has been stamped, no further prompt for it is started within
\* the cooldown, whoever wrote the request since; prompts closer than that come from
\* messages handled at the same time.
PromptsAreSpaced ==
  [][\A h \in Handlers :
       handler[h].at # "prompt" /\ handler'[h].at = "prompt" =>
         LET s == stamped[handler'[h].pair] IN s = Never \/ now - s >= Cooldown]_vars

\* A session is only made from a code that is pending: markAccepted and markRejected
\* (pair-store.ts) refuse any other code with "is not pending".
DeadCodesAdmitNobody ==
  [][\A l \in CommandLines :
       LineAt(l, "create") /\ active' # active => pair[line[l].pair].status = "pending"]_vars
=============================================================================
