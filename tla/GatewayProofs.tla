---------------------------- MODULE GatewayProofs ----------------------------
(***************************************************************************)
(* Proofs about Gateway, for any number of conversations, pair requests,   *)
(* messages handled at once and administrators' command lines.             *)
(***************************************************************************)
EXTENDS GatewayProps, FiniteSetTheorems, TLAPS

-----------------------------------------------------------------------------
(* The inductive invariant. *)

\* Where a handler of the daemon and a command line may stand.
HandlerRows ==
  [at : {"idle", "hydrate", "prompt", "touch"}, chat : Chats \cup {NoChat},
   kind : Kinds \cup {""}, pair : Pairs \cup {NoPair}, copy : Records]
LineRows ==
  [at : {"idle", "create", "mark", "accept", "reject"}, chat : Chats \cup {NoChat},
   kind : {""}, pair : Pairs \cup {NoPair}, copy : Records]

Typed ==
  /\ now \in 0..MaxNow /\ direct \subseteq Chats
  /\ pair \in [Pairs -> Records] /\ stamped \in [Pairs -> 0..Never]
  /\ active \in [Chats -> 0..MaxSessions] /\ jobs \in [Chats -> 0..MaxJobs]
  /\ handler \in [Handlers -> HandlerRows] /\ line \in [CommandLines -> LineRows]

\* A handler that prompts has the request it prompts for, and a command line its own.
RowsNamed ==
  /\ \A h \in Handlers :
       /\ handler[h].at \in {"prompt", "touch"} => handler[h].pair \in Pairs
       /\ handler[h].at = "hydrate" => handler[h].chat \in Chats
  /\ \A l \in CommandLines : line[l].at # "idle" => line[l].pair \in Pairs

\* No file and no copy of one was prompted in the future.
Past(r) == r.prompted <= now \/ r.prompted = Never
PromptsArePast ==
  /\ \A p \in Pairs : Past(pair[p])
  /\ \A h \in Handlers : Past(handler[h].copy)
  /\ \A l \in CommandLines : Past(line[l].copy)

\* A code that an administrator can accept, as a record of it says.
Live(r) == r.status = "pending" /\ r.expires > now

\* Two live codes are of two chats, also when a copy that a handler is about to write back
\* brings one to life again: while it has the copy, no other handler offers a new one.
OneLive ==
  /\ \A p, q \in Pairs : Live(pair[p]) /\ Live(pair[q]) /\ pair[p].chat = pair[q].chat => p = q
  /\ \A g, h \in Handlers : handler[g].at = "touch" /\ handler[h].at = "touch" => g = h
  /\ \A h \in Handlers :
       handler[h].at = "touch" /\ Live(handler[h].copy) =>
         \A q \in Pairs : Live(pair[q]) /\ pair[q].chat = handler[h].copy.chat => q = handler[h].pair

\* The stamp in a request that may be offered again is the last that was put on it: only
\* a request no longer pending is written with an older one.
StampsAreKept ==
  \A p \in Pairs :
    /\ pair[p].status = "pending" => pair[p].prompted = stamped[p]
    /\ pair[p] = Unused => stamped[p] = Never

GInv == Typed /\ RowsNamed /\ PromptsArePast /\ OneLive /\ StampsAreKept

-----------------------------------------------------------------------------
(* Records. *)

\* The fields of a request and of the rows of those that handle it.
LEMMA RecordFacts ==
  ASSUME Typed, NEW r \in Records
  PROVE  /\ now \in Nat /\ r.expires \in Nat /\ r.prompted \in 0..Never /\ Never \in Nat
         /\ r.prompted \in Nat
BY GatewayAssumption DEF Typed, Records, Never

\* The rows in which nothing is under way are well formed.
LEMMA BlankRows == Unused \in Records /\ Idle \in HandlerRows /\ Idle \in LineRows
<1>1. Unused \in Records  BY GatewayAssumption DEF Unused, Records, NoChat, Never
<1> QED  BY <1>1 DEF Idle, HandlerRows, LineRows, NoChat, NoPair, Kinds

\* What expirePairs (pair-store.ts) does to the requests: none that is live, and none of
\* their chats, times and stamps.
LEMMA ExpiryKeeps ==
  ASSUME Typed
  PROVE  /\ AfterExpiry \in [Pairs -> Records]
         /\ \A p \in Pairs :
              /\ AfterExpiry[p].chat = pair[p].chat /\ AfterExpiry[p].prompted = pair[p].prompted
              /\ AfterExpiry[p].status = "pending" => AfterExpiry[p] = pair[p]
              /\ AfterExpiry[p] = Unused => pair[p] = Unused
              /\ Live(pair[p]) => AfterExpiry[p] = pair[p]
<1> SUFFICES ASSUME NEW p \in Pairs
             PROVE  /\ AfterExpiry[p] \in Records
                    /\ AfterExpiry[p].chat = pair[p].chat
                    /\ AfterExpiry[p].prompted = pair[p].prompted
                    /\ AfterExpiry[p].status = "pending" => AfterExpiry[p] = pair[p]
                    /\ AfterExpiry[p] = Unused => pair[p] = Unused
                    /\ Live(pair[p]) => AfterExpiry[p] = pair[p]
  BY DEF AfterExpiry
<1>1. pair[p] \in Records /\ pair[p].expires \in Nat /\ now \in Nat
  BY RecordFacts DEF Typed
<1>2. CASE Expired(p)
  <2>1. AfterExpiry[p] = [pair[p] EXCEPT !.status = "expired"]  BY <1>2 DEF AfterExpiry
  <2>2. ~Live(pair[p])  BY <1>1, <1>2 DEF Expired, Live
  <2>3. AfterExpiry[p].status = "expired" /\ Unused.status = "none"
    BY <1>1, <2>1 DEF Records, Unused
  <2> QED  BY <1>1, <2>1, <2>2, <2>3 DEF Records
<1>3. CASE ~Expired(p)
  <2>1. AfterExpiry[p] = pair[p]  BY <1>3 DEF AfterExpiry
  <2> QED  BY <1>1, <2>1
<1> QED  BY <1>2, <1>3

-----------------------------------------------------------------------------
(* Steps that bring no code to life. *)

\* The requests may expire, be decided or run out of time, and handlers that do not hold
\* a copy may go where they like.
LEMMA NothingRevived ==
  ASSUME GInv, now <= now', now' \in 0..MaxNow, handler' \in [Handlers -> HandlerRows],
         \A p \in Pairs : Live(pair'[p]) => Live(pair[p]) /\ pair'[p].chat = pair[p].chat,
         pair' \in [Pairs -> Records],
         \A h \in Handlers : handler'[h].at = "touch" => handler'[h] = handler[h]
  PROVE  OneLive'
<1> USE DEF GInv
<1>1. \A r \in Records : Live(r)' <=> r.status = "pending" /\ r.expires > now'
  BY DEF Live
<1>2. \A r \in Records : r.status = "pending" /\ r.expires > now' => Live(r)
  <2> SUFFICES ASSUME NEW r \in Records, r.status = "pending", r.expires > now' PROVE Live(r)
    OBVIOUS
  <2>1. now \in Nat /\ now' \in Nat /\ r.expires \in Nat
    BY RecordFacts, GatewayAssumption
  <2> QED  BY <2>1 DEF Live
<1>3. ASSUME NEW p \in Pairs, Live(pair[p])'
      PROVE  Live(pair[p]) /\ pair'[p].chat = pair[p].chat
  <2>1. pair'[p] \in Records  OBVIOUS
  <2>2. Live(pair'[p])  BY <1>1, <1>2, <1>3, <2>1 DEF Live
  <2> QED  BY <2>2
<1>4. ASSUME NEW p \in Pairs, NEW q \in Pairs, Live(pair[p])', Live(pair[q])',
             pair'[p].chat = pair'[q].chat
      PROVE  p = q
  BY <1>3, <1>4 DEF OneLive
<1>5. ASSUME NEW g \in Handlers, NEW h \in Handlers, handler'[g].at = "touch",
             handler'[h].at = "touch"
      PROVE  g = h
  BY <1>5 DEF OneLive
<1>6. ASSUME NEW h \in Handlers, handler'[h].at = "touch", Live(handler[h].copy)',
             NEW q \in Pairs, Live(pair[q])', pair'[q].chat = handler'[h].copy.chat
      PROVE  q = handler'[h].pair
  <2>1. handler'[h] = handler[h] /\ handler[h].copy \in Records
    BY <1>6 DEF Typed, HandlerRows
  <2>2. Live(handler[h].copy)
    <3>1. handler'[h].copy.status = "pending" /\ handler'[h].copy.expires > now'
      BY <1>6 DEF Live
    <3> QED  BY <2>1, <3>1, <1>2
  <2> QED  BY <1>3, <1>6, <2>1, <2>2 DEF OneLive
<1> QED  BY <1>4, <1>5, <1>6 DEF OneLive

\* A handler goes on, and holds no copy of a request; the requests stay as they are.
LEMMA RowStep ==
  ASSUME GInv, NEW h \in Handlers, NEW r \in HandlerRows, handler' = [handler EXCEPT ![h] = r],
         r.at # "touch", r.at = "prompt" => r.pair \in Pairs, r.at = "hydrate" => r.chat \in Chats,
         Past(r.copy), jobs' \in [Chats -> 0..MaxJobs],
         UNCHANGED <<now, direct, pair, active, line, stamped>>
  PROVE  GInv'
<1> USE DEF GInv
<1>1. /\ handler' \in [Handlers -> HandlerRows] /\ handler'[h] = r
      /\ \A g \in Handlers : g # h => handler'[g] = handler[g]
  BY DEF Typed
<1>2. Typed'  BY <1>1 DEF Typed, HandlerRows, LineRows, Records, Kinds
<1>3. RowsNamed'  BY <1>1 DEF RowsNamed
<1>4. PromptsArePast'  BY <1>1 DEF PromptsArePast, Past
<1>5. OneLive'
  <2>1. now <= now' /\ now' \in 0..MaxNow  BY GatewayAssumption DEF Typed
  <2>2. \A g \in Handlers : handler'[g].at = "touch" => handler'[g] = handler[g]  BY <1>1
  <2>3. \A p \in Pairs : Live(pair'[p]) => Live(pair[p]) /\ pair'[p].chat = pair[p].chat
    OBVIOUS
  <2>4. pair' \in [Pairs -> Records]  BY DEF Typed
  <2> QED  BY <1>1, <2>1, <2>2, <2>3, <2>4, NothingRevived
<1>6. StampsAreKept'  BY DEF StampsAreKept
<1> QED  BY <1>2, <1>3, <1>4, <1>5, <1>6

\* A command line goes on; the requests it leaves pending are as they were, stamps and
\* all, and it has written over none that nobody had made.
LEMMA LineStep ==
  ASSUME GInv, NEW l \in CommandLines, NEW r \in LineRows, line' = [line EXCEPT ![l] = r],
         r.at # "idle" => r.pair \in Pairs, Past(r.copy),
         pair' \in [Pairs -> Records], active' \in [Chats -> 0..MaxSessions],
         UNCHANGED <<now, direct, jobs, handler, stamped>>,
         \A p \in Pairs : /\ pair'[p].status = "pending" => pair'[p] = pair[p]
                          /\ pair'[p] = Unused => pair[p] = Unused
                          /\ Past(pair'[p])
  PROVE  GInv'
<1> USE DEF GInv
<1>1. /\ line' \in [CommandLines -> LineRows] /\ line'[l] = r
      /\ \A k \in CommandLines : k # l => line'[k] = line[k]
  BY DEF Typed
<1>2. Typed'  BY <1>1 DEF Typed, HandlerRows, LineRows, Records
<1>3. RowsNamed'  BY <1>1 DEF RowsNamed
<1>4. PromptsArePast'  BY <1>1 DEF PromptsArePast, Past
<1>5. OneLive'
  <2>1. now <= now' /\ now' \in 0..MaxNow  BY GatewayAssumption DEF Typed
  <2>2. \A p \in Pairs : Live(pair'[p]) => Live(pair[p]) /\ pair'[p].chat = pair[p].chat
    BY DEF Live
  <2>3. handler' \in [Handlers -> HandlerRows]  BY DEF Typed
  <2> QED  BY <2>1, <2>2, <2>3, NothingRevived
<1>6. StampsAreKept'  BY DEF StampsAreKept
<1> QED  BY <1>2, <1>3, <1>4, <1>5, <1>6

-----------------------------------------------------------------------------
(* Messages. *)

\* createOrReusePair, and the prompt that may follow: a new code is only made for a chat
\* that has none pending, and while no handler holds a copy of one.
LEMMA OfferPairGInv ==
  ASSUME GInv, ~Busy, NEW h \in Handlers, NEW c \in Chats, OfferPair(h, c) PROVE GInv'
<1> USE DEF GInv
<1>1. PICK p \in Pairs :
        /\ OfferedPair(c, AfterExpiry, p)
        /\ handler' = [handler EXCEPT ![h] =
             IF Suppressed(pair'[p]) THEN Idle
             ELSE [Idle EXCEPT !.at = "prompt", !.chat = c, !.pair = p]]
  BY DEF OfferPair
<1>2. UNCHANGED <<now, direct, active, line, stamped, jobs>>  BY DEF OfferPair, Still
<1> DEFINE r == [Idle EXCEPT !.at = "prompt", !.chat = c, !.pair = p]
           new == [chat |-> c, status |-> "pending", expires |-> now + Ttl, prompted |-> Never]
<1>3. r \in HandlerRows /\ r.at = "prompt" /\ r.pair = p /\ r.copy = Unused /\ Idle.at = "idle"
  BY BlankRows DEF Idle, HandlerRows
<1>4. new \in Records /\ new # Unused /\ Past(new) /\ Past(Unused) /\ Idle.copy = Unused
  BY GatewayAssumption DEF Typed, Records, Unused, Never, Past, Idle
<1>5. /\ handler' \in [Handlers -> HandlerRows]
      /\ \A g \in Handlers : \/ handler'[g] = handler[g]
                             \/ handler'[g] = Idle
                             \/ handler'[g] = r
  BY <1>1, <1>3, BlankRows DEF Typed
<1>6. \A g \in Handlers : handler'[g].at # "touch"  BY <1>3, <1>5 DEF Busy
<1>7. /\ AfterExpiry \in [Pairs -> Records]
      /\ \A q \in Pairs :
           /\ AfterExpiry[q].chat = pair[q].chat /\ AfterExpiry[q].prompted = pair[q].prompted
           /\ AfterExpiry[q].status = "pending" => AfterExpiry[q] = pair[q]
           /\ AfterExpiry[q] = Unused => pair[q] = Unused
           /\ Live(pair[q]) => AfterExpiry[q] = pair[q]
  BY ExpiryKeeps
<1>8. \/ pair' = AfterExpiry
      \/ /\ pair[p] = Unused /\ PendingOf(c, AfterExpiry) = {}
         /\ pair' = [AfterExpiry EXCEPT ![p] = new]
  BY <1>1 DEF OfferedPair, FreshPairs
<1>9. /\ pair' \in [Pairs -> Records]
      /\ \A q \in Pairs : pair'[q] = AfterExpiry[q] \/ (q = p /\ pair'[q] = new)
  BY <1>4, <1>7, <1>8
<1>10. Typed'  BY <1>2, <1>5, <1>9 DEF Typed, HandlerRows, LineRows, Records
<1>11. RowsNamed'  BY <1>2, <1>3, <1>5 DEF RowsNamed, Idle
<1>12. PromptsArePast'
  <2>1. \A q \in Pairs : Past(pair'[q])
    <3> SUFFICES ASSUME NEW q \in Pairs PROVE Past(pair'[q])  OBVIOUS
    <3>1. CASE pair'[q] = AfterExpiry[q]  BY <3>1, <1>7 DEF PromptsArePast, Past
    <3>2. CASE pair'[q] = new  BY <3>2, <1>4
    <3> QED  BY <3>1, <3>2, <1>9
  <2>2. \A g \in Handlers : Past(handler'[g].copy)
    <3> SUFFICES ASSUME NEW g \in Handlers PROVE Past(handler'[g].copy)  OBVIOUS
    <3>1. CASE handler'[g] = handler[g]  BY <3>1 DEF PromptsArePast
    <3>2. CASE handler'[g] = Idle  BY <3>2, <1>4
    <3>3. CASE handler'[g] = r  BY <3>3, <1>3, <1>4
    <3> QED  BY <3>1, <3>2, <3>3, <1>5
  <2> HIDE DEF r, new
  <2> QED  BY <1>2, <2>1, <2>2 DEF PromptsArePast, Past
<1>13. StampsAreKept'
  <2> SUFFICES ASSUME NEW q \in Pairs
               PROVE  /\ pair'[q].status = "pending" => pair'[q].prompted = stamped[q]
                      /\ pair'[q] = Unused => stamped[q] = Never
    BY <1>2 DEF StampsAreKept
  <2>1. CASE pair'[q] = AfterExpiry[q]  BY <2>1, <1>7 DEF StampsAreKept
  <2>2. CASE q = p /\ pair'[q] = new /\ pair[p] = Unused  BY <2>2, <1>4 DEF StampsAreKept
  <2> QED  BY <2>1, <2>2, <1>7, <1>8
<1>14. OneLive'
  <2>1. \A q \in Pairs : Live(pair[q])' <=> Live(pair'[q])  BY <1>2 DEF Live
  <2>2. \A q \in Pairs : Live(AfterExpiry[q]) => Live(pair[q])  BY <1>7 DEF Live
  <2> SUFFICES ASSUME NEW q \in Pairs, NEW s \in Pairs, Live(pair'[q]), Live(pair'[s]),
                      pair'[q].chat = pair'[s].chat
               PROVE  q = s
    BY <2>1, <1>6 DEF OneLive
  <2>3. CASE pair' = AfterExpiry  BY <2>2, <2>3, <1>7 DEF OneLive
  <2>4. CASE PendingOf(c, AfterExpiry) = {} /\ pair' = [AfterExpiry EXCEPT ![p] = new]
    <3>1. \A t \in Pairs : Live(AfterExpiry[t]) => AfterExpiry[t].chat # c
      BY <2>4 DEF PendingOf, Live
    <3>2. pair'[p] = new /\ new.chat = c /\ \A t \in Pairs : t # p => pair'[t] = AfterExpiry[t]
      BY <2>4, <1>7
    <3>3. CASE q # p /\ s # p  BY <2>2, <3>2, <3>3, <1>7 DEF OneLive
    <3>4. CASE q = p \/ s = p  BY <3>1, <3>2, <3>4
    <3> QED  BY <3>3, <3>4
  <2> QED  BY <1>8, <2>3, <2>4
<1> QED  BY <1>10, <1>11, <1>12, <1>13, <1>14

\* A handler that ends without touching a request keeps the invariant.
LEMMA IdleStep ==
  ASSUME GInv, NEW h \in Handlers, Done(h), jobs' \in [Chats -> 0..MaxJobs],
         UNCHANGED <<now, direct, pair, active, line, stamped>>
  PROVE  GInv'
<1>1. /\ Idle \in HandlerRows /\ Idle.at = "idle" /\ Idle.copy.prompted = Never
      /\ handler' = [handler EXCEPT ![h] = Idle]
  BY BlankRows DEF Idle, Unused, Done
<1>2. Past(Idle.copy)  BY <1>1 DEF Past
<1> QED  BY <1>1, <1>2, RowStep

\* A message of a chat with a session: /stop empties the chat's queue, a text joins it.
LEMMA RoutePairedGInv ==
  ASSUME GInv, NEW h \in Handlers, NEW c \in Chats, NEW k, NEW triggers,
         RoutePaired(h, c, k, triggers)
  PROVE  GInv'
<1>1. /\ Done(h) /\ UNCHANGED <<now, direct, pair, active, line, stamped>>
      /\ \/ jobs' = [jobs EXCEPT ![c] = 0]
         \/ jobs[c] < MaxJobs /\ jobs' = [jobs EXCEPT ![c] = @ + 1]
         \/ jobs' = jobs
  BY DEF RoutePaired, Still
<1>2. jobs' \in [Chats -> 0..MaxJobs]
  <2>1. jobs \in [Chats -> 0..MaxJobs] /\ MaxJobs \in Nat
    BY GatewayAssumption DEF GInv, Typed
  <2>2. jobs[c] < MaxJobs => jobs[c] + 1 \in 0..MaxJobs  BY <2>1
  <2> QED  BY <1>1, <2>1, <2>2
<1> QED  BY <1>1, <1>2, IdleStep

\* A message that comes in (message-router.ts).
LEMMA ReceiveGInv ==
  ASSUME GInv, NEW h \in Handlers, NEW c \in Chats, NEW k \in Kinds, Receive(h, c, k)
  PROVE  GInv'
<1>1. jobs \in [Chats -> 0..MaxJobs]  BY DEF GInv, Typed
<1>2. PICK triggers \in BOOLEAN :
        \/ RouteUnpaired(h, c, k, triggers)
        \/ RoutePaired(h, c, k, triggers)
        \/ /\ handler' = [handler EXCEPT ![h] =
                [Idle EXCEPT !.at = "hydrate", !.chat = c, !.kind = k]]
           /\ UNCHANGED <<pair, jobs>> /\ Still
  BY DEF Receive
<1>3. CASE RouteUnpaired(h, c, k, triggers)
  <2>1. ~Busy  BY DEF Receive
  <2>2. CASE OfferPair(h, c)  BY <2>1, <2>2, OfferPairGInv
  <2>3. CASE Done(h) /\ UNCHANGED <<pair, jobs>> /\ Still
    BY <1>1, <2>3, IdleStep DEF Still
  <2> QED  BY <1>3, <2>2, <2>3 DEF RouteUnpaired
<1>4. CASE RoutePaired(h, c, k, triggers)  BY <1>4, RoutePairedGInv
<1>5. CASE /\ handler' = [handler EXCEPT ![h] =
                [Idle EXCEPT !.at = "hydrate", !.chat = c, !.kind = k]]
           /\ UNCHANGED <<pair, jobs>> /\ Still
  <2> DEFINE r == [Idle EXCEPT !.at = "hydrate", !.chat = c, !.kind = k]
  <2>1. /\ r \in HandlerRows /\ r.at = "hydrate" /\ r.chat = c /\ r.copy.prompted = Never
    BY BlankRows DEF Idle, HandlerRows, Unused
  <2>2. Past(r.copy)  BY <2>1 DEF Past
  <2>3. handler' = [handler EXCEPT ![h] = r] /\ jobs' = jobs
        /\ UNCHANGED <<now, direct, pair, active, line, stamped>>
    BY <1>5 DEF Still
  <2> HIDE DEF r
  <2> QED  BY <1>1, <2>1, <2>2, <2>3, RowStep
<1> QED  BY <1>2, <1>3, <1>4, <1>5

\* ... and one whose text and media have been fetched.
LEMMA HydratedGInv == ASSUME GInv, NEW h \in Handlers, Hydrated(h) PROVE GInv'
<1>1. handler[h].chat \in Chats  BY DEF Hydrated, GInv, RowsNamed
<1>2. \/ \E triggers \in BOOLEAN : RoutePaired(h, handler[h].chat, handler[h].kind, triggers)
      \/ Done(h) /\ UNCHANGED <<pair, jobs>> /\ Still
  BY DEF Hydrated
<1>3. CASE Done(h) /\ UNCHANGED <<pair, jobs>> /\ Still
  BY <1>3, IdleStep DEF Still, GInv, Typed
<1>4. ASSUME NEW triggers, RoutePaired(h, handler[h].chat, handler[h].kind, triggers)
      PROVE  GInv'
  BY <1>1, <1>4, RoutePairedGInv
<1> QED  BY <1>2, <1>3, <1>4

\* touchPairPrompt reads the request: the copy is of the live code of its chat, if it is
\* live, and no other handler has one.
LEMMA PromptSentGInv == ASSUME GInv, NEW h \in Handlers, PromptSent(h) PROVE GInv'
<1> USE DEF GInv
<1> DEFINE p == handler[h].pair
           r == [handler[h] EXCEPT !.at = "touch", !.copy = pair[p]]
<1>1. /\ ~Busy /\ handler[h].at = "prompt" /\ handler' = [handler EXCEPT ![h] = r]
      /\ UNCHANGED <<now, direct, pair, active, jobs, line, stamped>>
  BY DEF PromptSent, Still, Typed
<1>2. p \in Pairs /\ pair[p] \in Records /\ handler[h] \in HandlerRows
  BY <1>1 DEF RowsNamed, Typed
<1>3. r \in HandlerRows /\ r.at = "touch" /\ r.pair = p /\ r.copy = pair[p]
  BY <1>2 DEF HandlerRows
<1> HIDE DEF r
<1>4. /\ handler' \in [Handlers -> HandlerRows] /\ handler'[h] = r
      /\ \A g \in Handlers : g # h => handler'[g] = handler[g] /\ handler'[g].at # "touch"
  BY <1>1, <1>3 DEF Typed, Busy
<1>5. Typed'  BY <1>1, <1>4 DEF Typed, HandlerRows, LineRows, Records
<1>6. RowsNamed'  BY <1>1, <1>2, <1>3, <1>4 DEF RowsNamed
<1>7. PromptsArePast'  BY <1>1, <1>2, <1>3, <1>4 DEF PromptsArePast, Past
<1>8. StampsAreKept'  BY <1>1 DEF StampsAreKept
<1>9. OneLive'
  <2>1. \A x : Live(x)' <=> x.status = "pending" /\ x.expires > now  BY <1>1 DEF Live
  <2>2. \A q \in Pairs : Live(pair[p]) /\ Live(pair[q]) /\ pair[q].chat = pair[p].chat => q = p
    BY <1>2 DEF OneLive
  <2>3. \A f, g \in Handlers : handler'[f].at = "touch" /\ handler'[g].at = "touch" => f = g
    BY <1>4
  <2>4. ASSUME NEW g \in Handlers, handler'[g].at = "touch", Live(handler[g].copy)',
               NEW q \in Pairs, Live(pair[q])', pair'[q].chat = handler'[g].copy.chat
        PROVE  q = handler'[g].pair
    <3>1. g = h /\ handler'[g].copy = pair[p] /\ handler'[g].pair = p  BY <2>4, <1>3, <1>4
    <3>2. Live(pair[p]) /\ Live(pair[q])  BY <1>1, <2>4, <3>1 DEF Live
    <3> QED  BY <1>1, <2>2, <2>4, <3>1, <3>2
  <2>5. \A q, s \in Pairs : Live(pair[q])' /\ Live(pair[s])' /\ pair'[q].chat = pair'[s].chat
                              => q = s
    BY <1>1 DEF OneLive, Live
  <2> QED  BY <2>3, <2>4, <2>5 DEF OneLive
<1> QED  BY <1>5, <1>6, <1>7, <1>8, <1>9

\* ... and writes it back: what that brings to life is the one live code of its chat.
LEMMA TouchGInv == ASSUME GInv, NEW h \in Handlers, Touch(h) PROVE GInv'
<1> USE DEF GInv
<1> DEFINE p == handler[h].pair
           new == [handler[h].copy EXCEPT !.prompted = now]
<1>1. /\ handler[h].at = "touch" /\ handler' = [handler EXCEPT ![h] = Idle]
      /\ pair' = [pair EXCEPT ![p] = new] /\ stamped' = [stamped EXCEPT ![p] = now]
      /\ UNCHANGED <<now, direct, active, jobs, line>>
  BY DEF Touch, Done
<1>2. p \in Pairs /\ handler[h].copy \in Records /\ now \in 0..Never /\ now # Never
  <2>1. p \in Pairs  BY <1>1 DEF RowsNamed
  <2>2. handler[h].copy \in Records  BY DEF Typed, HandlerRows
  <2>3. now \in 0..MaxNow /\ MaxNow \in Nat  BY GatewayAssumption DEF Typed
  <2> QED  BY <2>1, <2>2, <2>3 DEF Never
<1>3. /\ new \in Records /\ new.prompted = now /\ new.chat = handler[h].copy.chat
      /\ new.status = handler[h].copy.status /\ new.expires = handler[h].copy.expires
  BY <1>2 DEF Records
<1>4. new # Unused /\ Past(new)
  <2>1. Unused.prompted = Never  BY DEF Unused
  <2>2. now <= now  BY <1>2, GatewayAssumption DEF Never
  <2> QED  BY <2>1, <2>2, <1>2, <1>3 DEF Past
<1> HIDE DEF new
<1>5. /\ pair' \in [Pairs -> Records] /\ pair'[p] = new
      /\ \A q \in Pairs : q # p => pair'[q] = pair[q]
      /\ stamped' \in [Pairs -> 0..Never] /\ stamped'[p] = now
      /\ \A q \in Pairs : q # p => stamped'[q] = stamped[q]
  BY <1>1, <1>2, <1>3 DEF Typed
<1>6. /\ handler' \in [Handlers -> HandlerRows] /\ handler'[h] = Idle
      /\ \A g \in Handlers : g # h => handler'[g] = handler[g] /\ handler'[g].at # "touch"
  BY <1>1, BlankRows DEF Typed, OneLive
<1>7. Idle.at = "idle" /\ Idle.copy.prompted = Never  BY DEF Idle, Unused
<1>8. Typed'  BY <1>1, <1>5, <1>6 DEF Typed, HandlerRows, LineRows, Records
<1>9. RowsNamed'  BY <1>1, <1>6, <1>7 DEF RowsNamed
<1>10. PromptsArePast'
  BY <1>1, <1>4, <1>5, <1>6, <1>7 DEF PromptsArePast, Past
<1>11. StampsAreKept'  BY <1>3, <1>4, <1>5 DEF StampsAreKept
<1>12. OneLive'
  <2>1. \A x : Live(x)' <=> Live(x)  BY <1>1 DEF Live
  <2>2. Live(new) => \A q \in Pairs : Live(pair[q]) /\ pair[q].chat = new.chat => q = p
    BY <1>1, <1>3 DEF OneLive, Live
  <2>3. ASSUME NEW q \in Pairs, NEW s \in Pairs, Live(pair'[q]), Live(pair'[s]),
               pair'[q].chat = pair'[s].chat
        PROVE  q = s
    <3>1. CASE q # p /\ s # p  BY <2>3, <3>1, <1>5 DEF OneLive
    <3>2. CASE q = p /\ s # p  BY <2>2, <2>3, <3>2, <1>5
    <3>3. CASE q # p /\ s = p  BY <2>2, <2>3, <3>3, <1>5
    <3> QED  BY <3>1, <3>2, <3>3
  <2>4. \A g \in Handlers : handler'[g].at # "touch"  BY <1>6, <1>7
  <2>5. \A q \in Pairs : Live(pair[q])' <=> Live(pair'[q])  BY <1>1 DEF Live
  <2> QED  BY <2>3, <2>4, <2>5 DEF OneLive
<1> QED  BY <1>8, <1>9, <1>10, <1>11, <1>12

-----------------------------------------------------------------------------
(* Command lines. *)

\* What a listing of the requests, and the decision of one, do to the files.
LEMMA ListingKeeps ==
  ASSUME GInv
  PROVE  /\ AfterExpiry \in [Pairs -> Records]
         /\ \A p \in Pairs : /\ AfterExpiry[p].status = "pending" => AfterExpiry[p] = pair[p]
                             /\ AfterExpiry[p] = Unused => pair[p] = Unused
                             /\ Past(AfterExpiry[p])
BY ExpiryKeeps DEF GInv, PromptsArePast, Past

\* An administrator's decision over a request leaves the chat no second live code.
LEMMA DecisionKeeps ==
  ASSUME GInv, NEW p \in Pairs, NEW r \in Records, Past(r),
         NEW st \in {"accepted", "rejected"},
         pair' = [pair EXCEPT ![p] = [r EXCEPT !.status = st]]
  PROVE  /\ pair' \in [Pairs -> Records]
         /\ \A q \in Pairs : /\ pair'[q].status = "pending" => pair'[q] = pair[q]
                             /\ pair'[q] = Unused => pair[q] = Unused
                             /\ Past(pair'[q])
<1> DEFINE new == [r EXCEPT !.status = st]
<1>1. new \in Records /\ new.status = st /\ new.prompted = r.prompted
  BY DEF Records
<1>2. new # Unused /\ new.status # "pending" /\ Past(new)
  BY <1>1 DEF Unused, Past
<1>3. /\ pair' \in [Pairs -> Records] /\ pair'[p] = new
      /\ \A q \in Pairs : q # p => pair'[q] = pair[q]
  BY <1>1 DEF GInv, Typed
<1> HIDE DEF new
<1> QED  BY <1>2, <1>3 DEF GInv, PromptsArePast

\* pair accept and pair reject (pair-store.ts): a request is looked up in a listing, and
\* what was read is written back with the decision.
LEMMA LineGInv ==
  ASSUME GInv, NEW l \in CommandLines,
         \/ \E p \in Pairs : AcceptLookup(l, p) \/ Reject(l, p)
         \/ AcceptCreate(l) \/ AcceptMark(l) \/ AcceptWrite(l) \/ RejectWrite(l)
  PROVE  GInv'
<1> USE DEF GInv
<1>0. /\ line[l] \in LineRows /\ line[l].copy \in Records /\ Past(line[l].copy)
      /\ line[l].at # "idle" => line[l].pair \in Pairs
      /\ pair \in [Pairs -> Records] /\ active \in [Chats -> 0..MaxSessions]
      /\ line \in [CommandLines -> LineRows]
  BY DEF Typed, LineRows, PromptsArePast, RowsNamed
<1>1. Idle \in LineRows /\ Idle.at = "idle" /\ Past(Idle.copy)
  BY BlankRows DEF Idle, Unused, Past
<1>2. \A p \in Pairs : Past(pair[p])  BY DEF PromptsArePast
<1>3. ASSUME NEW p \in Pairs, AcceptLookup(l, p) PROVE GInv'
  <2>1. PICK at \in {"create", "mark"} :
          line' = [line EXCEPT ![l] = [Idle EXCEPT !.pair = p, !.chat = pair[p].chat, !.at = at]]
    BY <1>3 DEF AcceptLookup
  <2> DEFINE r == [Idle EXCEPT !.pair = p, !.chat = pair[p].chat, !.at = at]
  <2>2. pair[p].chat \in Chats \cup {NoChat}  BY <1>0 DEF Records
  <2>3. r \in LineRows /\ r.pair = p /\ r.copy = Idle.copy
    BY <1>1, <2>2 DEF LineRows, Idle
  <2>4. /\ pair' = AfterExpiry /\ active' = active
        /\ UNCHANGED <<now, direct, jobs, handler, stamped>>
    BY <1>3 DEF AcceptLookup, Elsewhere
  <2> HIDE DEF r
  <2> QED  BY <1>0, <1>1, <2>1, <2>3, <2>4, ListingKeeps, LineStep DEF r
<1>4. ASSUME NEW p \in Pairs, Reject(l, p) PROVE GInv'
  <2> DEFINE r == [Idle EXCEPT !.at = "reject", !.pair = p, !.copy = AfterExpiry[p]]
  <2>1. /\ pair' = AfterExpiry /\ line' = [line EXCEPT ![l] = r] /\ active' = active
        /\ UNCHANGED <<now, direct, jobs, handler, stamped>>
    BY <1>4 DEF Reject, Elsewhere
  <2>2. AfterExpiry[p] \in Records /\ Past(AfterExpiry[p])  BY ListingKeeps
  <2>3. r \in LineRows /\ r.pair = p /\ r.copy = AfterExpiry[p]
    BY <1>1, <2>2 DEF LineRows, Idle
  <2> HIDE DEF r
  <2> QED  BY <1>0, <2>1, <2>2, <2>3, ListingKeeps, LineStep
<1>5. CASE AcceptCreate(l)
  <2> DEFINE r == [line[l] EXCEPT !.at = "mark"]
             c == line[l].chat
  <2>1. /\ line[l].at = "create" /\ active[c] < MaxSessions
        /\ active' = [active EXCEPT ![c] = @ + 1] /\ line' = [line EXCEPT ![l] = r]
        /\ pair' = pair /\ UNCHANGED <<now, direct, jobs, handler, stamped>>
    BY <1>5, <1>0 DEF AcceptCreate, LineAt, Elsewhere
  <2>2. r \in LineRows /\ r.pair = line[l].pair /\ r.copy = line[l].copy
    BY <1>0 DEF LineRows
  <2>3. active' \in [Chats -> 0..MaxSessions]
    <3>1. CASE c \in Chats
      <4>1. active[c] + 1 \in 0..MaxSessions  BY <1>0, <2>1, <3>1, GatewayAssumption
      <4> QED  BY <1>0, <2>1, <4>1
    <3>2. CASE c \notin Chats  BY <1>0, <2>1, <3>2
    <3> QED  BY <3>1, <3>2
  <2> HIDE DEF r
  <2> QED  BY <1>0, <1>2, <2>1, <2>2, <2>3, LineStep
<1>6. CASE AcceptMark(l)
  <2> DEFINE p == line[l].pair
             r == IF AfterExpiry[p].status = "pending"
                    THEN [line[l] EXCEPT !.at = "accept", !.copy = AfterExpiry[p]] ELSE Idle
  <2>1. /\ line[l].at = "mark" /\ pair' = AfterExpiry /\ line' = [line EXCEPT ![l] = r]
        /\ active' = active /\ UNCHANGED <<now, direct, jobs, handler, stamped>>
    BY <1>6, <1>0 DEF AcceptMark, LineAt, Elsewhere
  <2>2. p \in Pairs  BY <1>0, <2>1
  <2>3. AfterExpiry[p] \in Records /\ Past(AfterExpiry[p])  BY <2>2, ListingKeeps
  <2>4. r \in LineRows /\ (r.at # "idle" => r.pair \in Pairs) /\ Past(r.copy)
    <3>1. CASE r = Idle  BY <3>1, <1>1
    <3>2. CASE r = [line[l] EXCEPT !.at = "accept", !.copy = AfterExpiry[p]]
      <4>1. r \in LineRows /\ r.pair = p /\ r.copy = AfterExpiry[p]
        BY <1>0, <2>3, <3>2 DEF LineRows
      <4> QED  BY <4>1, <2>2, <2>3
    <3> QED  BY <3>1, <3>2
  <2> HIDE DEF r
  <2> QED  BY <1>0, <2>1, <2>4, ListingKeeps, LineStep
<1>7. CASE AcceptWrite(l)
  <2>1. /\ line[l].at = "accept" /\ line' = [line EXCEPT ![l] = Idle] /\ active' = active
        /\ pair' = [pair EXCEPT ![line[l].pair] = [line[l].copy EXCEPT !.status = "accepted"]]
        /\ UNCHANGED <<now, direct, jobs, handler, stamped>>
    BY <1>7 DEF AcceptWrite, LineAt, LineDone, Elsewhere
  <2>2. /\ pair' \in [Pairs -> Records]
        /\ \A q \in Pairs : /\ pair'[q].status = "pending" => pair'[q] = pair[q]
                            /\ pair'[q] = Unused => pair[q] = Unused
                            /\ Past(pair'[q])
    BY <1>0, <2>1, DecisionKeeps
  <2> QED  BY <1>0, <1>1, <2>1, <2>2, LineStep
<1>8. CASE RejectWrite(l)
  <2>1. /\ line[l].at = "reject" /\ line' = [line EXCEPT ![l] = Idle] /\ active' = active
        /\ pair' = [pair EXCEPT ![line[l].pair] = [line[l].copy EXCEPT !.status = "rejected"]]
        /\ UNCHANGED <<now, direct, jobs, handler, stamped>>
    BY <1>8 DEF RejectWrite, LineAt, LineDone, Elsewhere
  <2>2. /\ pair' \in [Pairs -> Records]
        /\ \A q \in Pairs : /\ pair'[q].status = "pending" => pair'[q] = pair[q]
                            /\ pair'[q] = Unused => pair[q] = Unused
                            /\ Past(pair'[q])
    BY <1>0, <2>1, DecisionKeeps
  <2> QED  BY <1>0, <1>1, <2>1, <2>2, LineStep
<1> QED  BY <1>3, <1>4, <1>5, <1>6, <1>7, <1>8

-----------------------------------------------------------------------------
(* Every step. *)

\* Jobs and sessions that end, and time: codes run out and none comes to life.
LEMMA OutsideGInv ==
  ASSUME GInv, Tick \/ (\E c \in Chats : JobEnds(c) \/ RemoveSession(c)) \/ UNCHANGED vars
  PROVE  GInv'
<1> USE DEF GInv
<1>1. /\ UNCHANGED <<direct, pair, handler, line, stamped>>
      /\ now' \in 0..MaxNow /\ now <= now'
  BY GatewayAssumption DEF Tick, JobEnds, RemoveSession, vars, Typed
<1>2. jobs' \in [Chats -> 0..MaxJobs] /\ active' \in [Chats -> 0..MaxSessions]
  <2>0. jobs \in [Chats -> 0..MaxJobs] /\ active \in [Chats -> 0..MaxSessions]
    BY DEF Typed
  <2>1. CASE Tick \/ UNCHANGED vars  BY <2>0, <2>1 DEF Tick, vars
  <2>2. ASSUME NEW c \in Chats, JobEnds(c) \/ RemoveSession(c)
        PROVE  jobs' \in [Chats -> 0..MaxJobs] /\ active' \in [Chats -> 0..MaxSessions]
    <3>1. \A n \in Nat : \A k \in 0..n : k > 0 => k - 1 \in 0..n  OBVIOUS
    <3>2. jobs[c] > 0 => jobs[c] - 1 \in 0..MaxJobs  BY <2>0, <3>1, GatewayAssumption
    <3>3. active[c] > 0 => active[c] - 1 \in 0..MaxSessions  BY <2>0, <3>1, GatewayAssumption
    <3>4. CASE JobEnds(c)  BY <2>0, <3>2, <3>4 DEF JobEnds
    <3>5. CASE RemoveSession(c)  BY <2>0, <3>3, <3>5 DEF RemoveSession
    <3> QED  BY <2>2, <3>4, <3>5
  <2> QED  BY <2>1, <2>2
<1>3. Typed'  BY <1>1, <1>2 DEF Typed, HandlerRows, LineRows, Records
<1>4. RowsNamed' /\ StampsAreKept'  BY <1>1 DEF RowsNamed, StampsAreKept
<1>5. PromptsArePast'
  <2>1. \A r \in Records : Past(r) => Past(r)'
    BY <1>1, GatewayAssumption DEF Past, Typed, Records, Never
  <2>2. /\ \A p \in Pairs : pair[p] \in Records
        /\ \A h \in Handlers : handler[h].copy \in Records
        /\ \A l \in CommandLines : line[l].copy \in Records
    BY DEF Typed, HandlerRows, LineRows
  <2> QED  BY <1>1, <2>1, <2>2 DEF PromptsArePast, Past
<1>6. OneLive'
  <2>1. pair' \in [Pairs -> Records] /\ handler' \in [Handlers -> HandlerRows]
    BY <1>1 DEF Typed
  <2> QED  BY <1>1, <2>1, NothingRevived
<1> QED  BY <1>3, <1>4, <1>5, <1>6

\* Every step of the gateway keeps the invariant.
LEMMA NextGInv == GInv /\ [Next]_vars => GInv'
<1> SUFFICES ASSUME GInv, [Next]_vars PROVE GInv'
  OBVIOUS
<1>1. ASSUME NEW h \in Handlers, NEW c \in Chats, NEW k \in Kinds, Receive(h, c, k)
      PROVE  GInv'
  BY <1>1, ReceiveGInv
<1>2. ASSUME NEW h \in Handlers, Hydrated(h) PROVE GInv'  BY <1>2, HydratedGInv
<1>3. ASSUME NEW h \in Handlers, PromptFails(h) PROVE GInv'
  BY <1>3, IdleStep DEF PromptFails, Still, GInv, Typed
<1>4. ASSUME NEW h \in Handlers, PromptSent(h) PROVE GInv'  BY <1>4, PromptSentGInv
<1>5. ASSUME NEW h \in Handlers, Touch(h) PROVE GInv'  BY <1>5, TouchGInv
<1>6. ASSUME NEW l \in CommandLines,
             \/ \E p \in Pairs : AcceptLookup(l, p) \/ Reject(l, p)
             \/ AcceptCreate(l) \/ AcceptMark(l) \/ AcceptWrite(l) \/ RejectWrite(l)
      PROVE  GInv'
  BY <1>6, LineGInv
<1>7. CASE Tick \/ (\E c \in Chats : JobEnds(c) \/ RemoveSession(c)) \/ UNCHANGED vars
  BY <1>7, OutsideGInv
<1> QED  BY <1>1, <1>2, <1>3, <1>4, <1>5, <1>6, <1>7 DEF Next

\* An empty pair store satisfies it.
LEMMA InitGInv == Init => GInv
<1> SUFFICES ASSUME Init PROVE GInv
  OBVIOUS
<1> USE DEF Init
<1>1. /\ Idle.at = "idle" /\ Idle.copy.prompted = Never
      /\ Unused.prompted = Never /\ Unused.status = "none"
  BY DEF Idle, Unused
<1>2. Typed  BY BlankRows, GatewayAssumption DEF Typed, Never
<1>3. RowsNamed /\ PromptsArePast /\ StampsAreKept
  BY <1>1 DEF RowsNamed, PromptsArePast, Past, StampsAreKept
<1>4. OneLive  BY <1>1 DEF OneLive, Live
<1> QED  BY <1>2, <1>3, <1>4 DEF GInv

\* The invariant holds in every state of the gateway.
LEMMA Invariance == Spec => []GInv
<1>1. Init => GInv  BY InitGInv
<1>2. GInv /\ [Next]_vars => GInv'  BY NextGInv
<1> QED  BY <1>1, <1>2, PTL DEF Spec

-----------------------------------------------------------------------------
(* What it is for. *)

\* The type of every variable, and that no copy of a request has a stamp of the future.
THEOREM TypeCorrect == Spec => []TypeOK
<1>1. GInv => TypeOK
  <2> SUFFICES ASSUME GInv PROVE TypeOK
    OBVIOUS
  <2> USE DEF GInv
  <2>1. \A h \in Handlers : handler[h] \in HandlerRows /\ Past(handler[h].copy)
    BY DEF Typed, PromptsArePast
  <2>2. \A l \in CommandLines : line[l] \in LineRows /\ Past(line[l].copy)
    BY DEF Typed, PromptsArePast
  <2>3. ASSUME NEW r \in {handler[h] : h \in Handlers} \cup {line[l] : l \in CommandLines}
        PROVE  /\ r.at \in {"idle", "hydrate", "prompt", "touch", "create", "mark", "accept", "reject"}
               /\ r.chat \in Chats \cup {NoChat} /\ r.pair \in Pairs \cup {NoPair}
               /\ r.copy \in Records
               /\ \A p \in Pairs : r.copy.prompted <= now \/ r.copy.prompted = Never
    <3>1. (r \in HandlerRows \/ r \in LineRows) /\ Past(r.copy)  BY <2>1, <2>2
    <3> QED  BY <3>1 DEF HandlerRows, LineRows, Past
  <2> QED  BY <2>3 DEF Typed, TypeOK
<1> QED  BY <1>1, Invariance, PTL

\* However many messages of a chat are handled at once, and whichever stale copies of a
\* request are written back over a decision, a chat has one code at a time that an
\* administrator can accept (createOrReusePair, touchPairPrompt).
THEOREM ChatsHaveOneCode == Spec => []OneLiveCode
<1>1. GInv => OneLiveCode
  <2> SUFFICES ASSUME GInv, NEW c \in Chats
               PROVE  Cardinality({p \in PendingOf(c, pair) : ~Expired(p)}) <= 1
    BY DEF OneLiveCode
  <2> DEFINE L == {p \in PendingOf(c, pair) : ~Expired(p)}
  <2>1. \A p \in L : p \in Pairs /\ Live(pair[p]) /\ pair[p].chat = c
    <3> SUFFICES ASSUME NEW p \in L PROVE p \in Pairs /\ Live(pair[p]) /\ pair[p].chat = c
      OBVIOUS
    <3>1. p \in Pairs /\ pair[p].chat = c /\ pair[p].status = "pending" /\ ~(pair[p].expires <= now)
      BY DEF PendingOf, Expired
    <3>2. pair[p].expires \in Nat /\ now \in Nat  BY <3>1, RecordFacts DEF GInv, Typed
    <3> QED  BY <3>1, <3>2 DEF Live
  <2>2. \A p, q \in L : p = q  BY <2>1 DEF GInv, OneLive
  <2> HIDE DEF L
  <2>3. CASE L = {}  BY <2>3, FS_EmptySet DEF L
  <2>4. CASE L # {}
    <3>1. PICK p : p \in L  BY <2>4
    <3>2. L = {p}  BY <2>2, <3>1
    <3>3. Cardinality({p}) = 1  BY FS_Singleton
    <3> QED  BY <3>2, <3>3 DEF L
  <2> QED  BY <2>3, <2>4
<1> QED  BY <1>1, Invariance, PTL

\* A prompt is only started for a code whose last stamp is a cooldown old, whatever was
\* written over the request in the meantime (shouldSuppressReprompt).
LEMMA PromptWaits ==
  ASSUME GInv, [Next]_vars, NEW h \in Handlers, handler[h].at # "prompt",
         handler'[h].at = "prompt"
  PROVE  LET s == stamped[handler'[h].pair] IN s = Never \/ now - s >= Cooldown
<1> USE DEF GInv
<1>1. handler \in [Handlers -> HandlerRows] /\ Idle.at = "idle"  BY DEF Typed, Idle
<1>2. PICK g \in Handlers, c \in Chats : OfferPair(g, c)
  <2>1. handler' # handler  OBVIOUS
  <2>2. ASSUME NEW g \in Handlers, NEW r, handler' = [handler EXCEPT ![g] = r],
               r.at # "prompt"
        PROVE  FALSE
    BY <1>1, <2>2
  <2>3. \A g \in Handlers : ~Done(g)  BY <1>1, <2>2 DEF Done
  <2>4. \A g \in Handlers : ~(Hydrated(g) \/ PromptFails(g) \/ Touch(g))
    BY <2>3 DEF Hydrated, RoutePaired, PromptFails, Touch
  <2>5. \A g \in Handlers : ~PromptSent(g)
    <3> SUFFICES ASSUME NEW g \in Handlers, PromptSent(g) PROVE FALSE
      OBVIOUS
    <3> DEFINE r == [handler[g] EXCEPT !.at = "touch", !.copy = pair[handler[g].pair]]
    <3>1. handler' = [handler EXCEPT ![g] = r]  BY <1>1 DEF PromptSent
    <3>2. r.at = "touch"  BY <1>1 DEF HandlerRows
    <3> HIDE DEF r
    <3> QED  BY <2>2, <3>1, <3>2
  <2>6. ~Tick /\ ~UNCHANGED vars /\ \A d \in Chats : ~(JobEnds(d) \/ RemoveSession(d))
    BY <2>1 DEF Tick, vars, JobEnds, RemoveSession
  <2>7. \A l \in CommandLines :
          /\ \A p \in Pairs : ~AcceptLookup(l, p) /\ ~Reject(l, p)
          /\ ~AcceptCreate(l) /\ ~AcceptMark(l) /\ ~AcceptWrite(l) /\ ~RejectWrite(l)
    BY <2>1 DEF AcceptLookup, Reject, AcceptCreate, AcceptMark, AcceptWrite, RejectWrite, Elsewhere
  <2>8. PICK g \in Handlers, c \in Chats, k \in Kinds : Receive(g, c, k)
    BY <2>4, <2>5, <2>6, <2>7 DEF Next
  <2>9. OfferPair(g, c)
    <3>1. PICK triggers \in BOOLEAN :
        \/ RouteUnpaired(g, c, k, triggers)
        \/ RoutePaired(g, c, k, triggers)
        \/ handler' = [handler EXCEPT ![g] = [Idle EXCEPT !.at = "hydrate", !.chat = c, !.kind = k]]
      BY <2>8 DEF Receive
    <3>2. ~RoutePaired(g, c, k, triggers)  BY <2>3 DEF RoutePaired
    <3>3. handler' # [handler EXCEPT ![g] = [Idle EXCEPT !.at = "hydrate", !.chat = c, !.kind = k]]
      <4> DEFINE r == [Idle EXCEPT !.at = "hydrate", !.chat = c, !.kind = k]
      <4>1. r.at # "prompt"  BY DEF Idle
      <4> HIDE DEF r
      <4>2. handler' # [handler EXCEPT ![g] = r]  BY <2>2, <4>1
      <4> QED  BY <4>2 DEF r
    <3> QED  BY <2>3, <3>1, <3>2, <3>3 DEF RouteUnpaired
  <2> QED  BY <2>9
<1>3. PICK p \in Pairs :
        /\ OfferedPair(c, AfterExpiry, p)
        /\ handler' = [handler EXCEPT ![g] =
             IF Suppressed(pair'[p]) THEN Idle
             ELSE [Idle EXCEPT !.at = "prompt", !.chat = c, !.pair = p]]
  BY <1>2 DEF OfferPair
<1>4. g = h /\ ~Suppressed(pair'[p])  BY <1>1, <1>3
<1>5. handler'[h].pair = p  BY <1>1, <1>3, <1>4 DEF Idle
<1>6. \/ pair'[p].prompted = stamped[p]
      \/ stamped[p] = Never
  <2>1. CASE p \in PendingOf(c, AfterExpiry) /\ pair' = AfterExpiry
    BY <2>1, ExpiryKeeps DEF PendingOf, StampsAreKept
  <2>2. CASE p \in FreshPairs  BY <2>2 DEF FreshPairs, StampsAreKept
  <2> QED  BY <1>3, <2>1, <2>2 DEF OfferedPair
<1>7. stamped[p] \in Nat /\ now \in Nat /\ Cooldown \in Nat
  BY GatewayAssumption DEF Typed, Never
<1> QED  BY <1>4, <1>5, <1>6, <1>7 DEF Suppressed

\* Whatever two handlers of a chat write over each other, a prompt for a code that has been
\* stamped starts a cooldown after the stamp at the earliest (shouldSuppressReprompt).
THEOREM PromptsKeepTheirDistance == Spec => PromptsAreSpaced
<1> DEFINE Spaced ==
       \A h \in Handlers :
         handler[h].at # "prompt" /\ handler'[h].at = "prompt" =>
           LET s == stamped[handler'[h].pair] IN s = Never \/ now - s >= Cooldown
<1>1. GInv /\ [Next]_vars => Spaced  BY PromptWaits
<1>2. GInv /\ [Next]_vars => [Spaced]_vars  BY <1>1
<1> QED  BY <1>2, Invariance, PTL DEF Spec, PromptsAreSpaced
=============================================================================
