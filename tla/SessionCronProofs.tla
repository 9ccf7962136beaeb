-------------------------- MODULE SessionCronProofs --------------------------
(***************************************************************************)
(* Proofs about SessionCron, for any number of sessions and reminders, any *)
(* queue depth, and as many slots, resets, faults and crashes as one likes. *)
(***************************************************************************)
EXTENDS SessionCronProps, FiniteSetTheorems, TLAPS

-----------------------------------------------------------------------------
(* The inductive invariant. *)

Written(c) == cron[c] # NotWritten
SessionOf(c) == cron[c].session
HeldIds == {h.id : h \in held}

\* The types the proofs need: those of TypeOK but for the bounds that follow from more.
Typed ==
  /\ now \in 0..MaxNow /\ mishaps \in 0..MaxMishaps
  /\ status \in [Conversations -> {"none", "active", "gone"}]
  /\ generation \in [Conversations -> Generations]
  /\ cron \in [Crons -> CronRecord \cup {NotWritten}]
  /\ jobs \in [Conversations -> Nat] /\ run \in [Conversations -> Generations \cup {NoRun}]
  /\ due \subseteq Crons /\ held \subseteq [id : Crons, record : CronRecord]
  /\ purging \subseteq Conversations /\ reset \subseteq Crons
  /\ fires \in [Crons -> [0..MaxNow -> Nat]] /\ asked \in [Crons -> Generations]

\* A purge is only unfinished where the session's record is already gone.
PurgedAreGone == \A s \in purging : status[s] = "gone"

\* A cron is bound to a generation its session has or had, and to an earlier one if the
\* session was reset after it was written, whether or not that reset was cut short.
Bindings ==
  \A c \in Crons :
    /\ Written(c) => cron[c].generation <= generation[SessionOf(c)]
    /\ c \in reset => Written(c) /\ cron[c].generation < generation[SessionOf(c)]

\* What the poll has listed is due, and still active unless its session is gone: while
\* the poll is under way, only a purge writes crons besides it.
DueStays ==
  \A c \in due :
    /\ Written(c) /\ cron[c].next <= now
    /\ Active(c) \/ status[SessionOf(c)] = "gone"

\* What the poll holds is one record, of a cron whose slot has been enqueued, and it is
\* that cron's file still, but for the status, which a purge may change meanwhile.
HeldFresh ==
  /\ \A g, h \in held : g = h
  /\ \A h \in held :
       /\ h.id \notin due /\ Written(h.id) /\ h.record.status = "active"
       /\ h.record.session = SessionOf(h.id) /\ h.record.generation = cron[h.id].generation
       /\ h.record.next = cron[h.id].next /\ h.record.next <= now
       /\ fires[h.id][h.record.next] > 0

\* How often the slots of a cron were enqueued: those to come not once, and the one an
\* active cron waits for, while its record is not on the way to be written back, no more
\* often than there were mishaps.
SlotsCounted ==
  \A c \in Crons, t \in 0..MaxNow :
    /\ fires[c][t] <= 1 + mishaps
    /\ ~Written(c) => fires[c][t] = 0
    /\ Written(c) /\ t > cron[c].next => fires[c][t] = 0
    /\ Active(c) /\ c \notin HeldIds /\ t = cron[c].next => fires[c][t] <= mishaps

CInv ==
  Typed /\ PurgedAreGone /\ Bindings /\ DueStays /\ HeldFresh /\ SlotsCounted

-----------------------------------------------------------------------------
(* Steps that fire nothing. *)

\* A cron that is written is a record, and one that is active is written.
LEMMA CronFacts ==
  ASSUME Typed, NEW c \in Crons
  PROVE  /\ Active(c) => Written(c)
         /\ Written(c) => /\ cron[c] \in CronRecord /\ SessionOf(c) \in Conversations
                          /\ cron[c].generation \in Nat /\ cron[c].next \in 0..(MaxNow + 1)
<1>1. cron[c] \in CronRecord \/ cron[c] = NotWritten  BY DEF Typed
<1>2. NotWritten.status # "active"  BY DEF NotWritten
<1>3. cron[c] \in CronRecord =>
        /\ cron[c].session \in Conversations /\ cron[c].generation \in Nat
        /\ cron[c].next \in 0..(MaxNow + 1)
  BY SessionCronAssumption DEF CronRecord, Generations
<1> QED  BY <1>1, <1>2, <1>3 DEF Active, Written, SessionOf

\* The files of the crons keep all but their status, which may only cease to be active.
CronsKept ==
  \A c \in Crons :
    /\ Written(c)' <=> Written(c)
    /\ Written(c) => /\ cron'[c].session = cron[c].session
                     /\ cron'[c].generation = cron[c].generation
                     /\ cron'[c].next = cron[c].next
    /\ Active(c)' => Active(c)

\* What invalidateCron and cancelCron do to the active crons S (cron-store.ts).
LEMMA WithStatusKeeps ==
  ASSUME Typed, NEW S \in SUBSET {c \in Crons : Active(c)},
         NEW st \in {"invalidated", "canceled"}, cron' = WithStatus(S, st)
  PROVE  /\ cron' \in [Crons -> CronRecord \cup {NotWritten}] /\ CronsKept
         /\ \A c \in Crons : Active(c)' <=> Active(c) /\ c \notin S
<1> SUFFICES ASSUME NEW c \in Crons
             PROVE  /\ cron'[c] \in CronRecord \cup {NotWritten}
                    /\ Written(c)' <=> Written(c)
                    /\ Written(c) => /\ cron'[c].session = cron[c].session
                                     /\ cron'[c].generation = cron[c].generation
                                     /\ cron'[c].next = cron[c].next
                    /\ Active(c)' <=> Active(c) /\ c \notin S
  BY DEF WithStatus, CronsKept
<1>1. CASE c \in S
  <2>1. cron'[c] = [cron[c] EXCEPT !.status = st] /\ Active(c)  BY <1>1 DEF WithStatus
  <2>2. cron[c] \in CronRecord /\ Written(c)  BY <2>1, CronFacts
  <2>3. /\ cron'[c] \in CronRecord /\ cron'[c].status = st
        /\ cron'[c].session = cron[c].session /\ cron'[c].next = cron[c].next
        /\ cron'[c].generation = cron[c].generation
    BY <2>1, <2>2 DEF CronRecord
  <2>4. cron'[c] # NotWritten  BY <2>3 DEF NotWritten
  <2> QED  BY <1>1, <2>2, <2>3, <2>4 DEF Active, Written
<1>2. CASE c \notin S
  <2>1. cron'[c] = cron[c]  BY <1>2 DEF WithStatus
  <2> QED  BY <1>2, <2>1 DEF Typed, Active, Written
<1> QED  BY <1>1, <1>2

\* A step that enqueues no reminder: the poll goes on with what it has, or loses it, and
\* with the record it held one write more than there were mishaps.
LEMMA QuietStep ==
  ASSUME CInv, Typed', CronsKept, UNCHANGED fires, now <= now', mishaps <= mishaps',
         \A s \in Conversations : status[s] = "gone" => status'[s] = "gone",
         due' \subseteq due, held' = held \/ (held' = {} /\ mishaps < mishaps'),
         \A c \in due' : Active(c)' \/ status'[SessionOf(c)] = "gone"
  PROVE  DueStays' /\ HeldFresh' /\ SlotsCounted'
<1> USE DEF CInv
<1>0. now \in Nat /\ now' \in Nat /\ mishaps \in Nat /\ mishaps' \in Nat
  BY SessionCronAssumption DEF Typed
<1>1. DueStays'
  <2> SUFFICES ASSUME NEW c \in due'
               PROVE  /\ Written(c)' /\ cron'[c].next <= now'
                      /\ Active(c)' \/ status'[cron'[c].session] = "gone"
    BY DEF DueStays, SessionOf
  <2>1. c \in Crons /\ Written(c) /\ cron[c].next <= now  BY DEF DueStays, Typed
  <2>2. Written(c)' /\ cron'[c].next = cron[c].next /\ cron'[c].session = cron[c].session
    BY <2>1 DEF CronsKept
  <2>3. cron[c].next \in Nat  BY <2>1, CronFacts
  <2> QED  BY <2>1, <2>2, <2>3, <1>0 DEF SessionOf
<1>2. HeldFresh'
  <2>1. \A g, h \in held' : g = h  BY DEF HeldFresh
  <2> SUFFICES ASSUME NEW h \in held'
               PROVE  /\ h.id \notin due' /\ Written(h.id)' /\ h.record.status = "active"
                      /\ h.record.session = cron'[h.id].session
                      /\ h.record.generation = cron'[h.id].generation
                      /\ h.record.next = cron'[h.id].next /\ h.record.next <= now'
                      /\ fires[h.id][h.record.next] > 0
    BY <2>1 DEF HeldFresh, SessionOf
  <2>2. h \in held /\ h.id \in Crons  BY DEF Typed
  <2>3. /\ h.id \notin due /\ Written(h.id) /\ h.record.status = "active"
        /\ h.record.session = SessionOf(h.id) /\ h.record.generation = cron[h.id].generation
        /\ h.record.next = cron[h.id].next /\ h.record.next <= now
        /\ fires[h.id][h.record.next] > 0
    BY <2>2 DEF HeldFresh
  <2>4. h.record.next \in Nat  BY <2>2, <2>3, CronFacts
  <2> QED  BY <2>2, <2>3, <2>4, <1>0 DEF CronsKept, SessionOf
<1>3. SlotsCounted'
  <2> SUFFICES ASSUME NEW c \in Crons, NEW t \in 0..MaxNow
               PROVE  /\ fires[c][t] <= 1 + mishaps'
                      /\ ~Written(c)' => fires[c][t] = 0
                      /\ Written(c)' /\ t > cron'[c].next => fires[c][t] = 0
                      /\ Active(c)' /\ c \notin HeldIds' /\ t = cron'[c].next =>
                           fires[c][t] <= mishaps'
    BY DEF SlotsCounted
  <2>1. /\ fires[c][t] <= 1 + mishaps
        /\ ~Written(c) => fires[c][t] = 0
        /\ Written(c) /\ t > cron[c].next => fires[c][t] = 0
        /\ Active(c) /\ c \notin HeldIds /\ t = cron[c].next => fires[c][t] <= mishaps
    BY DEF SlotsCounted
  <2>2. fires[c][t] \in Nat
    <3>1. fires[c] \in [0..MaxNow -> Nat]  BY DEF Typed
    <3> QED  BY <3>1
  <2>3. Active(c)' => Active(c) /\ Written(c)  BY CronFacts DEF CronsKept
  <2>4. CASE held' = held  BY <2>1, <2>2, <2>3, <2>4, <1>0 DEF CronsKept, HeldIds
  <2>5. CASE mishaps < mishaps'  BY <2>1, <2>2, <2>3, <2>5, <1>0 DEF CronsKept
  <2> QED  BY <2>4, <2>5
<1> QED  BY <1>1, <1>2, <1>3

-----------------------------------------------------------------------------
(* The sessions' steps. *)

\* What is known of a reset that reached the crons S.
LEMMA ResetFilesKeeps ==
  ASSUME CInv, NEW s \in Conversations, NEW S \in SUBSET ActiveOf(s), ResetFiles(s, S)
  PROVE  /\ cron' \in [Crons -> CronRecord \cup {NotWritten}] /\ CronsKept /\ Bindings'
         /\ generation' \in [Conversations -> Generations] /\ reset' \subseteq Crons
         /\ due = {} /\ held = {} /\ UNCHANGED <<now, status, purging, fires, asked>>
<1> USE DEF CInv
<1>1. /\ generation[s] < MaxResets /\ generation' = [generation EXCEPT ![s] = @ + 1]
      /\ cron' = WithStatus(S, "invalidated")
      /\ reset' = reset \cup {c \in Crons : cron[c] # NotWritten /\ cron[c].session = s}
      /\ due = {} /\ held = {} /\ UNCHANGED <<now, status, purging, fires, asked>>
  BY DEF ResetFiles, Idle
<1>2. S \in SUBSET {c \in Crons : Active(c)}  BY DEF ActiveOf
<1>3. cron' \in [Crons -> CronRecord \cup {NotWritten}] /\ CronsKept
  BY <1>1, <1>2, WithStatusKeeps
<1>4. generation[s] + 1 \in Generations
  BY <1>1, SessionCronAssumption DEF Typed, Generations
<1>5. generation' \in [Conversations -> Generations] /\ reset' \subseteq Crons
  BY <1>1, <1>4 DEF Typed
<1>6. Bindings'
  <2> SUFFICES ASSUME NEW c \in Crons
               PROVE  /\ Written(c)' => cron'[c].generation <= generation'[cron'[c].session]
                      /\ c \in reset' => /\ Written(c)'
                                         /\ cron'[c].generation < generation'[cron'[c].session]
    BY DEF Bindings, SessionOf
  <2>1. c \in reset' => Written(c)  BY <1>1 DEF Bindings, Written
  <2> SUFFICES ASSUME Written(c)
               PROVE  /\ cron[c].generation <= generation'[SessionOf(c)]
                      /\ c \in reset' => cron[c].generation < generation'[SessionOf(c)]
    BY <2>1, <1>3 DEF CronsKept, SessionOf
  <2>2. SessionOf(c) \in Conversations /\ cron[c].generation \in Nat  BY CronFacts
  <2>3. /\ cron[c].generation <= generation[SessionOf(c)]
        /\ c \in reset => cron[c].generation < generation[SessionOf(c)]
    BY DEF Bindings
  <2>4. generation[SessionOf(c)] \in Nat
    BY <2>2, SessionCronAssumption DEF Typed, Generations
  <2>5. CASE SessionOf(c) = s
    <3>1. generation'[SessionOf(c)] = generation[SessionOf(c)] + 1
      BY <1>1, <2>2, <2>5 DEF Typed
    <3> QED  BY <3>1, <2>2, <2>3, <2>4
  <2>6. CASE SessionOf(c) # s
    <3>1. generation'[SessionOf(c)] = generation[SessionOf(c)]
      BY <1>1, <2>2, <2>6 DEF Typed
    <3>2. c \in reset' => c \in reset  BY <1>1, <2>6 DEF SessionOf
    <3> QED  BY <3>1, <3>2, <2>3
  <2> QED  BY <2>5, <2>6
<1> QED  BY <1>1, <1>3, <1>5, <1>6

\* The counters that allow for a mishap stay counters.
LEMMA MishapTyped ==
  ASSUME Typed, Mishap
  PROVE  mishaps' \in 0..MaxMishaps /\ mishaps' = mishaps + 1 /\ mishaps < mishaps'
BY SessionCronAssumption DEF Typed, Mishap

\* /reset of the daemon, the record first and then as many of its crons as it reaches.
LEMMA ResetCInv == ASSUME CInv, NEW s \in Conversations, Reset(s) PROVE CInv'
<1> USE DEF CInv
<1>1. /\ \E S \in SUBSET ActiveOf(s) : ResetFiles(s, S)
      /\ mishaps' = mishaps \/ Mishap
  BY DEF Reset
<1>2. PICK S \in SUBSET ActiveOf(s) : ResetFiles(s, S)  BY <1>1
<1>3. /\ cron' \in [Crons -> CronRecord \cup {NotWritten}] /\ CronsKept /\ Bindings'
      /\ generation' \in [Conversations -> Generations] /\ reset' \subseteq Crons
      /\ due = {} /\ held = {} /\ UNCHANGED <<now, status, purging, fires, asked>>
  BY <1>2, ResetFilesKeeps
<1>4. UNCHANGED <<jobs, run, due, held>>  BY DEF Reset, queue, polling
<1>5. mishaps' \in 0..MaxMishaps /\ mishaps <= mishaps'
  BY <1>1, MishapTyped, SessionCronAssumption DEF Typed
<1>6. Typed'  BY <1>3, <1>4, <1>5 DEF Typed
<1>7. now <= now'  BY <1>3, SessionCronAssumption DEF Typed
<1>8. DueStays' /\ HeldFresh' /\ SlotsCounted'
  BY <1>3, <1>4, <1>5, <1>6, <1>7, QuietStep
<1> QED  BY <1>3, <1>6, <1>8 DEF PurgedAreGone

\* The daemon dies and starts again, in the middle of a reset or of anything else.
LEMMA CrashCInv ==
  ASSUME CInv, Restart,
         \/ UNCHANGED <<now, files, purging, history>>
         \/ \E s \in Conversations : \E S \in SUBSET ActiveOf(s) : ResetFiles(s, S)
  PROVE  CInv'
<1> USE DEF CInv
<1>1. /\ cron' \in [Crons -> CronRecord \cup {NotWritten}] /\ CronsKept /\ Bindings'
      /\ generation' \in [Conversations -> Generations] /\ reset' \subseteq Crons
      /\ UNCHANGED <<now, status, purging, fires, asked>>
  <2>1. CASE UNCHANGED <<now, files, purging, history>>
    BY <2>1 DEF files, history, CronsKept, Bindings, Typed, Written, Active, SessionOf
  <2>2. CASE \E s \in Conversations : \E S \in SUBSET ActiveOf(s) : ResetFiles(s, S)
    BY <2>2, ResetFilesKeeps
  <2> QED  BY <2>1, <2>2
<1>2. /\ mishaps' \in 0..MaxMishaps /\ mishaps < mishaps' /\ mishaps <= mishaps'
      /\ due' = {} /\ held' = {}
  BY MishapTyped, SessionCronAssumption DEF Restart, Typed
<1>3. jobs' \in [Conversations -> Nat] /\ run' \in [Conversations -> Generations \cup {NoRun}]
  BY DEF Restart, Typed
<1>4. Typed'  BY <1>1, <1>2, <1>3 DEF Typed
<1>5. now <= now'  BY <1>1, SessionCronAssumption DEF Typed
<1>6. DueStays' /\ HeldFresh' /\ SlotsCounted'
  BY <1>1, <1>2, <1>4, <1>5, QuietStep
<1> QED  BY <1>1, <1>4, <1>6 DEF PurgedAreGone

\* The steps that change no generation and no cron's file beyond its status: the CLI's,
\* the clock's and the queue's.
LEMMA OutsideStep ==
  ASSUME CInv, Typed', CronsKept, UNCHANGED <<generation, polling, mishaps, fires, reset>>,
         now <= now', PurgedAreGone',
         \A s \in Conversations : status[s] = "gone" => status'[s] = "gone",
         \A c \in due : Active(c) => Active(c)' \/ status'[SessionOf(c)] = "gone"
  PROVE  CInv'
<1> USE DEF CInv
<1>1. Bindings'  BY DEF Bindings, CronsKept, SessionOf, Typed
<1>2. \A c \in due : Active(c)' \/ status'[SessionOf(c)] = "gone"
  <2> SUFFICES ASSUME NEW c \in due PROVE Active(c)' \/ status'[SessionOf(c)] = "gone"
    OBVIOUS
  <2>1. Active(c) \/ status[SessionOf(c)] = "gone"  BY DEF DueStays
  <2>2. SessionOf(c) \in Conversations  BY CronFacts DEF DueStays, Typed
  <2> QED  BY <2>1, <2>2
<1>3. mishaps <= mishaps' /\ due' = due /\ held' = held
  BY SessionCronAssumption DEF Typed, polling
<1>4. DueStays' /\ HeldFresh' /\ SlotsCounted'  BY <1>2, <1>3, QuietStep
<1> QED  BY <1>1, <1>4

\* A step that leaves the store of crons alone keeps every cron.
LEMMA Unwritten == cron' = cron => CronsKept
BY DEF CronsKept, Written, Active

\* session create and session remove, and the record's part of a purge: a session that is
\* gone stays gone.
LEMMA SessionCInv ==
  ASSUME CInv, NEW s \in Conversations, CreateSession(s) \/ RemoveSession(s) \/ PurgeSession(s)
  PROVE  CInv'
<1> USE DEF CInv
<1>1. /\ status[s] # "gone" /\ \E st \in {"active", "gone"} : status' = [status EXCEPT ![s] = st]
      /\ \/ purging' = purging
         \/ purging' = purging \cup {s} /\ status'[s] = "gone"
      /\ UNCHANGED <<now, generation, cron, queue, polling, mishaps, history>>
  BY DEF CreateSession, RemoveSession, PurgeSession, Typed
<1>2. \A r \in Conversations : status[r] = "gone" => status'[r] = "gone"  BY <1>1 DEF Typed
<1>3. Typed'  BY <1>1 DEF Typed, queue, polling, history
<1>4. PurgedAreGone'  BY <1>1, <1>2 DEF PurgedAreGone, Typed
<1>5. CronsKept  BY <1>1, Unwritten
<1>6. now <= now'  BY <1>1, SessionCronAssumption DEF Typed
<1>7. \A c \in due : Active(c) => Active(c)'  BY <1>1 DEF Active
<1> QED  BY <1>1, <1>2, <1>3, <1>4, <1>5, <1>6, <1>7, OutsideStep DEF history

\* The crons' part of a purge, at any point of a poll: the session is gone already.
LEMMA InvalidateCInv == ASSUME CInv, NEW s \in Conversations, InvalidateCrons(s) PROVE CInv'
<1> USE DEF CInv
<1>1. /\ s \in purging /\ purging' = purging \ {s}
      /\ cron' = WithStatus(ActiveOf(s), "invalidated")
      /\ UNCHANGED <<now, status, generation, queue, polling, mishaps, history>>
  BY DEF InvalidateCrons
<1>2. ActiveOf(s) \in SUBSET {c \in Crons : Active(c)}  BY DEF ActiveOf
<1>3. /\ cron' \in [Crons -> CronRecord \cup {NotWritten}] /\ CronsKept
      /\ \A c \in Crons : Active(c)' <=> Active(c) /\ c \notin ActiveOf(s)
  BY <1>1, <1>2, WithStatusKeeps
<1>4. Typed'  BY <1>1, <1>3 DEF Typed, queue, polling, history
<1>5. PurgedAreGone'  BY <1>1 DEF PurgedAreGone
<1>6. now <= now'  BY <1>1, SessionCronAssumption DEF Typed
<1>7. \A c \in due : Active(c) => Active(c)' \/ status'[SessionOf(c)] = "gone"
  BY <1>1, <1>3 DEF ActiveOf, SessionOf, PurgedAreGone, Typed
<1> QED  BY <1>1, <1>3, <1>4, <1>5, <1>6, <1>7, OutsideStep DEF history

\* Time, an enqueued message and the start of a job touch no cron.
LEMMA NoCronCInv ==
  ASSUME CInv, Tick \/ \E s \in Conversations : Message(s) \/ StartJob(s)
  PROVE  CInv'
<1> USE DEF CInv
<1>1. /\ now' \in 0..MaxNow /\ now <= now'
      /\ UNCHANGED <<files, polling, purging, mishaps, history>>
  BY SessionCronAssumption DEF Tick, Message, StartJob, Typed
<1>2. jobs' \in [Conversations -> Nat] /\ run' \in [Conversations -> Generations \cup {NoRun}]
  <2>1. CASE Tick  BY <2>1 DEF Tick, Typed, queue
  <2>2. ASSUME NEW s \in Conversations, Message(s)
        PROVE  jobs' \in [Conversations -> Nat] /\ run' \in [Conversations -> Generations \cup {NoRun}]
    BY <2>2 DEF Message, Typed
  <2>3. ASSUME NEW s \in Conversations, StartJob(s)
        PROVE  jobs' \in [Conversations -> Nat] /\ run' \in [Conversations -> Generations \cup {NoRun}]
    <3>1. jobs[s] \in Nat /\ jobs[s] > 0 /\ jobs' = [jobs EXCEPT ![s] = @ - 1]
      BY <2>3 DEF StartJob, Typed
    <3>2. run' = run \/ run' = [run EXCEPT ![s] = generation[s]]  BY <2>3 DEF StartJob
    <3>3. jobs[s] - 1 \in Nat  BY <3>1
    <3>4. jobs' \in [Conversations -> Nat]  BY <3>1, <3>3 DEF Typed
    <3>5. run' \in [Conversations -> Generations \cup {NoRun}]  BY <3>2 DEF Typed
    <3> QED  BY <3>4, <3>5
  <2> QED  BY <2>1, <2>2, <2>3
<1>3. Typed'  BY <1>1, <1>2 DEF Typed, files, polling, history
<1>4. CronsKept /\ \A c \in due : Active(c) => Active(c)'
  BY <1>1, Unwritten DEF files, Active
<1>5. PurgedAreGone'  BY <1>1 DEF PurgedAreGone, files
<1> QED  BY <1>1, <1>3, <1>4, <1>5, OutsideStep DEF files, history

-----------------------------------------------------------------------------
(* The ends of jobs, and their cron actions. *)

\* cron_create: a new file, bound to the generation the session has now (cron-store.ts).
LEMMA CreateCronCInv ==
  ASSUME CInv, NEW s \in Conversations, NEW c \in Crons, CreateCron(s, c), run[s] # NoRun,
         run' = [run EXCEPT ![s] = NoRun],
         due = {}, held = {},
         UNCHANGED <<now, status, generation, jobs, polling, purging, mishaps, fires, reset>>
  PROVE  CInv'
<1> USE DEF CInv
<1>1. PICK next \in {now, now + 1} : cron' = [cron EXCEPT ![c] =
         [status |-> "active", session |-> s, generation |-> generation[s], next |-> next]]
  BY DEF CreateCron
<1>2. ~Written(c) /\ asked' = [asked EXCEPT ![c] = run[s]]  BY DEF CreateCron, Written
<1>3. now \in Nat /\ next \in 0..(MaxNow + 1)  BY SessionCronAssumption DEF Typed
<1> DEFINE r == [status |-> "active", session |-> s, generation |-> generation[s], next |-> next]
<1>4. r \in CronRecord /\ r # NotWritten  BY <1>3 DEF CronRecord, Typed, NotWritten
<1>5. /\ cron' \in [Crons -> CronRecord \cup {NotWritten}] /\ cron'[c] = r
      /\ \A d \in Crons : d # c => cron'[d] = cron[d]
  BY <1>1, <1>4 DEF Typed
<1>6. run[s] \in Generations  BY DEF Typed
<1>7. Typed'
  <2>1. run' \in [Conversations -> Generations \cup {NoRun}]  BY DEF Typed
  <2>2. asked' \in [Crons -> Generations]  BY <1>2, <1>6 DEF Typed
  <2> QED  BY <1>5, <2>1, <2>2 DEF Typed, polling
<1>8. Bindings'
  <2> SUFFICES ASSUME NEW d \in Crons
               PROVE  /\ Written(d)' => cron'[d].generation <= generation[cron'[d].session]
                      /\ d \in reset => /\ Written(d)'
                                        /\ cron'[d].generation < generation[cron'[d].session]
    BY DEF Bindings, SessionOf
  <2>1. CASE d = c
    <3>1. d \notin reset  BY <2>1, <1>2 DEF Bindings
    <3>2. generation[s] <= generation[s]
      BY SessionCronAssumption DEF Typed, Generations
    <3> QED  BY <2>1, <3>1, <3>2, <1>5
  <2>2. CASE d # c  BY <2>2, <1>5 DEF Bindings, Written, SessionOf
  <2> QED  BY <2>1, <2>2
<1>9. DueStays' /\ HeldFresh'  BY DEF DueStays, HeldFresh, polling
<1>10. SlotsCounted'
  <2> SUFFICES ASSUME NEW d \in Crons, NEW t \in 0..MaxNow
               PROVE  /\ fires[d][t] <= 1 + mishaps
                      /\ ~Written(d)' => fires[d][t] = 0
                      /\ Written(d)' /\ t > cron'[d].next => fires[d][t] = 0
                      /\ Active(d)' /\ d \notin HeldIds' /\ t = cron'[d].next =>
                           fires[d][t] <= mishaps
    BY DEF SlotsCounted
  <2>1. /\ fires[d][t] <= 1 + mishaps
        /\ ~Written(d) => fires[d][t] = 0
        /\ Written(d) /\ t > cron[d].next => fires[d][t] = 0
        /\ Active(d) /\ d \notin HeldIds /\ t = cron[d].next => fires[d][t] <= mishaps
    BY DEF SlotsCounted
  <2>2. CASE d = c
    <3>1. fires[d][t] = 0  BY <2>1, <2>2, <1>2
    <3>2. 0 <= mishaps  BY SessionCronAssumption DEF Typed
    <3> QED  BY <2>1, <3>1, <3>2
  <2>3. CASE d # c
    <3>1. cron'[d] = cron[d] /\ HeldIds' = HeldIds  BY <2>3, <1>5 DEF HeldIds, polling
    <3> QED  BY ONLY <2>1, <3>1 DEF Written, Active
  <2> QED  BY <2>2, <2>3
<1> QED  BY <1>7, <1>8, <1>9, <1>10 DEF PurgedAreGone

\* runJob's end: no cron action, or a cron_create, or a cron_cancel.
LEMMA EndJobCInv == ASSUME CInv, NEW s \in Conversations, EndJob(s) PROVE CInv'
<1> USE DEF CInv
<1>1. /\ due = {} /\ held = {} /\ run[s] # NoRun /\ run' = [run EXCEPT ![s] = NoRun]
      /\ UNCHANGED <<now, status, generation, jobs, polling, purging, mishaps, fires, reset>>
  BY DEF EndJob, Idle
<1>2. \/ UNCHANGED <<cron, asked>>
      \/ \E c \in Crons : CreateCron(s, c)
      \/ \E c \in Crons : CancelCron(s, c)
  BY DEF EndJob
<1>3. now <= now' /\ PurgedAreGone' /\ run' \in [Conversations -> Generations \cup {NoRun}]
  BY <1>1, SessionCronAssumption DEF Typed, PurgedAreGone
<1>4. CASE UNCHANGED <<cron, asked>>
  <2>1. Typed' /\ CronsKept  BY <1>1, <1>3, <1>4, Unwritten DEF Typed, polling
  <2> QED  BY <2>1, <1>1, <1>3, OutsideStep
<1>5. CASE \E c \in Crons : CreateCron(s, c)  BY <1>1, <1>5, CreateCronCInv
<1>6. ASSUME NEW c \in Crons, CancelCron(s, c) PROVE CInv'
  <2>1. {c} \cap ActiveOf(s) \in SUBSET {d \in Crons : Active(d)}  BY DEF ActiveOf
  <2>2. cron' = WithStatus({c} \cap ActiveOf(s), "canceled") /\ asked' = asked
    BY <1>6 DEF CancelCron
  <2>3. cron' \in [Crons -> CronRecord \cup {NotWritten}] /\ CronsKept
    BY <2>1, <2>2, WithStatusKeeps
  <2>4. Typed'  BY <1>1, <1>3, <2>2, <2>3 DEF Typed, polling
  <2> QED  BY <2>3, <2>4, <1>1, <1>3, OutsideStep
<1> QED  BY <1>2, <1>4, <1>5, <1>6

-----------------------------------------------------------------------------
(* The poll. *)

\* listDueCrons: what it returns is active and due.
LEMMA ListDueCInv == CInv /\ ListDue => CInv'
<1> SUFFICES ASSUME CInv, ListDue PROVE CInv'
  OBVIOUS
<1> USE DEF CInv
<1>1. /\ due' = {c \in Crons : Active(c) /\ cron[c].next <= now} /\ held = {}
      /\ UNCHANGED <<now, files, queue, held, purging, mishaps, history>>
  BY DEF ListDue, DueNow, Idle
<1>2. Typed'  BY <1>1 DEF Typed, files, queue, history
<1>3. PurgedAreGone' /\ Bindings'
  BY <1>1 DEF PurgedAreGone, Bindings, Written, SessionOf, files, history
<1>4. DueStays'  BY <1>1, CronFacts DEF DueStays, Written, SessionOf, Active, files
<1>5. HeldFresh'  BY <1>1 DEF HeldFresh
<1>6. SlotsCounted'
  BY <1>1 DEF SlotsCounted, Written, Active, HeldIds, files, history
<1> QED  BY <1>2, <1>3, <1>4, <1>5, <1>6

\* A cron on the poll's list that is bound to a live session is active.
LEMMA BoundIsActive ==
  ASSUME CInv, NEW c \in due, Bound(c)
  PROVE  Active(c) /\ c \notin reset
<1> USE DEF CInv
<1>1. Active(c)  BY DEF DueStays, Bound, SessionOf
<1>2. c \notin reset
  <2> SUFFICES ASSUME c \in reset PROVE FALSE
    OBVIOUS
  <2>1. /\ cron[c].generation < generation[SessionOf(c)]
        /\ generation[SessionOf(c)] = cron[c].generation
    BY DEF Bindings, Bound, SessionOf, Typed
  <2>2. c \in Crons /\ Written(c)  BY DEF Bindings, Typed
  <2>3. cron[c].generation \in Nat  BY <2>2, CronFacts
  <2> QED  BY <2>1, <2>3
<1> QED  BY <1>1, <1>2

\* What the poll does with a cron it can enqueue (processDueCrons).
FiredBy(c) ==
  /\ Bound(c) /\ jobs' = [jobs EXCEPT ![cron[c].session] = @ + 1]
  /\ fires' = [fires EXCEPT ![c][cron[c].next] = @ + 1]
  /\ held' = {[id |-> c, record |-> cron[c]]} /\ UNCHANGED cron

\* The poll firing a slot keeps the invariant: a cron is not queued twice for one slot.
LEMMA FireCInv ==
  ASSUME CInv, NEW c \in due, held = {}, due' = due \ {c}, FiredBy(c),
         UNCHANGED <<now, status, generation, run, purging, mishaps, asked, reset>>
  PROVE  CInv'
<1> USE DEF CInv
<1>1. /\ c \in Crons /\ Active(c) /\ Written(c) /\ cron[c] \in CronRecord
      /\ SessionOf(c) \in Conversations /\ cron[c].next <= now
  BY BoundIsActive, CronFacts DEF FiredBy, DueStays, Typed
<1>2. cron[c].next \in 0..MaxNow
  <2>1. cron[c].next \in 0..(MaxNow + 1)  BY <1>1, CronFacts
  <2> QED  BY <2>1, <1>1, SessionCronAssumption DEF Typed
<1> DEFINE n == cron[c].next
<1>3. /\ fires[c] \in [0..MaxNow -> Nat] /\ fires[c][n] \in Nat
      /\ fires' = [fires EXCEPT ![c] = [fires[c] EXCEPT ![n] = fires[c][n] + 1]]
  BY <1>1, <1>2 DEF FiredBy, Typed
<1>4. /\ fires' \in [Crons -> [0..MaxNow -> Nat]]
      /\ fires'[c][n] = fires[c][n] + 1
      /\ \A d \in Crons, t \in 0..MaxNow : d # c \/ t # n => fires'[d][t] = fires[d][t]
  <2>1. [fires[c] EXCEPT ![n] = fires[c][n] + 1] \in [0..MaxNow -> Nat]  BY <1>2, <1>3
  <2> QED  BY <2>1, <1>1, <1>2, <1>3 DEF Typed
<1>5. Typed'
  <2>1. jobs' \in [Conversations -> Nat]
    <3>1. jobs[SessionOf(c)] + 1 \in Nat  BY <1>1 DEF Typed
    <3> QED  BY <3>1, <1>1 DEF FiredBy, SessionOf, Typed
  <2>2. held' \subseteq [id : Crons, record : CronRecord]  BY <1>1 DEF FiredBy
  <2> QED  BY <2>1, <2>2, <1>4 DEF Typed, FiredBy
<1>6. Bindings' /\ PurgedAreGone'
  BY DEF FiredBy, Bindings, PurgedAreGone, Written, SessionOf
<1>7. DueStays'  BY DEF DueStays, FiredBy, Written, SessionOf, Active
<1>8. HeldFresh'
  <2>1. /\ held' = {[id |-> c, record |-> cron[c]]} /\ cron' = cron /\ c \notin due'
        /\ cron[c].status = "active" /\ cron[c].next <= now /\ now' = now
        /\ fires'[c][cron[c].next] > 0
    BY <1>1, <1>3, <1>4 DEF FiredBy, Active
  <2> QED  BY <2>1, <1>1 DEF HeldFresh, Written, SessionOf
<1>9. SlotsCounted'
  <2> SUFFICES ASSUME NEW d \in Crons, NEW t \in 0..MaxNow
               PROVE  /\ fires'[d][t] <= 1 + mishaps
                      /\ ~Written(d) => fires'[d][t] = 0
                      /\ Written(d) /\ t > cron[d].next => fires'[d][t] = 0
                      /\ Active(d) /\ d \notin HeldIds' /\ t = cron[d].next =>
                           fires'[d][t] <= mishaps
    BY DEF SlotsCounted, Written, Active, FiredBy
  <2>1. /\ fires[d][t] <= 1 + mishaps
        /\ ~Written(d) => fires[d][t] = 0
        /\ Written(d) /\ t > cron[d].next => fires[d][t] = 0
        /\ Active(d) /\ d \notin HeldIds /\ t = cron[d].next => fires[d][t] <= mishaps
    BY DEF SlotsCounted
  <2>2. HeldIds = {} /\ HeldIds' = {c}  BY DEF HeldIds, FiredBy
  <2>3. CASE d = c /\ t = n
    <3>1. fires[d][t] <= mishaps  BY <2>1, <2>2, <2>3, <1>1
    <3>2. mishaps \in Nat  BY SessionCronAssumption DEF Typed
    <3>3. n \in Nat /\ ~(n > n)  BY <1>2
    <3> QED  BY <3>1, <3>2, <3>3, <2>2, <2>3, <1>1, <1>3, <1>4
  <2>4. CASE d # c \/ t # n
    <3>1. fires'[d][t] = fires[d][t]  BY <2>4, <1>4
    <3>2. CASE d = c  BY <3>1, <3>2, <2>1, <2>2
    <3>3. CASE d # c  BY <3>1, <3>3, <2>1, <2>2
    <3> QED  BY <3>2, <3>3
  <2> QED  BY <2>3, <2>4
<1> QED  BY <1>5, <1>6, <1>7, <1>8, <1>9

\* A cron that cannot be enqueued now, the queue being full, or ever.
LEMMA PollCInv == ASSUME CInv, NEW c \in Crons, Poll(c) PROVE CInv'
<1> USE DEF CInv
<1>1. /\ c \in due /\ held = {} /\ due' = due \ {c}
      /\ UNCHANGED <<now, status, generation, run, purging, mishaps, asked, reset>>
  BY DEF Poll
<1>2. /\ now <= now' /\ mishaps <= mishaps'
      /\ \A s \in Conversations : status[s] = "gone" => status'[s] = "gone"
  BY <1>1, SessionCronAssumption DEF Typed
<1>3. CASE FiredBy(c)  BY <1>1, <1>3, FireCInv
<1>4. CASE UNCHANGED <<jobs, fires, held>> /\ (UNCHANGED cron \/ cron' = Retired(c))
  <2>1. {c} \cap {d \in Crons : Active(d)} \in SUBSET {d \in Crons : Active(d)}
    OBVIOUS
  <2>2. /\ cron' \in [Crons -> CronRecord \cup {NotWritten}] /\ CronsKept
        /\ \A d \in due' : Active(d) => Active(d)'
    <3>1. CASE UNCHANGED cron  BY <3>1, Unwritten DEF Typed, Active
    <3>2. CASE cron' = Retired(c)
      <4>1. cron' = WithStatus({c} \cap {d \in Crons : Active(d)}, "invalidated")
        BY <3>2 DEF Retired
      <4>2. /\ cron' \in [Crons -> CronRecord \cup {NotWritten}] /\ CronsKept
            /\ \A d \in Crons : Active(d)' <=>
                 Active(d) /\ d \notin {c} \cap {e \in Crons : Active(e)}
        BY <2>1, <4>1, WithStatusKeeps
      <4>3. \A d \in due' : d \in Crons /\ d # c  BY <1>1 DEF Typed
      <4> QED  BY <4>2, <4>3
    <3> QED  BY <1>4, <3>1, <3>2
  <2>3. Typed'  BY <1>1, <1>4, <2>2 DEF Typed
  <2>4. \A d \in due' : Active(d)' \/ status'[SessionOf(d)] = "gone"
    BY <1>1, <2>2 DEF DueStays
  <2>5. DueStays' /\ HeldFresh' /\ SlotsCounted'
    BY <1>1, <1>2, <1>4, <2>2, <2>3, <2>4, QuietStep
  <2>6. Bindings'
    BY <1>1, <2>2 DEF Bindings, CronsKept, SessionOf
  <2> QED  BY <1>1, <2>3, <2>5, <2>6 DEF PurgedAreGone
<1> QED  BY <1>3, <1>4 DEF Poll, Enqueue, FiredBy

\* The write that follows: a once cron is completed, a daily one goes to a slot to come,
\* and a purge that came in between is undone; or the write is lost.
LEMMA WriteBackCInv == CInv /\ WriteBack => CInv'
<1> SUFFICES ASSUME CInv, WriteBack PROVE CInv'
  OBVIOUS
<1> USE DEF CInv
<1>1. PICK h \in held : \/ cron' = [cron EXCEPT ![h.id] = Triggered(h)] /\ mishaps' = mishaps
                        \/ cron' = cron /\ Mishap
  BY DEF WriteBack
<1>2. /\ held' = {} /\ UNCHANGED <<now, status, generation, queue, due, purging, history>>
  BY DEF WriteBack
<1>3. now <= now'  BY <1>2, SessionCronAssumption DEF Typed
<1>4. PurgedAreGone'  BY <1>2 DEF PurgedAreGone
<1>5. CASE cron' = cron /\ Mishap
  <2>1. mishaps' \in 0..MaxMishaps /\ mishaps < mishaps' /\ mishaps <= mishaps'
    BY <1>5, MishapTyped, SessionCronAssumption DEF Typed
  <2>2. Typed' /\ CronsKept  BY <1>2, <1>5, <2>1, Unwritten DEF Typed, queue, history
  <2>3. \A d \in due' : Active(d)' \/ status'[SessionOf(d)] = "gone"
    BY <1>2, <1>5 DEF DueStays, Active
  <2>4. DueStays' /\ HeldFresh' /\ SlotsCounted'
    BY <1>2, <1>3, <2>1, <2>2, <2>3, QuietStep DEF history
  <2>5. Bindings'  BY <1>2, <1>5 DEF Bindings, Written, SessionOf, history
  <2> QED  BY <1>4, <2>2, <2>4, <2>5
<1>6. CASE cron' = [cron EXCEPT ![h.id] = Triggered(h)] /\ mishaps' = mishaps
  <2> DEFINE c == h.id
  <2>1. c \in Crons /\ h.record \in CronRecord  BY DEF Typed
  <2>2. /\ c \notin due /\ Written(c) /\ h.record.session = SessionOf(c)
        /\ h.record.generation = cron[c].generation /\ h.record.next = cron[c].next
        /\ h.record.next <= now /\ fires[c][h.record.next] > 0 /\ HeldIds = {c}
    BY DEF HeldFresh, HeldIds
  <2>3. now \in Nat /\ h.record.next \in Nat /\ now + 1 \in 0..(MaxNow + 1)
    BY <2>1, SessionCronAssumption DEF Typed, CronRecord
  <2>4. /\ Triggered(h) \in CronRecord /\ Triggered(h) # NotWritten
        /\ Triggered(h).session = h.record.session
        /\ Triggered(h).generation = h.record.generation
        /\ \/ Triggered(h).status = "completed" /\ Triggered(h).next = h.record.next
           \/ Triggered(h).next = now + 1
    BY <2>1, <2>3 DEF Triggered, CronRecord, NotWritten
  <2>5. /\ cron' \in [Crons -> CronRecord \cup {NotWritten}] /\ cron'[c] = Triggered(h)
        /\ \A d \in Crons : d # c => cron'[d] = cron[d]
    BY <1>6, <2>1, <2>4 DEF Typed
  <2>6. Typed'  BY <1>2, <1>6, <2>5 DEF Typed, queue, history
  <2>7. Bindings'
    <3> SUFFICES ASSUME NEW d \in Crons
                 PROVE  /\ Written(d)' => cron'[d].generation <= generation[cron'[d].session]
                        /\ d \in reset => /\ Written(d)'
                                          /\ cron'[d].generation < generation[cron'[d].session]
      BY <1>2 DEF Bindings, SessionOf, history
    <3>1. /\ Written(d) => cron[d].generation <= generation[SessionOf(d)]
          /\ d \in reset => Written(d) /\ cron[d].generation < generation[SessionOf(d)]
      BY DEF Bindings
    <3>2. CASE d = c
      <4>1. /\ Written(d)' /\ Written(d) /\ cron'[d].generation = cron[d].generation
            /\ cron'[d].session = SessionOf(d)
        BY <3>2, <2>2, <2>4, <2>5 DEF Written
      <4> QED  BY <4>1, <3>1
    <3>3. CASE d # c  BY <3>1, <3>3, <2>5 DEF Written, SessionOf
    <3> QED  BY <3>2, <3>3
  <2>8. DueStays'
    <3>1. \A d \in due : cron'[d] = cron[d]  BY <2>2, <2>5 DEF Typed
    <3> QED  BY <3>1, <1>2 DEF DueStays, Written, Active, SessionOf
  <2>9. HeldFresh'  BY <1>2 DEF HeldFresh
  <2>10. SlotsCounted'
    <3> SUFFICES ASSUME NEW d \in Crons, NEW t \in 0..MaxNow
                 PROVE  /\ fires[d][t] <= 1 + mishaps
                        /\ ~Written(d)' => fires[d][t] = 0
                        /\ Written(d)' /\ t > cron'[d].next => fires[d][t] = 0
                        /\ Active(d)' /\ d \notin HeldIds' /\ t = cron'[d].next =>
                             fires[d][t] <= mishaps
      BY <1>2, <1>6 DEF SlotsCounted, history
    <3>1. /\ fires[d][t] <= 1 + mishaps
          /\ ~Written(d) => fires[d][t] = 0
          /\ Written(d) /\ t > cron[d].next => fires[d][t] = 0
          /\ Active(d) /\ d \notin HeldIds /\ t = cron[d].next => fires[d][t] <= mishaps
      BY DEF SlotsCounted
    <3>2. CASE d # c
      <4>1. cron'[d] = cron[d] /\ d \notin HeldIds  BY <3>2, <2>2, <2>5
      <4> QED  BY <3>1, <4>1 DEF Written, Active
    <3>3. CASE d = c /\ Triggered(h).status = "completed" /\ Triggered(h).next = h.record.next
      <4>1. ~Active(d)' /\ Written(d)' /\ Written(d) /\ cron'[d].next = cron[d].next
        BY <3>3, <2>2, <2>4, <2>5 DEF Active, Written
      <4> QED  BY <3>1, <4>1
    <3>4. CASE d = c /\ Triggered(h).next = now + 1
      <4>1. Written(d)' /\ Written(d) /\ cron'[d].next = now + 1 /\ cron[d].next <= now
        BY <3>4, <2>2, <2>4, <2>5 DEF Written
      <4>2. cron[d].next \in Nat /\ mishaps \in Nat /\ 0 <= mishaps
        BY <3>4, <2>2, <2>3, SessionCronAssumption DEF Typed
      <4>3. t >= now + 1 => t > cron[d].next  BY <4>1, <4>2, <2>3
      <4>4. t >= now + 1 => fires[d][t] = 0  BY <3>1, <4>1, <4>3
      <4>5. t > now + 1 \/ t = now + 1 => t >= now + 1  BY <2>3
      <4> QED  BY <3>1, <4>1, <4>2, <4>4, <4>5
    <3> QED  BY <3>2, <3>3, <3>4, <2>4
  <2> QED  BY <1>4, <2>6, <2>7, <2>8, <2>9, <2>10
<1> QED  BY <1>1, <1>5, <1>6

-----------------------------------------------------------------------------
(* Every step keeps the invariant. *)

\* A home with no session and no cron satisfies it.
LEMMA InitCInv == Init => CInv
<1> SUFFICES ASSUME Init PROVE CInv
  OBVIOUS
<1> USE DEF Init
<1>1. Typed  BY SessionCronAssumption DEF Typed, Generations, NoRun
<1>2. PurgedAreGone /\ DueStays /\ HeldFresh
  BY DEF PurgedAreGone, DueStays, HeldFresh
<1>3. \A c \in Crons : ~Written(c) /\ ~Active(c)  BY DEF Written, Active, NotWritten
<1>4. Bindings  BY <1>3 DEF Bindings
<1>5. SlotsCounted  BY <1>3 DEF SlotsCounted
<1> QED  BY <1>1, <1>2, <1>4, <1>5 DEF CInv

\* Every step of the daemon, the tools and the sessions keeps it.
LEMMA NextCInv == CInv /\ [Next]_vars => CInv'
<1> SUFFICES ASSUME CInv, [Next]_vars PROVE CInv'
  OBVIOUS
<1>1. CASE Tick  BY <1>1, NoCronCInv
<1>2. CASE Crash  BY <1>2, CrashCInv DEF Crash
<1>3. CASE ListDue  BY <1>3, ListDueCInv
<1>4. CASE WriteBack  BY <1>4, WriteBackCInv
<1>5. ASSUME NEW c \in Crons, Poll(c) PROVE CInv'  BY <1>5, PollCInv
<1>6. ASSUME NEW s \in Conversations, CreateSession(s) \/ RemoveSession(s) \/ PurgeSession(s)
      PROVE  CInv'
  BY <1>6, SessionCInv
<1>7. ASSUME NEW s \in Conversations, Reset(s) PROVE CInv'  BY <1>7, ResetCInv
<1>8. ASSUME NEW s \in Conversations, CrashInReset(s) PROVE CInv'
  BY <1>8, CrashCInv DEF CrashInReset
<1>9. ASSUME NEW s \in Conversations, InvalidateCrons(s) PROVE CInv'  BY <1>9, InvalidateCInv
<1>10. ASSUME NEW s \in Conversations, Message(s) \/ StartJob(s) PROVE CInv'  BY <1>10, NoCronCInv
<1>11. ASSUME NEW s \in Conversations, EndJob(s) PROVE CInv'  BY <1>11, EndJobCInv
<1>12. CASE UNCHANGED vars
  <2> USE <1>12 DEF vars, files, queue, polling, history
  <2>1. Typed' /\ PurgedAreGone' /\ HeldFresh'
    BY DEF CInv, Typed, PurgedAreGone, HeldFresh, Written, SessionOf
  <2>2. Bindings' /\ DueStays' /\ SlotsCounted'
    BY DEF CInv, Bindings, DueStays, SlotsCounted, Written, Active, SessionOf, HeldIds
  <2> QED  BY <2>1, <2>2 DEF CInv
<1> QED
  BY <1>1, <1>2, <1>3, <1>4, <1>5, <1>6, <1>7, <1>8, <1>9, <1>10, <1>11, <1>12 DEF Next

\* It holds in every state.
LEMMA Invariance == Spec => []CInv
<1>1. Init => CInv  BY InitCInv
<1>2. CInv /\ [Next]_vars => CInv'  BY NextCInv
<1> QED  BY <1>1, <1>2, PTL DEF Spec

-----------------------------------------------------------------------------
(* What it is for. *)

\* Whatever crashes, faults, purges and resets come between the steps of a poll, a slot
\* of a reminder is enqueued once, and once more at most for each mishap.
THEOREM SlotsFireOnce == Spec => []OncePerSlot
<1>1. CInv => OncePerSlot  BY DEF CInv, SlotsCounted, OncePerSlot
<1> QED  BY <1>1, Invariance, PTL

\* The only steps in which a reminder fires are the poll's with a cron bound to a session
\* that lives, in the generation the cron was written in (processDueCrons).
LEMMA OnlyThePollFires ==
  ASSUME CInv, [Next]_vars, NEW c \in Crons, fires'[c] # fires[c]
  PROVE  c \in due /\ Bound(c)
<1>1. PICK d \in Crons : Poll(d)
  <2>1. fires' # fires  OBVIOUS
  <2> QED
    BY <2>1 DEF Next, vars, history, Tick, Crash, ListDue, WriteBack, CreateSession, Reset,
      ResetFiles, CrashInReset, RemoveSession, PurgeSession, InvalidateCrons, Message,
      StartJob, EndJob
<1>2. d \in due /\ Bound(d) /\ fires' = [fires EXCEPT ![d][cron[d].next] = @ + 1]
  BY <1>1 DEF Poll, Enqueue
<1>3. c = d  BY <1>2 DEF CInv, Typed
<1> QED  BY <1>2, <1>3

\* A reminder from before a reset of its session, a canceled one, and one of a session that
\* is gone do not fire, also where the reset broke off before it came to the cron, or the
\* poll had listed the cron before its session was purged.
THEOREM DeadCronsAreSilent == Spec => OnlyLiveCronsFire
<1> DEFINE Live == \A c \in Crons : Fires(c) =>
                     /\ c \notin reset /\ Active(c)
                     /\ status[cron[c].session] = "active"
<1>1. CInv /\ [Next]_vars => Live
  BY OnlyThePollFires, BoundIsActive DEF Fires, Bound
<1>2. CInv /\ [Next]_vars => [Live]_vars  BY <1>1
<1> QED  BY <1>2, Invariance, PTL DEF Spec, OnlyLiveCronsFire

\* Of the cron c: no slot is passed and no completion noted.
Passed(c) ==
  /\ Written(c)
  /\ cron'[c].next # cron[c].next
     \/ (cron'[c].status = "completed" /\ cron[c].status # "completed")

\* Changing the status of crons leaves them the slot they stand at.
LEMMA WithStatusPassesNone ==
  ASSUME Typed, NEW S \in SUBSET {d \in Crons : Active(d)}, NEW c \in Crons,
         NEW st \in {"invalidated", "canceled"}, cron' = WithStatus(S, st)
  PROVE  ~Passed(c)
<1>1. CASE c \in S
  <2>1. cron'[c] = [cron[c] EXCEPT !.status = st] /\ Active(c)  BY <1>1 DEF WithStatus
  <2>2. cron[c] \in CronRecord  BY <2>1, CronFacts
  <2> QED  BY <2>1, <2>2 DEF Passed, CronRecord
<1>2. CASE c \notin S
  <2>1. cron'[c] = cron[c]  BY <1>2 DEF WithStatus
  <2> QED  BY <2>1 DEF Passed
<1> QED  BY <1>1, <1>2

\* The only step that passes a slot is the write of a record the poll holds.
LEMMA OnlyWriteBackPasses ==
  ASSUME CInv, [Next]_vars, NEW c \in Crons, Passed(c)
  PROVE  WriteBack /\ \E h \in held : h.id = c
<1> USE DEF CInv
<1>1. cron' # cron  BY DEF Passed
<1>2. ~UNCHANGED vars /\ ~Tick /\ ~Crash /\ ~ListDue
  BY <1>1 DEF vars, files, Tick, Crash, ListDue
<1>3. \A s \in Conversations : ~(CreateSession(s) \/ RemoveSession(s) \/ PurgeSession(s)
                            \/ Message(s) \/ StartJob(s))
  BY <1>1 DEF CreateSession, RemoveSession, PurgeSession, Message, StartJob, files
<1>4. \A s \in Conversations : ~(Reset(s) \/ CrashInReset(s))
  <2> SUFFICES ASSUME NEW s \in Conversations, NEW S \in SUBSET ActiveOf(s), ResetFiles(s, S)
               PROVE  FALSE
    BY DEF Reset, CrashInReset
  <2>1. S \in SUBSET {d \in Crons : Active(d)}  BY DEF ActiveOf
  <2>2. cron' = WithStatus(S, "invalidated")  BY DEF ResetFiles
  <2> QED  BY <2>1, <2>2, WithStatusPassesNone
<1>5. \A s \in Conversations : ~InvalidateCrons(s)
  <2> SUFFICES ASSUME NEW s \in Conversations, InvalidateCrons(s) PROVE FALSE
    OBVIOUS
  <2>1. ActiveOf(s) \in SUBSET {d \in Crons : Active(d)}  BY DEF ActiveOf
  <2>2. cron' = WithStatus(ActiveOf(s), "invalidated")  BY DEF InvalidateCrons
  <2> QED  BY <2>1, <2>2, WithStatusPassesNone
<1>6. \A s \in Conversations : ~EndJob(s)
  <2> SUFFICES ASSUME NEW s \in Conversations, EndJob(s) PROVE FALSE
    OBVIOUS
  <2>1. PICK d \in Crons : CreateCron(s, d) \/ CancelCron(s, d)  BY <1>1 DEF EndJob
  <2>2. CASE CreateCron(s, d)
    <3>1. ~Written(d)  BY <2>2 DEF CreateCron, Written
    <3>2. \A e \in Crons : e # d => cron'[e] = cron[e]  BY <2>2 DEF CreateCron, Typed
    <3> QED  BY <3>1, <3>2 DEF Passed
  <2>3. CASE CancelCron(s, d)
    <3>1. {d} \cap ActiveOf(s) \in SUBSET {e \in Crons : Active(e)}  BY DEF ActiveOf
    <3>2. cron' = WithStatus({d} \cap ActiveOf(s), "canceled")  BY <2>3 DEF CancelCron
    <3> QED  BY <3>1, <3>2, WithStatusPassesNone
  <2> QED  BY <2>1, <2>2, <2>3
<1>7. \A d \in Crons : ~Poll(d)
  <2> SUFFICES ASSUME NEW d \in Crons, Poll(d) PROVE FALSE
    OBVIOUS
  <2>1. {d} \cap {e \in Crons : Active(e)} \in SUBSET {e \in Crons : Active(e)}
    OBVIOUS
  <2>2. cron' = WithStatus({d} \cap {e \in Crons : Active(e)}, "invalidated")
    BY <1>1 DEF Poll, Retired
  <2> QED  BY <2>1, <2>2, WithStatusPassesNone
<1>8. WriteBack  BY <1>2, <1>3, <1>4, <1>5, <1>6, <1>7 DEF Next
<1>9. \E h \in held : h.id = c
  <2>1. PICK h \in held : cron' = [cron EXCEPT ![h.id] = Triggered(h)]
    BY <1>1, <1>8 DEF WriteBack
  <2>2. h.id # c => cron'[c] = cron[c]  BY <2>1 DEF Typed
  <2> QED  BY <2>1, <2>2 DEF Passed
<1> QED  BY <1>8, <1>9

\* No slot passes in silence: a once cron is completed and a daily one advanced only when
\* the slot it stood at has been enqueued, however full the queue was and whichever
\* writes were lost.
THEOREM NoSlotIsSkipped == Spec => NoSlotSkipped
<1> DEFINE Kept == \A c \in Crons :
       /\ cron[c] # NotWritten
       /\ cron'[c].next # cron[c].next
          \/ (cron'[c].status = "completed" /\ cron[c].status # "completed")
       => fires[c][cron[c].next] > 0
<1>1. ASSUME CInv, [Next]_vars, NEW c \in Crons, Passed(c) PROVE fires[c][cron[c].next] > 0
  <2>1. PICK h \in held : h.id = c  BY <1>1, OnlyWriteBackPasses
  <2> QED  BY <1>1, <2>1 DEF CInv, HeldFresh
<1>2. CInv /\ [Next]_vars => Kept  BY <1>1 DEF Passed, Written
<1>3. CInv /\ [Next]_vars => [Kept]_vars  BY <1>2
<1> QED  BY <1>3, Invariance, PTL DEF Spec, NoSlotSkipped

-----------------------------------------------------------------------------
(* The queue's depth: how many jobs there are, counted as Tracked does it. *)

\* The places of the queue that f, jobs per session, takes.
Places(f) == {p \in Conversations \X (1..QueueDepth) : p[2] <= f[p[1]]}

\* The places of the queue are finitely many ...
LEMMA PlacesFinite ==
  ASSUME NEW f
  PROVE  IsFiniteSet(Places(f)) /\ Cardinality(Places(f)) \in Nat
<1>1. IsFiniteSet(Conversations) /\ IsFiniteSet(1..QueueDepth)
  BY SessionCronAssumption, FS_Interval
<1>2. IsFiniteSet(Conversations \X (1..QueueDepth))  BY <1>1, FS_Product
<1>3. Places(f) \in SUBSET (Conversations \X (1..QueueDepth))  BY DEF Places
<1>4. IsFiniteSet(Places(f))  BY <1>2, <1>3, FS_Subset
<1> QED  BY <1>4, FS_CardinalityType

\* ... and so are the sessions that run.
LEMMA RunningFinite ==
  /\ IsFiniteSet(Running) /\ Cardinality(Running) \in Nat
  /\ \A S : S \in SUBSET Conversations => IsFiniteSet(S) /\ Cardinality(S) \in Nat
<1>1. \A S : S \in SUBSET Conversations => IsFiniteSet(S)  BY SessionCronAssumption, FS_Subset
<1>2. \A S : S \in SUBSET Conversations => Cardinality(S) \in Nat  BY <1>1, FS_CardinalityType
<1>3. Running \in SUBSET Conversations  BY DEF Running
<1> QED  BY <1>1, <1>2, <1>3

\* The queue of one session is no longer than all of them together.
LEMMA OwnPlaces ==
  ASSUME NEW f \in [Conversations -> 0..QueueDepth], NEW s \in Conversations
  PROVE  f[s] <= Cardinality(Places(f))
<1> DEFINE n == f[s]
           Own == {<<s, i>> : i \in 1..n}
           b == [i \in 1..n |-> <<s, i>>]
<1>1. n \in Nat /\ n <= QueueDepth /\ QueueDepth \in Nat  BY SessionCronAssumption
<1>2. IsFiniteSet(1..n) /\ Cardinality(1..n) = n  BY <1>1, FS_Interval
<1>3. b \in Bijection(1..n, Own)
  BY DEF Bijection, Injection, Surjection, IsInjective
<1>4. ExistsBijection(1..n, Own)  BY <1>3 DEF ExistsBijection
<1>5. Cardinality(Own) = n  BY <1>2, <1>4, FS_Bijection
<1>6. Own \in SUBSET Places(f)  BY <1>1 DEF Places
<1>7. Cardinality(Own) <= Cardinality(Places(f))  BY <1>6, PlacesFinite, FS_Subset
<1> QED  BY <1>5, <1>7

\* One job more in a session, or one less, is one place more, or less.
LEMMA OnePlaceMore ==
  ASSUME NEW f \in [Conversations -> 0..QueueDepth], NEW s \in Conversations, f[s] < QueueDepth,
         NEW g, g = [f EXCEPT ![s] = @ + 1]
  PROVE  /\ g \in [Conversations -> 0..QueueDepth]
         /\ Cardinality(Places(g)) = Cardinality(Places(f)) + 1
<1>1. f[s] \in Nat /\ f[s] + 1 \in 1..QueueDepth /\ QueueDepth \in Nat
  BY SessionCronAssumption
<1>2. g \in [Conversations -> 0..QueueDepth]  BY <1>1
<1>3. Places(g) = Places(f) \cup {<<s, f[s] + 1>>}
  <2>1. ASSUME NEW p \in Conversations \X (1..QueueDepth)
        PROVE  p[2] <= g[p[1]] <=> p[2] <= f[p[1]] \/ p = <<s, f[s] + 1>>
    <3>1. p = <<p[1], p[2]>> /\ p[1] \in Conversations /\ p[2] \in 1..QueueDepth  OBVIOUS
    <3>2. CASE p[1] = s
      <4>1. g[p[1]] = f[s] + 1  BY <3>2
      <4>2. p = <<s, f[s] + 1>> <=> p[2] = f[s] + 1  BY <3>1, <3>2
      <4> QED  BY ONLY <3>1, <3>2, <4>1, <4>2, <1>1
    <3>3. CASE p[1] # s  BY <3>1, <3>3
    <3> QED  BY <3>2, <3>3
  <2>2. <<s, f[s] + 1>> \in Conversations \X (1..QueueDepth)  BY <1>1
  <2> QED  BY <2>1, <2>2 DEF Places
<1>4. <<s, f[s] + 1>> \notin Places(f)  BY <1>1 DEF Places
<1> QED  BY <1>2, <1>3, <1>4, PlacesFinite, FS_AddElement

\* A session with one job less has one place less.
LEMMA OnePlaceLess ==
  ASSUME NEW f \in [Conversations -> 0..QueueDepth], NEW s \in Conversations, f[s] > 0,
         NEW g, g = [f EXCEPT ![s] = @ - 1]
  PROVE  /\ g \in [Conversations -> 0..QueueDepth]
         /\ Cardinality(Places(g)) = Cardinality(Places(f)) - 1
<1>1. f[s] \in 1..QueueDepth /\ f[s] - 1 \in 0..QueueDepth  BY SessionCronAssumption
<1>2. g \in [Conversations -> 0..QueueDepth] /\ g[s] < QueueDepth  BY <1>1, SessionCronAssumption
<1>3. f = [g EXCEPT ![s] = @ + 1]
  <2>1. g[s] = f[s] - 1 /\ (f[s] - 1) + 1 = f[s]  BY <1>1
  <2>2. \A r \in Conversations : [g EXCEPT ![s] = g[s] + 1][r] = f[r]  BY <1>2, <2>1
  <2> QED  BY <1>2, <2>2
<1>4. Cardinality(Places(f)) = Cardinality(Places(g)) + 1  BY <1>2, <1>3, OnePlaceMore
<1> QED  BY <1>2, <1>4, PlacesFinite

\* A restart puts the jobs that ran back into the queue: no place is lost, and none is
\* taken that was not.
LEMMA RestartPlaces ==
  ASSUME NEW f \in [Conversations -> 0..QueueDepth], NEW R \in SUBSET Conversations,
         Cardinality(Places(f)) + Cardinality(R) <= QueueDepth,
         NEW g, g = [s \in Conversations |-> IF s \in R THEN f[s] + 1 ELSE f[s]]
  PROVE  /\ g \in [Conversations -> 0..QueueDepth]
         /\ Cardinality(Places(g)) <= Cardinality(Places(f)) + Cardinality(R)
<1>0. QueueDepth \in Nat /\ \A s \in Conversations : f[s] \in Nat  BY SessionCronAssumption
<1>1. IsFiniteSet(R) /\ Cardinality(R) \in Nat  BY RunningFinite
<1>2. \A s \in R : f[s] + 1 \in 1..QueueDepth
  <2> SUFFICES ASSUME NEW s \in R PROVE f[s] + 1 \in 1..QueueDepth
    OBVIOUS
  <2>1. f[s] <= Cardinality(Places(f))  BY OwnPlaces
  <2>2. Cardinality(R) > 0  BY <1>1, FS_EmptySet
  <2> QED  BY <2>1, <2>2, <1>0, <1>1, PlacesFinite
<1>3. g \in [Conversations -> 0..QueueDepth]  BY <1>0, <1>2
<1> DEFINE New == {<<s, f[s] + 1>> : s \in R}
           b == [s \in R |-> <<s, f[s] + 1>>]
<1>4. b \in Bijection(R, New)  BY DEF Bijection, Injection, Surjection, IsInjective
<1>5. ExistsBijection(R, New)  BY <1>4 DEF ExistsBijection
<1>6. IsFiniteSet(New) /\ Cardinality(New) = Cardinality(R)  BY <1>1, <1>5, FS_Bijection
<1>7. Places(g) \subseteq Places(f) \cup New
  <2> SUFFICES ASSUME NEW p \in Conversations \X (1..QueueDepth), p[2] <= g[p[1]],
                      ~(p[2] <= f[p[1]])
               PROVE  p \in New
    BY DEF Places
  <2>1. p = <<p[1], p[2]>> /\ p[1] \in Conversations /\ p[2] \in Nat  OBVIOUS
  <2>2. p[1] \in R  BY <2>1
  <2>3. p[2] = f[p[1]] + 1  BY <2>1, <2>2, <1>0
  <2> QED  BY <2>1, <2>2, <2>3
<1> HIDE DEF New, b
<1>8. /\ IsFiniteSet(Places(f) \cup New)
      /\ Cardinality(Places(f) \cup New) <= Cardinality(Places(f)) + Cardinality(New)
  <2>1. IsFiniteSet(Places(f) \cap New) /\ Cardinality(Places(f) \cap New) \in Nat
    <3>1. IsFiniteSet(Places(f) \cap New)  BY PlacesFinite, FS_Intersection
    <3> QED  BY <3>1, FS_CardinalityType
  <2>2. /\ IsFiniteSet(Places(f) \cup New)
        /\ Cardinality(Places(f) \cup New) =
             Cardinality(Places(f)) + Cardinality(New) - Cardinality(Places(f) \cap New)
    BY <1>6, PlacesFinite, FS_Union
  <2> QED  BY <2>1, <2>2, <1>1, <1>6, PlacesFinite
<1>9. Cardinality(Places(g)) <= Cardinality(Places(f) \cup New)
  BY <1>7, <1>8, FS_Subset
<1>10. Cardinality(Places(f) \cup New) \in Nat  BY <1>8, FS_CardinalityType
<1> QED  BY <1>1, <1>3, <1>6, <1>8, <1>9, <1>10, PlacesFinite

Depth == jobs \in [Conversations -> 0..QueueDepth] /\ Tracked <= QueueDepth

\* The depth the enqueue compares is that of the places and the runs.
LEMMA TrackedIs == Tracked = Cardinality(Places(jobs)) + Cardinality(Running)
BY DEF Tracked, Places

\* ... in the next state.
LEMMA TrackedNext ==
  Tracked' = Cardinality(Places(jobs')) + Cardinality({s \in Conversations : run'[s] # NoRun})
BY DEF Tracked, Places, Running

\* A job is only added where Full does not hold.
LEMMA AddJob ==
  ASSUME Depth, ~Full, NEW s \in Conversations, jobs' = [jobs EXCEPT ![s] = @ + 1], run' = run
  PROVE  Depth'
<1>1. Tracked < QueueDepth /\ QueueDepth \in Nat /\ Tracked \in Nat
  BY SessionCronAssumption, TrackedIs, PlacesFinite, RunningFinite DEF Full
<1>2. jobs[s] < QueueDepth
  <2>1. jobs[s] <= Cardinality(Places(jobs))  BY OwnPlaces DEF Depth
  <2>2. jobs[s] \in Nat  BY DEF Depth
  <2> QED  BY <1>1, <2>1, <2>2, TrackedIs, PlacesFinite, RunningFinite
<1>3. /\ jobs' \in [Conversations -> 0..QueueDepth]
      /\ Cardinality(Places(jobs')) = Cardinality(Places(jobs)) + 1
  BY <1>2, OnePlaceMore DEF Depth
<1>4. Tracked' = Tracked + 1
  BY <1>3, TrackedIs, TrackedNext, PlacesFinite, RunningFinite DEF Running
<1> QED  BY <1>1, <1>3, <1>4 DEF Depth

\* A job that starts leaves its place for that of a run, or none if the session is gone.
LEMMA StartJobDepth ==
  ASSUME Depth, Typed, NEW s \in Conversations, StartJob(s) PROVE Depth'
<1>1. /\ jobs[s] > 0 /\ run[s] = NoRun /\ jobs' = [jobs EXCEPT ![s] = @ - 1]
      /\ run' = run \/ run' = [run EXCEPT ![s] = generation[s]]
  BY DEF StartJob
<1>2. /\ jobs' \in [Conversations -> 0..QueueDepth]
      /\ Cardinality(Places(jobs')) = Cardinality(Places(jobs)) - 1
  BY <1>1, OnePlaceLess DEF Depth
<1> DEFINE R == {r \in Conversations : run'[r] # NoRun}
<1>3. R \subseteq Running \cup {s}  BY <1>1 DEF Running, Typed
<1>4. /\ IsFiniteSet(Running \cup {s})
      /\ Cardinality(Running \cup {s}) <= Cardinality(Running) + 1
  BY RunningFinite, FS_AddElement
<1>5. Cardinality(R) <= Cardinality(Running \cup {s})  BY <1>3, <1>4, FS_Subset
<1>6. Cardinality(R) \in Nat /\ Cardinality(Running \cup {s}) \in Nat
  BY <1>4, RunningFinite, FS_CardinalityType
<1> HIDE DEF R
<1>7. Tracked' = Cardinality(Places(jobs')) + Cardinality(R)  BY TrackedNext DEF R
<1>8. Tracked' <= QueueDepth
  BY <1>2, <1>4, <1>5, <1>6, <1>7, TrackedIs, PlacesFinite, RunningFinite,
     SessionCronAssumption DEF Depth
<1> QED  BY <1>2, <1>8 DEF Depth

\* A restart puts the jobs that ran back, and the depth is what it was.
LEMMA RestartDepth == ASSUME Depth, Restart PROVE Depth'
<1>1. jobs' = [s \in Conversations |-> IF s \in Running THEN jobs[s] + 1 ELSE jobs[s]]
  BY DEF Restart, Running
<1>2. Running \in SUBSET Conversations  BY DEF Running
<1>3. /\ jobs' \in [Conversations -> 0..QueueDepth]
      /\ Cardinality(Places(jobs')) <= Cardinality(Places(jobs)) + Cardinality(Running)
  BY <1>1, <1>2, TrackedIs, RestartPlaces DEF Depth
<1>4. {s \in Conversations : run'[s] # NoRun} = {}  BY DEF Restart
<1>5. Tracked' = Cardinality(Places(jobs'))
  <2>1. Cardinality({s \in Conversations : run'[s] # NoRun}) = 0  BY <1>4, FS_EmptySet
  <2> DEFINE n == Cardinality(Places(jobs'))
  <2>2. n \in Nat  BY PlacesFinite
  <2>3. Tracked' = n + 0  BY <2>1, TrackedNext
  <2> HIDE DEF n
  <2>4. Tracked' = n  BY <2>2, <2>3
  <2> QED  BY <2>4 DEF n
<1> QED
  BY <1>3, <1>5, TrackedIs, PlacesFinite, RunningFinite, SessionCronAssumption DEF Depth

\* A run that ends leaves its place.
LEMMA EndJobDepth == ASSUME Depth, Typed, NEW s \in Conversations, EndJob(s) PROVE Depth'
<1>1. jobs' = jobs /\ run' = [run EXCEPT ![s] = NoRun]  BY DEF EndJob
<1> DEFINE R == {r \in Conversations : run'[r] # NoRun}
<1>2. R \subseteq Running  BY <1>1 DEF Running, Typed
<1>3. Cardinality(R) <= Cardinality(Running) /\ Cardinality(R) \in Nat
  BY <1>2, RunningFinite, FS_Subset
<1> HIDE DEF R
<1>4. Tracked' = Cardinality(Places(jobs)) + Cardinality(R)  BY <1>1, TrackedNext DEF R
<1> QED
  BY <1>1, <1>3, <1>4, TrackedIs, PlacesFinite, RunningFinite, SessionCronAssumption DEF Depth

\* A step that leaves the queue alone leaves its depth.
LEMMA SameDepth == Depth /\ UNCHANGED queue => Depth'
BY DEF Depth, Tracked, Running, queue

\* No step takes the queue over MAX_QUEUE_DEPTH.
LEMMA NextDepth == CInv /\ Depth /\ [Next]_vars => Depth'
<1> SUFFICES ASSUME CInv, Depth, [Next]_vars PROVE Depth'
  OBVIOUS
<1>1. CASE Crash \/ \E s \in Conversations : CrashInReset(s)
  BY <1>1, RestartDepth DEF Crash, CrashInReset
<1>2. CASE Tick \/ ListDue \/ WriteBack \/ UNCHANGED vars
  BY <1>2, SameDepth DEF Tick, ListDue, WriteBack, vars, queue
<1>3. ASSUME NEW s \in Conversations, \/ CreateSession(s) \/ Reset(s) \/ RemoveSession(s)
                                 \/ PurgeSession(s) \/ InvalidateCrons(s)
      PROVE  Depth'
  BY <1>3, SameDepth
    DEF CreateSession, Reset, RemoveSession, PurgeSession, InvalidateCrons
<1>4. ASSUME NEW s \in Conversations, Message(s) PROVE Depth'  BY <1>4, AddJob DEF Message
<1>5. ASSUME NEW s \in Conversations, StartJob(s) PROVE Depth'
  BY <1>5, StartJobDepth DEF CInv
<1>6. ASSUME NEW s \in Conversations, EndJob(s) PROVE Depth'  BY <1>6, EndJobDepth DEF CInv
<1>7. ASSUME NEW c \in Crons, Poll(c) PROVE Depth'
  <2>1. CASE UNCHANGED jobs  BY <1>7, <2>1, SameDepth DEF Poll, queue
  <2>2. CASE ~Full /\ jobs' = [jobs EXCEPT ![cron[c].session] = @ + 1]
    <3>1. run' = run /\ c \in due  BY <1>7 DEF Poll
    <3>2. cron[c].session \in Conversations
      BY <3>1, CronFacts DEF CInv, DueStays, Typed, SessionOf
    <3> QED  BY <2>2, <3>1, <3>2, AddJob
  <2> QED  BY <1>7, <2>1, <2>2 DEF Poll, Enqueue
<1> QED  BY <1>1, <1>2, <1>3, <1>4, <1>5, <1>6, <1>7 DEF Next

\* The queue starts empty.
LEMMA InitDepth == Init => Depth
<1> SUFFICES ASSUME Init PROVE Depth
  OBVIOUS
<1>1. jobs \in [Conversations -> 0..QueueDepth] /\ \A s \in Conversations : jobs[s] = 0
  BY SessionCronAssumption DEF Init
<1>2. Places(jobs) = {}  BY <1>1 DEF Places
<1>3. Running = {}  BY DEF Init, Running
<1> QED  BY <1>1, <1>2, <1>3, TrackedIs, FS_EmptySet, SessionCronAssumption DEF Depth

\* The type of every variable; with it, that the jobs queued and running are never more
\* than MAX_QUEUE_DEPTH, though the daemon puts those that ran back into the queue when it
\* restarts, and that the poll holds no more than one record.
THEOREM TypeCorrect == Spec => []TypeOK
<1>1. CInv /\ Depth => TypeOK
  <2> SUFFICES ASSUME CInv, Depth PROVE TypeOK
    OBVIOUS
  <2>1. fires \in [Crons -> [0..MaxNow -> 0..(1 + MaxMishaps)]]
    <3>1. ASSUME NEW c \in Crons, NEW t \in 0..MaxNow
          PROVE  fires[c][t] \in 0..(1 + MaxMishaps)
      <4>1. fires[c] \in [0..MaxNow -> Nat] /\ fires[c][t] <= 1 + mishaps
        BY DEF CInv, Typed, SlotsCounted
      <4>2. mishaps \in 0..MaxMishaps /\ MaxMishaps \in Nat
        BY SessionCronAssumption DEF CInv, Typed
      <4>3. fires[c][t] \in Nat  BY <4>1
      <4> QED  BY <4>1, <4>2, <4>3
    <3>2. \A c \in Crons : fires[c] \in [0..MaxNow -> Nat]  BY DEF CInv, Typed
    <3>3. \A c \in Crons : fires[c] \in [0..MaxNow -> 0..(1 + MaxMishaps)]
      BY <3>1, <3>2
    <3> QED  BY <3>3 DEF CInv, Typed
  <2>2. Cardinality(held) <= 1
    <3>1. CASE held = {}  BY <3>1, FS_EmptySet
    <3>2. CASE held # {}
      <4>1. PICK h : h \in held  BY <3>2
      <4>2. held = {h}  BY <4>1 DEF CInv, HeldFresh
      <4>3. Cardinality({h}) = 1  BY FS_Singleton
      <4> QED  BY <4>2, <4>3
    <3> QED  BY <3>1, <3>2
  <2> QED  BY <2>1, <2>2 DEF CInv, Typed, Depth, TypeOK
<1>2. Init => Depth  BY InitDepth
<1>3. CInv /\ Depth /\ [Next]_vars => Depth'  BY NextDepth
<1> QED  BY <1>1, <1>2, <1>3, Invariance, PTL DEF Spec
=============================================================================
