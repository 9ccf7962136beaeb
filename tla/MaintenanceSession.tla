-------------------------- MODULE MaintenanceSession --------------------------
(***************************************************************************)
(* One maintenance session of an agent's persona memory at a time          *)
(* (src/runtime/persona-memory/maintenance-agent.ts): a model edits a       *)
(* temporary clone of the persona through checked tools, calls              *)
(* persona_finalize once, and what it touched or deleted is carried over.   *)
(* Formation runs for an observation log, Dream over the whole corpus, and  *)
(* requestDream decides from Dream's stored state whether one is due.       *)
(*                                                                         *)
(* Which logs are due for Formation is in PersonaMaintenance.              *)
(*                                                                         *)
(* Contents are stamps: the number of the log line or of the sync that made *)
(* a live file (its mtime), or in the clone whether the file is the copied *)
(* one. Carrying over is one stretch of the daemon's code, but many writes, *)
(* any of which may throw or be the last of the process. Paths              *)
(* outside the memory files and the index are refused by the tools and do  *)
(* not occur. A session given up goes on using its tools on its removed    *)
(* clone and touches nothing here, and what it does in up to three more      *)
(* prompts is what it does in one. Bounds: MaxStamp lines and syncs,         *)
(* MaxLines in the log.                                                    *)
(***************************************************************************)
EXTENDS Naturals, FiniteSets

CONSTANTS MemoryFiles, MaxStamp, MaxLines

VARIABLES
    stamp,     \* lines recorded and syncs begun so far
    live,      \* memory file -> stamp of its last write, 0 when absent
    index,     \* index.md: what it holds and its stamp
    obs,       \* the observation log: its lines and its stamp
    dream,     \* dream state: signature at the last completion, how long ago
    queued,    \* dreamQueued
    session,   \* the session under way
    changed    \* history: the paths of the corpus written or removed since Dream last completed

maintenanceVars == <<stamp, live, index, obs, dream, queued, session, changed>>

\* A blank index counts as the placeholder.
IndexKinds == {"placeholder", "ready"}
NoSignature == <<>>

Idle == [mode |-> "none", clone |-> [f \in MemoryFiles |-> "absent"], index |-> "placeholder",
         touched |-> {}, deleted |-> {}, final |-> FALSE, takes |-> 0, lines |-> 0,
         step |-> "tools", copies |-> {}, removals |-> {}]

Init ==
    /\ stamp = 0
    /\ live = [f \in MemoryFiles |-> 0]
    /\ index = [holds |-> "placeholder", at |-> 0]
    /\ obs = [lines |-> 0, at |-> 0]
    /\ dream = [signature |-> NoSignature, recent |-> FALSE]
    /\ queued = FALSE
    /\ session = Idle
    /\ changed = {}

hasSubstantiveContent(kind) == kind = "ready"

Mut_CorpusSignature == <<index.at, live>>

\* What Dream compares: the times of the index, the memory files and the
\* observation logs, with the lines of the logs.
CorpusSignature == <<index.at, live, obs>>

CorpusIsEmpty ==
    /\ ~hasSubstantiveContent(index.holds)
    /\ \A f \in MemoryFiles : live[f] = 0
    /\ obs.lines = 0

\* What requestDream answers, in the order of its checks.
RequestDream(force) ==
    IF queued THEN "already_queued"
    ELSE IF ~force /\ dream.recent THEN "not_due"
    ELSE IF CorpusIsEmpty THEN "no_memory_files"
    ELSE IF ~force /\ dream.signature = CorpusSignature THEN "no_corpus_change"
    ELSE "queued"

(* ------------------------------------------------------------------------ *)
(* Around the session *)

Record ==
    /\ session.step = "tools" /\ stamp < MaxStamp /\ obs.lines < MaxLines
    /\ stamp' = stamp + 1
    /\ obs' = [lines |-> obs.lines + 1, at |-> stamp']
    /\ changed' = changed \cup {"observations"}
    /\ UNCHANGED <<live, index, dream, queued, session>>

\* The sweep asks every two seconds, an owner's /dream forces one.
QueueDream(force) ==
    /\ session.step = "tools" /\ RequestDream(force) = "queued"
    /\ queued' = TRUE
    /\ UNCHANGED <<stamp, live, index, obs, dream, session, changed>>

\* Six hours since the last completion.
DreamComesDue ==
    /\ dream.recent
    /\ dream' = [dream EXCEPT !.recent = FALSE]
    /\ UNCHANGED <<stamp, live, index, obs, queued, session, changed>>

createMaintenanceClone(mode) ==
    [Idle EXCEPT !.mode = mode,
                 !.clone = [f \in MemoryFiles |-> IF live[f] = 0 THEN "absent" ELSE "copied"],
                 !.index = index.holds,
                 !.lines = IF mode = "dream" THEN 0 ELSE obs.lines]

BeginFormation ==
    /\ session.mode = "none" /\ obs.lines > 0
    /\ session' = createMaintenanceClone("formation")
    /\ UNCHANGED <<stamp, live, index, obs, dream, queued, changed>>

\* By the time the task has its turn the corpus may have been emptied by a
\* session before it: Dream then ends without a session.
BeginDream ==
    /\ session.mode = "none" /\ queued
    /\ IF CorpusIsEmpty
       THEN queued' = FALSE /\ UNCHANGED session
       ELSE session' = createMaintenanceClone("dream") /\ UNCHANGED queued
    /\ UNCHANGED <<stamp, live, index, obs, dream, changed>>

(* ------------------------------------------------------------------------ *)
(* The tools.  A refused call changes nothing and is left out. *)

Uses(tool) ==
    /\ session.mode # "none" /\ session.step = "tools"
    /\ session' = tool
    /\ UNCHANGED <<stamp, live, index, obs, dream, queued, changed>>

Edit(f) ==
    /\ session.clone[f] # "absent"
    /\ Uses([session EXCEPT !.clone[f] = "new", !.touched = @ \cup {f}])

EditIndex(kind) ==
    Uses([session EXCEPT !.index = kind, !.touched = @ \cup {"index"}])

Write(f) ==
    /\ session.clone[f] = "absent"
    /\ Uses([session EXCEPT !.clone[f] = "new", !.touched = @ \cup {f}])

Delete(f) ==
    /\ session.mode = "dream" /\ session.clone[f] # "absent"
    /\ Uses([session EXCEPT !.clone[f] = "absent", !.deleted = @ \cup {f}])

\* A second call is refused and fails the session.
Finalize(n) ==
    /\ ~session.final /\ n \in 0..session.lines
    /\ Uses([session EXCEPT !.final = TRUE, !.takes = n])

(* ------------------------------------------------------------------------ *)
(* The end of the prompts *)

ensureSubstantiveIndexAfterMaintenance ==
    (session.touched \cap MemoryFiles) \cup session.deleted # {} => hasSubstantiveContent(session.index)

\* What the session wrote and is still there is to be copied, and what it ever
\* deleted to be removed, also when it was written again.
syncMaintenanceClone ==
    /\ session.mode # "none" /\ session.step = "tools"
    /\ session.final /\ ensureSubstantiveIndexAfterMaintenance
    /\ stamp < MaxStamp /\ stamp' = stamp + 1
    /\ session' = [session EXCEPT !.step = "sync",
                      !.copies = {p \in session.touched : p = "index" \/ session.clone[p] # "absent"},
                      !.removals = IF session.mode = "dream" THEN session.deleted ELSE {}]
    /\ UNCHANGED <<live, index, obs, dream, queued, changed>>

CopyBack(path) ==
    /\ path \in session.copies
    /\ session' = [session EXCEPT !.copies = @ \ {path}]
    /\ IF path = "index"
       THEN index' = [holds |-> session.index, at |-> stamp] /\ UNCHANGED live
       ELSE live' = [live EXCEPT ![path] = stamp] /\ UNCHANGED index
    /\ changed' = changed \cup {path}
    /\ UNCHANGED <<stamp, obs, dream, queued>>

\* The deleted ones first.
Mut_RemoveDeleted(f) ==
    /\ f \in session.removals
    /\ session' = [session EXCEPT !.removals = @ \ {f}]
    /\ live' = [live EXCEPT ![f] = 0]
    /\ changed' = changed \cup {f}
    /\ UNCHANGED <<stamp, index, obs, dream, queued>>

RemoveDeleted(f) ==
    /\ session.copies = {} /\ f \in session.removals
    /\ session' = [session EXCEPT !.removals = @ \ {f}]
    /\ live' = [live EXCEPT ![f] = 0]
    /\ changed' = changed \cup {f}
    /\ UNCHANGED <<stamp, index, obs, dream, queued>>

\* Formation writes back what it had read less the lines taken, and removes an
\* empty log.
consumeObservations ==
    LET left == session.lines - session.takes
    IN  [lines |-> left, at |-> IF left = 0 THEN 0 ELSE stamp]

\* Dream's stored signature is that of the corpus after the sync.
Settle ==
    /\ session.step = "sync" /\ session.copies = {} /\ session.removals = {}
    /\ IF session.mode = "dream"
       THEN /\ obs' = obs
            /\ dream' = [signature |-> CorpusSignature, recent |-> TRUE]
            /\ queued' = FALSE
            /\ changed' = {}
       ELSE /\ obs' = consumeObservations
            /\ changed' = changed \cup {"observations"}
            /\ UNCHANGED <<dream, queued>>
    /\ session' = Idle
    /\ UNCHANGED <<stamp, live, index>>

\* No persona_finalize after three more prompts, a second one, an index left
\* blank, ten minutes, or a write of the sync that throws: the clone is dropped.
Fail ==
    /\ session.mode # "none"
    /\ queued' = (queued /\ session.mode # "dream")
    /\ session' = Idle
    /\ UNCHANGED <<stamp, live, index, obs, dream, changed>>

\* The flag is in memory only, the signature is not.
Crash ==
    /\ queued' = FALSE
    /\ session' = Idle
    /\ UNCHANGED <<stamp, live, index, obs, dream, changed>>

Next ==
    \/ Record
    \/ \E force \in BOOLEAN : QueueDream(force)
    \/ DreamComesDue
    \/ BeginFormation
    \/ BeginDream
    \/ \E f \in MemoryFiles : Edit(f)
    \/ \E f \in MemoryFiles : Write(f)
    \/ \E f \in MemoryFiles : Delete(f)
    \/ \E kind \in IndexKinds : EditIndex(kind)
    \/ \E n \in 0..MaxStamp : Finalize(n)
    \/ syncMaintenanceClone
    \/ \E path \in MemoryFiles \cup {"index"} : CopyBack(path)
    \/ \E f \in MemoryFiles : RemoveDeleted(f)
    \/ Settle
    \/ Fail
    \/ Crash

Spec == Init /\ [][Next]_maintenanceVars

=============================================================================
