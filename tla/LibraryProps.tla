----------------------------- MODULE LibraryProps -----------------------------
(***************************************************************************)
(* What each part of Library has to keep, in the order of its parts: one       *)
(* property for each, about what its operations leave when they are done.    *)
(***************************************************************************)
EXTENDS Library, SequencesExt

Rewritten == {f \in session.deleted : session.clone[f] # "absent"}

\* What the session wrote is in the persona.
Written ==
    /\ "index" \in session.touched => index = [holds |-> session.index, at |-> stamp]
    /\ \A f \in MemoryFiles \ Rewritten : session.clone[f] = "new" => live[f] = stamp

\* (maintenance-agent.ts:174-194, service.ts:363, :673, :734) A sync may be cut
\* short after each of its writes.  A memory file becomes only what the session
\* wrote, and goes only when Dream deleted it and everything the session wrote
\* is there, so that what it moved from one file to another is always in one of
\* them.  Lines are consumed, and Dream counts as done, only when the persona
\* is as the session left it: its files are those of the clone, and the index
\* says something if any of them changed.  Files that a session deleted and
\* wrote again are left to CloneIsCarriedOver.
SyncedAsLeft ==
    [][/\ \A f \in MemoryFiles : live'[f] # live[f] =>
             IF live'[f] = 0 THEN f \in session.deleted /\ Written ELSE session.clone[f] = "new"
       /\ obs'.lines < obs.lines \/ dream'.signature # dream.signature =>
             /\ Written
             /\ \A f \in MemoryFiles \ Rewritten : session.clone[f] = "absent" <=> live[f] = 0
             /\ index.holds = session.index
             /\ (session.touched \cap MemoryFiles) \cup session.deleted # {} => M!hasSubstantiveContent(index.holds)]_vars

\* (docs/ARCHITECTURE.md:356) Dream ends with the temporary directory synced back
\* to the persona: a memory file that its clone has is in the persona.
CloneIsCarriedOver ==
    [][dream'.signature # dream.signature => \A f \in MemoryFiles : session.clone[f] # "absent" => live'[f] # 0]_vars

\* (service.ts:290, manifest.ts:90) Dream is refused for want of a change only
\* when neither the index nor a memory file was written since it last completed,
\* but for files that were not there then and are gone again, and of the
\* observations recorded since none is left; it is started without being forced
\* only when something was written, or it never completed.
DreamSettles ==
    /\ M!RequestDream(FALSE) = "no_corpus_change" =>
          /\ "index" \notin changed
          /\ \A f \in changed \cap MemoryFiles : live[f] = 0 /\ dream.signature[2][f] = 0
          /\ "observations" \in changed => obs.lines = 0
    /\ M!RequestDream(FALSE) = "queued" => changed # {} \/ dream.signature = M!NoSignature

\* (command-router.ts:423, :462, probe.ts:196) A model a chat would run on under
\* a custom provider is one the worker finds in models.json, unless a write of
\* models.json is still to come, was lost to the other process or never made.
CustomModelsAreFound ==
    LET m == C!resolveEffectiveModel
    IN  m # C!NoModel /\ cli = C!Idle /\ ~torn => C!find(m[1], m[2])

\* (cli/handlers/runtime.ts:85) However starts, stops and restarts overlap, at
\* most one runtime serves at a time, and when one does a start finds it, as
\* long as no pid of a live runtime was written over.
OneRuntime ==
    LET serving == {p \in R!Pids : process[p] \in {"booting", "running"}}
    IN  ~crossed => \A p \in serving : serving = {p} /\ (lock = Nobody => pid = p)

\* (observations.ts:10, service.ts:98, session-hygiene.ts:51) What is cut for a
\* prompt: whatever is shortened at all fits its budget, also when counts fail;
\* when every count succeeded and some part fits, it is the longest that does;
\* an index or a memory file that could be counted fits in any case.  A text
\* that cannot be counted is handed on whole; so is a tail of which nothing fits,
\* against the documented budget (PromptsKeepTheirBudget).  Of a session,
\* messages from the third last answer on stay as they are, and results are
\* cleared from the oldest on, each only because the budget needs it, all of
\* them when even that is not enough.
FitsBudget ==
    /\ cut.kind \in {"prefix", "tail"} =>
          LET part_(n) == IF cut.kind = "prefix" THEN SubSeq(cut.lines, 1, n) ELSE X!last(cut.lines, n)
              fitting == {n \in 1..Len(cut.lines) : X!sum(part_(n)) <= Budget}
          IN  /\ cut.kept # cut.lines \/ (cut.sure /\ cut.kind = "prefix") => X!sum(cut.kept) <= Budget
              /\ cut.sure /\ fitting # {} => cut.kept = part_(Max(fitting))
    /\ cut.kind = "memory" /\ cut.sure => X!sum(cut.kept) <= Budget
    /\ cut.kind = "history" =>
          LET shaped == {i \in DOMAIN cut.before : cut.after[i] # cut.before[i]}
              empty == {i \in X!oversized(cut.before) : cut.after[i].blocks[1] = 0}
              cleared == shaped \cap empty
              over(h) == X!toolResultChars(h, X!open(cut.before)) > X!TOOL_RESULT_BUDGET
              without(i) == [j \in DOMAIN cut.before |-> IF j \in cleared /\ j >= i THEN cut.before[j] ELSE cut.after[j]]
          IN  /\ \A i \in shaped : Cardinality({j \in X!assistants(cut.before) : j > i}) >= 3
              /\ over(cut.after) => empty = X!oversized(cut.before)
              /\ \A i \in cleared :
                    /\ {j \in X!oversized(cut.before) : j < i} \subseteq empty
                    /\ over(without(i))

\* (docs/ARCHITECTURE.md:232, :395, :572, :574) The index and the observations of
\* a scene are in the prompt with at most their 2,000 and 1,200 tokens, at least
\* when every count succeeded.
PromptsKeepTheirBudget == cut.kind \in {"prefix", "tail"} /\ cut.sure => X!sum(cut.kept) <= Budget

\* (cron-schedule.ts:71, :121, cron-store.ts:136) The next run of a daily
\* reminder lies after the poll that set it, in the first local day that has
\* not had its run, when the clock shows its time, or an hour off when that
\* day's clock skips it; a single one runs when its clock says so, past or not.
\* Three kinds of schedule are wrong, and only they: daily ones in a zone west of
\* Greenwich, at a time that the clock skips, put forward across midnight, or
\* shows on both sides of it, put back across midnight, whose instant is on the
\* day before; and where midnight is printed as 24, those in the first hour of
\* a day, or near a change of the offset.
DailyOnce ==
    LET change == zone.after - zone.before
        instants(d) == (d - 2) * DayLength..(d + 2) * DayLength
        shows(d) == {t \in instants(d) : S!clock(t) = d * DayLength + cron.time}
        runs(d) == IF shows(d) # {} THEN shows(d)
                   ELSE {t \in instants(d) : S!clock(t) - (d * DayLength + cron.time) \in {change, -change}}
        firstHour == cron.time % DayLength < S!HourLength
        past(start) == (cron.time - start) % DayLength
        skippedAtMidnight == /\ cron.time < change
                             /\ past(zone.at + zone.before) < change /\ past(zone.at + zone.before) < -zone.before
        repeatedAtMidnight == /\ cron.time < past(zone.at + zone.after)
                              /\ past(zone.at + zone.after) < -change /\ past(zone.at + zone.after) < -zone.after
        off == IF midnight = 0 THEN cron.kind = "daily" /\ (skippedAtMidnight \/ repeatedAtMidnight)
                               ELSE firstHour \/ change # 0
    IN  cron.status = "active" /\ ~off =>
            IF cron.kind = "once" THEN cron.next \in runs(cron.day)
            ELSE /\ cron.next > cron.from
                 /\ \E d \in S!dayOf(cron.from)..(S!dayOf(cron.from) + 1) :
                       /\ cron.next \in runs(d) /\ cron.ran \notin runs(d)
                       /\ \A e \in S!dayOf(cron.from)..(d - 1) : \E t \in runs(e) : t <= cron.from

\* (recent-bot-message-ids.ts:9, napcat.ts:376, telegram.ts:280) A group message
\* that replies to a message the bot noted wakes it, while fewer than
\* MaxTrackedIds messages of its chat and messages to fewer than MaxTrackedChats
\* other chats were noted since; when only mentions wake it, nothing else does
\* but a mention, and ids of another chat do not count.
RepliesAreHeard ==
    heard.kind = "group" =>
        LET since(i) == (i + 1)..Len(said)
            noted == {i \in DOMAIN said : said[i] = <<heard.chat, heard.event.replyTo>>}
        IN  /\ \A i \in noted :
                  /\ Cardinality({j \in since(i) : said[j][1] = heard.chat}) < MaxTrackedIds
                  /\ Cardinality({said[j][1] : j \in since(i)} \ {heard.chat}) < MaxTrackedChats
                  => heard.wakes
            /\ groupTrigger = "mention" /\ heard.wakes => noted # {} \/ "me" \in heard.event.mentions

\* (outbound-dispatch.ts:108, tools/index.ts:306, :387, worker.ts:172) What a
\* tool said is queued is done in order up to the first failure: each message
\* is sent once and then in the log of its chat, unless it is one of
\* send_message to a chat whose session was gone, or the log was removed by a
\* purge; a reminder made or canceled is so at the end.  A turn ended by
\* no_reply does nothing, what it has appended to its file is its conversation,
\* and no call stays without a result unless another call came before no_reply
\* in the same answer, which is left open.
WordsAndDeeds ==
    LET Increasing(ids) == \A i, j \in DOMAIN ids : i < j => ids[i] < ids[j]
        ids == [i \in DOMAIN sent |-> sent[i][2]]
        to(a) == {ids[i] : i \in {j \in DOMAIN sent : sent[j][1] = a}}
        flying == at \in {"sending", "failed"}
        messagesOf(n) == {i \in 1..n : actions[i].tool \in O!sending}
        silenced == at \in {"deliver", "end"} /\ \E i \in DOMAIN actions : actions[i].tool = "no_reply"
        answered(i) == /\ i + Len(messages[i].calls) <= Len(messages)
                       /\ \A j \in DOMAIN messages[i].calls : messages[i + j].role = "toolResult"
    IN  /\ Increasing(ids)
        /\ Range(ids) = messagesOf(done) \/ (flying /\ Range(ids) = messagesOf(done) \cup {done + 1})
        /\ \A a \in O!Addresses :
              /\ Increasing(logs[a]) /\ Range(logs[a]) \subseteq to(a)
              /\ \A i \in to(a) \ Range(logs[a]) :
                    \/ flying /\ i = done + 1
                    \/ sessions[a] # "active" /\ actions[i].tool = "send_message"
                    \/ sessions[a] = "purged"
        /\ at = "end" => \A i \in DOMAIN actions :
              /\ actions[i].tool = "cron_create" => crons[i] # "none"
              /\ actions[i].tool = "cron_cancel" => crons[actions[i].cron] # "active"
        /\ silenced =>
              /\ sent = <<>> /\ \A i \in O!ActionIds : crons[i] = "none"
              /\ file = messages
              /\ \A i \in DOMAIN messages : messages[i].role = "assistant" =>
                    answered(i) \/ \E j \in DOMAIN messages[i].calls : j > 1 /\ messages[i].calls[j].tool = "no_reply"

\* (agent-lifecycle.ts:38, agent-store.ts:93) Once the name of a removed agent
\* is free, nothing of that agent is left, however often its removal was cut
\* short and begun again: no workspace for the next agent of the name, no
\* reminder, pairing request, queue, state or audit file, except what the daemon
\* wrote for it after the removal had begun: a handler that still held the
\* agent, or a read file written back over the removal of it.
RemovalIsComplete ==
    LET gone(a) == a # registered.id
    IN  /\ \A a \in workspace : gone(a) => <<"workspace", a>> \in late
        /\ \A a \in artifacts : gone(a) => <<"artifact", a>> \in late
        /\ \A c \in codes : gone(c[1]) => <<"code", c[1]>> \in late
        /\ \A r \in reminders : gone(r[1]) => <<"reminder", r[1]>> \in late

=============================================================================
