----------------------------- MODULE ModelContext -----------------------------
(***************************************************************************)
(* What of memory and conversation goes into a prompt: the index, a scene's  *)
(* observations and the timeline are cut to a token budget, a memory file is *)
(* put together from its best sections, and old tool results of a session    *)
(* are shortened (src/runtime/persona-memory/observations.ts, service.ts,    *)
(* src/runtime/session-log.ts, session-hygiene.ts).                        *)
(*                                                                         *)
(* Counting tokens asks an endpoint and may fail each time; a count once     *)
(* obtained is remembered (src/runtime/token-service.ts).  A text is the     *)
(* sequence of its lines' tokens; sizes of tool results are in units of 1000 *)
(* characters.  Bounds: the texts, files, logs and sessions tried; one cut   *)
(* in a behaviour, for a cut depends on no earlier one.                    *)
(***************************************************************************)
EXTENDS Integers, Sequences, SequencesExt, FiniteSets

CONSTANTS
    Texts,       \* lines by their tokens
    Files,       \* memory files: front matter and sections
    Logs,        \* session logs with the replies of a finished run
    Histories,   \* sessions as the model would be prompted with them
    Budget,      \* tokens
    MaxEvents    \* lines of a scene, turns of a timeline

VARIABLES
    work,    \* what is being cut, and how far the search is
    cut      \* what the last cut left

contextVars == <<work, cut>>

Idle == [step |-> "idle"]
None == [kind |-> "none"]

Init == work = Idle /\ cut = None

Free == work = Idle /\ cut = None

sum(s) == FoldLeft(+, 0, s)
last(s, n) == IF n >= Len(s) THEN s ELSE SubSeq(s, Len(s) - n + 1, Len(s))

(* ------------------------------------------------------------------------ *)
(* Timeline of a session log *)

\* A bot's entry is a turn unless it is empty, a user's unless it was deleted
\* or is a command; a reply of the run is added once unless the log has its
\* like.  Turns are told apart by their tokens.
buildFormationTimeline(log, fallback) ==
    LET told == FoldLeft(LAMBDA turns, e : IF e.tokens = 0 \/ e.type \in {"deleted", "command"}
                                           THEN turns ELSE Append(turns, e.tokens), <<>>, log)
        seen == {e.tokens : e \in {d \in ToSet(log) : d.type = "bot"}}
        missed == FoldLeft(LAMBDA turns, r : IF r = 0 \/ r \in seen \/ r \in ToSet(turns)
                                            THEN turns ELSE Append(turns, r), <<>>, fallback)
    IN  told \o missed

(* ------------------------------------------------------------------------ *)
(* The largest prefix or tail within the budget *)

Begin(kind, lines) ==
    /\ Free
    /\ work' = [step |-> "total", kind |-> kind, lines |-> lines, low |-> 0, high |-> Len(lines), sure |-> TRUE]
    /\ UNCHANGED cut

trimIndex(text) == Begin("prefix", text)
takeTailLinesWithinBudget(text) == Begin("tail", last(text, MaxEvents))
takeTailTurnsWithinBudget(entry) == Begin("tail", last(buildFormationTimeline(entry.log, entry.fallback), MaxEvents))

\* slice(-0) is the whole.
Kept(low) ==
    IF work.kind = "prefix" THEN SubSeq(work.lines, 1, low)
    ELSE IF low = 0 THEN work.lines
    ELSE last(work.lines, low)

Ends(kept, sure) ==
    /\ cut' = [kind |-> work.kind, lines |-> work.lines, kept |-> kept, sure |-> sure]
    /\ work' = Idle

countTotal(available) ==
    /\ work.step = "total" /\ work.kind # "memory"
    /\ IF ~available \/ sum(work.lines) <= Budget
       THEN Ends(work.lines, available)
       ELSE work' = [work EXCEPT !.step = "search"] /\ UNCHANGED cut

mid == (work.low + work.high + 1) \div 2

Candidate == IF work.kind = "tail" THEN last(work.lines, mid) ELSE SubSeq(work.lines, 1, mid)

Mut_countCandidate(available) ==
    /\ work.step = "search" /\ work.low < work.high
    /\ work' = IF available => sum(Candidate) <= Budget
               THEN [work EXCEPT !.low = mid, !.sure = @ /\ available]
               ELSE [work EXCEPT !.high = mid - 1, !.sure = @ /\ available]
    /\ UNCHANGED cut

countCandidate(available) ==
    /\ work.step = "search" /\ work.low < work.high
    /\ work' = IF available /\ sum(Candidate) <= Budget
               THEN [work EXCEPT !.low = mid, !.sure = @ /\ available]
               ELSE [work EXCEPT !.high = mid - 1, !.sure = @ /\ available]
    /\ UNCHANGED cut

Found ==
    /\ work.step = "search" /\ work.low = work.high
    /\ IF work.kind = "memory"
       THEN /\ work' = [work EXCEPT !.step = "sections", !.best = SubSeq(work.lines, 1, work.low)]
            /\ UNCHANGED cut
       ELSE Ends(Kept(work.low), work.sure)

(* ------------------------------------------------------------------------ *)
(* A memory file from its sections *)

\* The first section and those with a heading before others, short ones first.
scoreMemorySection(file, i) ==
    LET section == file.sections[i]
    IN  (IF i = 1 THEN 12 ELSE IF i <= 5 THEN 10 - 2 * (i - 1) ELSE 0)
        + (IF section.heading THEN 6 ELSE 0)
        + (CASE section.tokens = 1 -> 4 [] section.tokens = 2 -> 2 [] OTHER -> 0)

ranked(file) ==
    SetToSortSeq(DOMAIN file.sections,
        LAMBDA i, j : \/ scoreMemorySection(file, i) > scoreMemorySection(file, j)
                      \/ scoreMemorySection(file, i) = scoreMemorySection(file, j) /\ i < j)

rawMarkdown(file) == <<file.front>> \o [i \in DOMAIN file.sections |-> file.sections[i].tokens]

BeginMemory(file) ==
    /\ Free
    /\ work' = [step |-> "total", kind |-> "memory", lines |-> rawMarkdown(file), low |-> 0,
                high |-> Len(rawMarkdown(file)), sure |-> TRUE, file |-> file,
                ranked |-> ranked(file), chosen |-> {}, best |-> <<>>]
    /\ UNCHANGED cut

\* Over budget, or not counted: the prefix is searched for first, and counted
\* again when the first count failed.
countMemory(available, again) ==
    /\ work.step = "total" /\ work.kind = "memory"
    /\ IF available /\ sum(work.lines) <= Budget
       THEN Ends(work.lines, TRUE)
       ELSE /\ work' = IF (available \/ again) /\ sum(work.lines) > Budget
                       THEN [work EXCEPT !.step = "search", !.sure = available]
                       ELSE [work EXCEPT !.step = "sections", !.sure = FALSE, !.best = work.lines]
            /\ UNCHANGED cut

Chosen(set) ==
    FoldLeftDomain(LAMBDA lines, i : IF i \in set THEN Append(lines, work.file.sections[i].tokens) ELSE lines,
                   <<work.file.front>>, work.file.sections)

\* A section that could not be counted stays.
countSections(available) ==
    /\ work.step = "sections" /\ work.ranked # <<>>
    /\ LET with == work.chosen \cup {Head(work.ranked)}
           rest == [work EXCEPT !.ranked = Tail(@), !.sure = @ /\ available]
       IN  work' = IF available /\ sum(Chosen(with)) > Budget THEN rest
                   ELSE [rest EXCEPT !.chosen = with, !.best = Chosen(with)]
    /\ UNCHANGED cut

prioritizeSelectedMemoryMarkdown ==
    /\ work.step = "sections" /\ work.ranked = <<>>
    /\ Ends(work.best, work.sure)

(* ------------------------------------------------------------------------ *)
(* Tool results of a session *)

PROTECTED_ASSISTANT_MESSAGES == 3
OVERSIZED_RESULT == 8
SOFT_TRIM == 3
TOOL_RESULT_BUDGET == 12

assistants(messages) == {i \in DOMAIN messages : messages[i].role = "assistant"}

\* Messages before the third assistant message from the end may be shaped.
open(messages) ==
    {i \in DOMAIN messages : /\ messages[i].role = "toolResult"
                             /\ Cardinality({j \in assistants(messages) : j > i}) >= PROTECTED_ASSISTANT_MESSAGES}

oversized(messages) == {i \in open(messages) : sum(messages[i].blocks) > OVERSIZED_RESULT}

\* Only the first block of an oversized result is shortened, and only when the
\* block itself is.
softTrim(messages) ==
    [i \in DOMAIN messages |->
        IF i \in oversized(messages) /\ messages[i].blocks[1] > OVERSIZED_RESULT
        THEN [messages[i] EXCEPT !.blocks[1] = SOFT_TRIM] ELSE messages[i]]

toolResultChars(messages, set) == sum([i \in DOMAIN messages |-> IF i \in set THEN sum(messages[i].blocks) ELSE 0])

hardClear(messages, set) ==
    [i \in DOMAIN messages |-> IF i \in set THEN [messages[i] EXCEPT !.blocks[1] = 0] ELSE messages[i]]

\* From the oldest on, the first blocks of oversized results are cleared until
\* all open results are within their budget.
shapeSessionMessagesForPrompt(messages) ==
    LET trimmed == softTrim(messages)
        upTo(i) == {j \in oversized(messages) : j < i}
        cleared == {i \in oversized(messages) :
                      toolResultChars(hardClear(trimmed, upTo(i)), open(messages)) > TOOL_RESULT_BUDGET}
    IN  hardClear(trimmed, cleared)

Shape(messages) ==
    /\ Free
    /\ cut' = [kind |-> "history", before |-> messages, after |-> shapeSessionMessagesForPrompt(messages)]
    /\ UNCHANGED work

Next ==
    \/ \E text \in Texts : trimIndex(text) \/ takeTailLinesWithinBudget(text)
    \/ \E entry \in Logs : takeTailTurnsWithinBudget(entry)
    \/ \E available \in BOOLEAN : countTotal(available) \/ countCandidate(available) \/ countSections(available)
    \/ Found
    \/ \E file \in Files : BeginMemory(file)
    \/ \E available, again \in BOOLEAN : countMemory(available, again)
    \/ prioritizeSelectedMemoryMarkdown
    \/ \E messages \in Histories : Shape(messages)

Spec == Init /\ [][Next]_contextVars

=============================================================================
