------------------------------ MODULE TurnCalls ------------------------------
(***************************************************************************)
(* The turns of an agent, and what comes of the tool calls of one: the     *)
(* actions its worker hands back (worker.ts of src/runtime, the tools of   *)
(* src/tools/index.ts).                                                    *)
(***************************************************************************)
EXTENDS Sequences

CONSTANTS
  Turns,   \* jobs of the agent, each of a session of its own
  Calls    \* the sequences of tool calls a model may make in a turn

\* What a tool call records; "invalid" stands for one the tool refuses, "ask" for one
\* that only reads.
Recorded(calls) == SelectSeq(calls, LAMBDA c : c \notin {"invalid", "ask"})

\* The calls are a sequence, and so is what the filter leaves of them.
ASSUME TurnAssumption ==
  \A calls \in Calls : Recorded(calls) \in Seq({calls[i] : i \in DOMAIN calls})

\* runWorker: no_reply, which only a group's turn has and which ends it, silences what
\* was recorded before it; otherwise the last text goes out behind the actions.
WorkerResult(calls, text) ==
  IF \E i \in DOMAIN calls : calls[i] = "no_reply" THEN <<>>
  ELSE Recorded(calls) \o (IF text THEN <<"outbound">> ELSE <<>>)
=============================================================================
