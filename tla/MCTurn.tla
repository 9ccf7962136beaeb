------------------------------- MODULE MCTurn -------------------------------
(* The instance of Turn for TLC. *)
EXTENDS TurnProps

\* Calls that record nothing, a reminder and a message, and a message taken back.
MCCalls == { <<"ask", "invalid">>, <<"cron", "send">>, <<"send", "no_reply">> }
=============================================================================
