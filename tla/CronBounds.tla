----------------------------- MODULE CronBounds -----------------------------
(***************************************************************************)
(* The conversations and reminders of one agent, and what bounds them.     *)
(***************************************************************************)
EXTENDS Naturals, FiniteSets

CONSTANTS
  Conversations,   \* session record ids
  Crons,      \* cron ids
  Daily,      \* the crons with scheduleKind "daily", the others run once
  QueueDepth,   \* MAX_QUEUE_DEPTH
  MaxNow, MaxResets, MaxMishaps

ASSUME SessionCronAssumption ==
  /\ IsFiniteSet(Conversations) /\ Daily \subseteq Crons
  /\ QueueDepth \in Nat \ {0}
  /\ MaxNow \in Nat /\ MaxResets \in Nat /\ MaxMishaps \in Nat
=============================================================================
