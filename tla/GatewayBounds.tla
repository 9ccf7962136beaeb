---------------------------- MODULE GatewayBounds ----------------------------
(***************************************************************************)
(* Who takes part in letting a conversation in, with the limits of the     *)
(* configuration's pairing section and of the queue.                       *)
(***************************************************************************)
EXTENDS Naturals

CONSTANTS
  Chats,          \* conversations: positive numbers
  Pairs,          \* ids, and codes, of pair requests: 1..n, used in order
  Handlers,       \* messages the daemon may handle at once
  CommandLines,   \* administrators' command lines
  Cooldown, Ttl,  \* repromptCooldownSeconds and ttlMinutes, in units of time
  MaxSessions,    \* bound: active sessions of a conversation
  MaxJobs,        \* MAX_QUEUE_DEPTH
  MaxNow

ASSUME GatewayAssumption ==
  /\ Chats \subseteq Nat \ {0}
  /\ Cooldown \in Nat \ {0} /\ Ttl \in Nat \ {0} /\ MaxNow \in Nat
  /\ MaxSessions \in Nat /\ MaxJobs \in Nat
=============================================================================
