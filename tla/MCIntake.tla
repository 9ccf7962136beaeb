------------------------------- MODULE MCIntake -------------------------------
(***************************************************************************)
(* The way of a message as far as its job: Gateway, and the queue where the *)
(* store throws. The two share no state here, as the queue of Gateway is no   *)
(* more than a number of jobs; a behaviour is one of either of them.         *)
(***************************************************************************)
EXTENDS MCJobQueue, GatewayBounds

VARIABLES
  part,      \* "queue" or "gateway"
  now, direct, pair, opened, jobs, handler, console, stamped   \* the state of Gateway

gatewayVars == <<now, direct, pair, opened, jobs, handler, console, stamped>>

G == INSTANCE GatewayProps WITH active <- opened, line <- console

IntakeInit ==
  /\ part \in {"queue", "gateway"}
  /\ Init /\ G!Init
  /\ part = "queue" => direct = {}

QueueStep == part = "queue" /\ Next /\ UNCHANGED <<part, gatewayVars>>
GatewayStep == part = "gateway" /\ G!Next /\ UNCHANGED <<part, vars>>

\* Gateway's time and codes run out; the queue never stops.
Over == part = "gateway" /\ UNCHANGED <<part, vars, gatewayVars>>

IntakeSpec == IntakeInit /\ [][QueueStep \/ GatewayStep \/ Over]_<<part, vars, gatewayVars>>

\* Messages handled at once are alike.
Alike == Permutations(Handlers)

\* GatewayProps: a chat has one code an administrator can accept at a time, whatever stale
\* copies of a request two messages and a command line write back.
OneLiveCode == G!OneLiveCode

\* GatewayProps: once a prompt for a code has been stamped, none is started within the
\* cooldown, whoever wrote the request since.
PromptsAreSpaced == G!PromptsAreSpaced
=============================================================================
