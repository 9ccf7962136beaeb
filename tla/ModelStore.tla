------------------------------ MODULE ModelStore ------------------------------
(***************************************************************************)
(* Which model an agent runs on: its default in the configuration, the      *)
(* override of a chat, and the catalog of endpoints in models.json which    *)
(* the worker looks the model up in (src/model, src/store/model-store.ts,   *)
(* src/cli/handlers/model.ts, src/runtime/command-router.ts).               *)
(*                                                                         *)
(* The command line and the daemon are two processes: each reads models.json,*)
(* changes its copy and writes it back, and the configuration is written in  *)
(* a step of its own.  Inside the daemon a stretch without an await is not   *)
(* interrupted by another.  One chat; endpoint addresses and keys are left  *)
(* out.  Of an entry only whether its context window is known is kept: Absent,*)
(* Listed or Sized.  Two of the four catalog shapes.  Bounds: MaxSets        *)
(* `model set` of the command line, MaxCommands commands and refreshes.      *)
(***************************************************************************)
EXTENDS Naturals, Sequences, FiniteSetsExt

CONSTANTS
    CustomProviders, BuiltinProviders, Models,
    MaxSets, MaxCommands,
    Failed,    \* no answer from an endpoint
    Answers    \* what an endpoint may answer: per shape of the question, Failed or the models listed

VARIABLES
    default,   \* the agent's model in the configuration
    override,  \* the chat's model
    catalog,   \* models.json: provider -> model -> what is known of it
    cli,       \* the command line between its steps
    command,   \* a /model command between its receipt and its handling
    refresh,   \* a context window being asked for
    daemon,    \* the daemon between reading and writing models.json
    sets, commands,
    torn       \* history: a write of models.json was lost or never made

modelVars == <<default, override, catalog, cli, command, refresh, daemon, sets, commands, torn>>

Providers == CustomProviders \cup BuiltinProviders
Absent == 0
Listed == 1
Sized == 2
Nothing == [m \in Models |-> Absent]
NoModel == <<>>
Idle == [at |-> "idle"]
Known(e1, e2) == IF e1 > e2 THEN e1 ELSE e2

Init ==
    /\ default = [kind |-> "none", model |-> NoModel]
    /\ override = NoModel
    /\ catalog = [p \in Providers |-> Nothing]
    /\ cli = Idle /\ command = Idle /\ refresh = Idle /\ daemon = Idle
    /\ sets = 0 /\ commands = 0
    /\ torn = FALSE

(* ------------------------------------------------------------------------ *)
(* What an endpoint answers *)

\* Only the second shape's entries carry a context window.
extractRuntimeModelLimits(api) == IF api = 1 THEN Listed ELSE Sized

extractDiscoveredRuntimeModelEntry(api, listed) ==
    [m \in Models |-> IF m \in listed THEN extractRuntimeModelLimits(api) ELSE Absent]

fetchModelCatalog(answers, api) ==
    IF answers[api] = Failed THEN Nothing ELSE extractDiscoveredRuntimeModelEntry(api, answers[api])

\* The first shape that lists anything.
fetchProxyModelCatalog(answers) ==
    LET useful == {api \in DOMAIN answers : fetchModelCatalog(answers, api) # Nothing}
    IN  IF useful = {} THEN Nothing ELSE fetchModelCatalog(answers, Min(useful))

\* A built-in provider's endpoints one after the other, what one leaves open
\* filled in from the next.
fetchBuiltinModelCatalog(answers) ==
    [m \in Models |-> Known(fetchModelCatalog(answers, 1)[m], fetchModelCatalog(answers, 2)[m])]

\* The shape a custom endpoint speaks, 0 when neither generates.
probeProxyProtocol(answers, generates) ==
    IF 1 \in generates /\ answers[1] # Failed THEN 1
    ELSE IF 2 \in generates THEN 2 ELSE 0

(* ------------------------------------------------------------------------ *)
(* models.json *)

Mut_upsertRuntimeModelsConfig(cat, p, m, known) ==
    [cat EXCEPT ![p] = [Nothing EXCEPT ![m] = Known(cat[p][m], known)]]

\* An entry is added to its provider's, or keeps what it had where the new one
\* says nothing.
upsertRuntimeModelsConfig(cat, p, m, known) ==
    [cat EXCEPT ![p][m] = Known(@, known)]

persistCatalogEntries(cat, p, entries) ==
    [cat EXCEPT ![p] = [m \in Models |-> Known(@[m], entries[m])]]

\* The worker's registry knows the built-in models by itself.
find(p, m) == p \in BuiltinProviders \/ catalog[p][m] # Absent

resolveEffectiveModel == IF override # NoModel THEN override ELSE default.model

(* ------------------------------------------------------------------------ *)
(* nekoclaw model set *)

\* The endpoint is asked before anything is changed; a failed probe ends it.
Configure(kind, p, m, entries) ==
    /\ cli = Idle /\ sets < MaxSets
    /\ default' = [kind |-> kind, model |-> <<p, m>>]
    /\ cli' = [at |-> "configured", provider |-> p, model |-> m, entries |-> entries]
    /\ sets' = sets + 1
    /\ UNCHANGED <<override, catalog, command, refresh, daemon, commands, torn>>

configureBuiltInModel(p, m, answers) ==
    Configure("builtin", p, m, fetchBuiltinModelCatalog(answers))

\* The models listed in the shape the probe found, else those listed before it.
configureCustomModel(p, m, answers, generates) ==
    LET api == probeProxyProtocol(answers, generates)
        refreshed == fetchModelCatalog(answers, api)
    IN  /\ api # 0
        /\ Configure("custom", p, m, IF refreshed # Nothing THEN refreshed ELSE fetchProxyModelCatalog(answers))

CliReads ==
    /\ cli.at = "configured"
    /\ cli' = [at |-> "writing",
               config |-> upsertRuntimeModelsConfig(
                              persistCatalogEntries(catalog, cli.provider, cli.entries),
                              cli.provider, cli.model, Known(Listed, cli.entries[cli.model])),
               held |-> catalog]
    /\ UNCHANGED <<default, override, catalog, command, refresh, daemon, sets, commands, torn>>

CliWrites ==
    /\ cli.at = "writing"
    /\ catalog' = cli.config
    /\ torn' = (torn \/ catalog # cli.held)
    /\ cli' = Idle
    /\ UNCHANGED <<default, override, command, refresh, daemon, sets, commands>>

CliKilled ==
    /\ cli # Idle
    /\ cli' = Idle
    /\ torn' = TRUE
    /\ UNCHANGED <<default, override, catalog, command, refresh, daemon, sets, commands>>

(* ------------------------------------------------------------------------ *)
(* An admin's /model and /reset, and /status asking for the context window *)

\* The router reads the agent, and may wait for the message's attachments.
Receive(scope, p, m) ==
    /\ daemon = Idle /\ command = Idle /\ commands < MaxCommands
    /\ command' = [at |-> "received", scope |-> scope, provider |-> p, model |-> m,
                   agent |-> IF default.model = NoModel THEN NoModel ELSE default.model[1]]
    /\ commands' = commands + 1
    /\ UNCHANGED <<default, override, catalog, cli, refresh, daemon, sets, torn>>

isModelAllowed == command.provider = command.agent

Mut_isKnownModel == default.kind # "none"

isKnownModel ==
    /\ default.kind # "none"
    /\ catalog[command.provider] # Nothing => catalog[command.provider][command.model] # Absent

Refuse ==
    /\ daemon = Idle /\ command # Idle
    /\ ~(isModelAllowed /\ isKnownModel)
    /\ command' = Idle
    /\ UNCHANGED <<default, override, catalog, cli, refresh, daemon, sets, commands, torn>>

\* For a built-in default only the configuration is written, with the provider
\* asked for.
SetBuiltin ==
    /\ daemon = Idle /\ command # Idle
    /\ isModelAllowed /\ isKnownModel /\ default.kind = "builtin"
    /\ IF command.scope = "global"
       THEN default' = [kind |-> "builtin", model |-> <<command.provider, command.model>>] /\ UNCHANGED override
       ELSE override' = <<command.provider, command.model>> /\ UNCHANGED default
    /\ command' = Idle
    /\ UNCHANGED <<catalog, cli, refresh, daemon, sets, commands, torn>>

\* For a custom default the model is first made sure of in models.json, under
\* the provider configured now.
ensureCustomRuntimeModel ==
    /\ daemon = Idle /\ command # Idle
    /\ isModelAllowed /\ isKnownModel /\ default.kind = "custom"
    /\ daemon' = [at |-> "ensuring", held |-> catalog, config |-> default,
                  write |-> upsertRuntimeModelsConfig(catalog, default.model[1], command.model, Listed)]
    /\ UNCHANGED <<default, override, catalog, cli, command, refresh, sets, commands, torn>>

SetCustom ==
    /\ daemon.at = "ensuring"
    /\ catalog' = daemon.write
    /\ torn' = (torn \/ catalog # daemon.held)
    /\ IF command.scope = "global"
       THEN default' = [kind |-> "custom", model |-> <<daemon.config.model[1], command.model>>] /\ UNCHANGED override
       ELSE override' = <<command.provider, command.model>> /\ UNCHANGED default
    /\ daemon' = Idle /\ command' = Idle
    /\ UNCHANGED <<cli, refresh, sets, commands>>

Reset ==
    /\ daemon = Idle /\ override # NoModel
    /\ override' = NoModel
    /\ UNCHANGED <<default, catalog, cli, command, refresh, daemon, sets, commands, torn>>

\* resolveEffectiveModelWithContext: only where no context window is stored.
AskForContext ==
    /\ daemon = Idle /\ refresh = Idle /\ commands < MaxCommands
    /\ LET e == resolveEffectiveModel
       IN  /\ e # NoModel /\ catalog[e[1]][e[2]] # Sized
           /\ refresh' = [at |-> "asked", provider |-> e[1], model |-> e[2]]
    /\ commands' = commands + 1
    /\ UNCHANGED <<default, override, catalog, cli, command, daemon, sets, torn>>

refreshContextMetadata(answers, api) ==
    /\ daemon = Idle /\ refresh # Idle
    /\ LET known == fetchModelCatalog(answers, api)[refresh.model]
       IN  IF known = Absent THEN daemon' = Idle
           ELSE daemon' = [at |-> "refreshing", held |-> catalog,
                           write |-> upsertRuntimeModelsConfig(catalog, refresh.provider, refresh.model, known)]
    /\ refresh' = Idle
    /\ UNCHANGED <<default, override, catalog, cli, command, sets, commands, torn>>

StoreContext ==
    /\ daemon.at = "refreshing"
    /\ catalog' = daemon.write
    /\ torn' = (torn \/ catalog # daemon.held)
    /\ daemon' = Idle
    /\ UNCHANGED <<default, override, cli, command, refresh, sets, commands>>

Next ==
    \/ \E p \in BuiltinProviders, m \in Models, answers \in Answers : configureBuiltInModel(p, m, answers)
    \/ \E p \in CustomProviders, m \in Models, answers \in Answers, generates \in SUBSET {1, 2} :
          configureCustomModel(p, m, answers, generates)
    \/ CliReads
    \/ CliWrites
    \/ CliKilled
    \/ \E scope \in {"session", "global"}, p \in Providers, m \in Models : Receive(scope, p, m)
    \/ Refuse
    \/ SetBuiltin
    \/ ensureCustomRuntimeModel
    \/ SetCustom
    \/ Reset
    \/ AskForContext
    \/ \E answers \in Answers, api \in {1, 2} : refreshContextMetadata(answers, api)
    \/ StoreContext

Spec == Init /\ [][Next]_modelVars

=============================================================================
