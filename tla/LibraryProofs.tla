---------------------------- MODULE LibraryProofs ----------------------------
(***************************************************************************)
(* What holds of the parts of Library for every number of memory files,    *)
(* writes, command lines, runtimes, providers, models, commands, channels  *)
(* and agents, and for every text, log, memory file and session that is    *)
(* cut for a prompt.                                                       *)
(*                                                                         *)
(* A step is a step of one part and leaves the others alone, so each part  *)
(* has an invariant of its own.                                            *)
(***************************************************************************)
EXTENDS LibraryProps, SequenceTheorems, FiniteSetTheorems, WellFoundedInduction, TLAPS

\* A step of Library is, for each part, a step of it or none.
LEMMA OneOrNone ==
  [Next]_vars =>
    /\ M!Next \/ UNCHANGED maintenanceVars
    /\ C!Next \/ UNCHANGED modelVars
    /\ R!Next \/ UNCHANGED runtimeVars
    /\ A!Next \/ UNCHANGED registryVars
<1> SUFFICES ASSUME [Next]_vars
             PROVE  /\ M!Next \/ UNCHANGED maintenanceVars
                    /\ C!Next \/ UNCHANGED modelVars
                    /\ R!Next \/ UNCHANGED runtimeVars
                    /\ A!Next \/ UNCHANGED registryVars
  OBVIOUS
<1>1. CASE Maintenance  BY <1>1 DEF Maintenance
<1>2. CASE Catalog  BY <1>2 DEF Catalog
<1>3. CASE Runtime  BY <1>3 DEF Runtime
<1>4. CASE Context  BY <1>4 DEF Context
<1>5. CASE Schedule  BY <1>5 DEF Schedule
<1>6. CASE Hear  BY <1>6 DEF Hear
<1>7. CASE Tools  BY <1>7 DEF Tools
<1>8. CASE Register  BY <1>8 DEF Register
<1>9. CASE UNCHANGED vars  BY <1>9 DEF vars
<1> QED  BY <1>1, <1>2, <1>3, <1>4, <1>5, <1>6, <1>7, <1>8, <1>9 DEF Next

-----------------------------------------------------------------------------
(* RuntimeProcess. *)

Alive(p) == process[p] \in {"booting", "running", "exiting"}

\* The runtime that a command line has spawned and not yet written to the file.
Unwritten(p) == lock # Nobody /\ pc[lock] = "spawned" /\ target[lock] = p

\* The lock is with the command line that is where one holds it.
LockHeld ==
  /\ lock \in Clis \cup {Nobody}
  /\ lock # Nobody => pc[lock] \in {"locked", "spawned", "killed"}
  /\ \A c \in Clis : pc[c] \in {"locked", "spawned", "killed"} => lock = c

\* As long as no live pid was written over: whatever is alive is in the file or about
\* to be, and who spawned saw no live runtime in the file.
AliveIsWritten ==
  ~crossed =>
    /\ \A p \in R!Pids : Alive(p) => p = pid \/ Unwritten(p)
    /\ \A p \in R!Pids : Unwritten(p) /\ pid # 0 => ~Alive(pid)

RInv ==
  /\ process \in [R!Pids -> {"none", "booting", "running", "exiting", "dead"}]
  /\ spawned \in 0..MaxRuntimes /\ pid \in 0..spawned /\ target \in [Clis -> 0..spawned]
  /\ pc \in [Clis -> {"idle", "locking", "locked", "spawned", "killed", "waiting", "clearing", "restarting"}]
  /\ crossed \in BOOLEAN
  /\ \A c \in Clis : pc[c] \in {"spawned", "waiting"} => target[c] # 0
  /\ \A p \in R!Pids : p > spawned => process[p] = "none"
  /\ LockHeld
  /\ AliveIsWritten

-----------------------------------------------------------------------------
(* MaintenanceSession. *)

\* No file is younger than the last write.
Stamped ==
  /\ stamp \in Nat /\ live \in [MemoryFiles -> 0..stamp]
  /\ index \in [holds : M!IndexKinds, at : 0..stamp]
  /\ obs \in [lines : Nat, at : 0..stamp] /\ (obs.lines = 0 <=> obs.at = 0)
  /\ changed \subseteq MemoryFiles \cup {"index", "observations"}
  /\ dream = [signature |-> dream.signature, recent |-> dream.recent]

Sessions ==
  [mode : {"none", "formation", "dream"}, clone : [MemoryFiles -> {"absent", "copied", "new"}],
   index : M!IndexKinds, touched : SUBSET (MemoryFiles \cup {"index"}), deleted : SUBSET MemoryFiles,
   final : BOOLEAN, takes : Nat, lines : Nat,
   step : {"tools", "sync"}, copies : SUBSET (MemoryFiles \cup {"index"}), removals : SUBSET MemoryFiles]

\* The clone of a session under way, against the files it was copied from: what the session
\* left alone is as it was, but for observations that came in meanwhile.
CloneAgrees ==
  /\ session \in Sessions
  /\ session.takes <= session.lines /\ session.lines <= obs.lines
  /\ session.mode = "none" => session.lines = 0
  /\ session.mode = "formation" => session.deleted = {} /\ session.lines > 0
  /\ session.mode # "none" =>
        /\ "index" \in session.touched \/ session.index = index.holds
        /\ \A f \in MemoryFiles :
              /\ session.clone[f] = "absent" /\ f \notin session.deleted => live[f] = 0
              /\ session.clone[f] = "copied" => live[f] # 0 /\ f \notin session.touched /\ f \notin session.deleted
              /\ session.clone[f] = "new" => f \in session.touched

\* While it is carried over: what is still to come is what was written or deleted, and the
\* rest is done.
CarriedOver ==
  /\ session.mode # "none" /\ stamp # 0
  /\ session.copies \subseteq {p \in session.touched : p = "index" \/ session.clone[p] # "absent"}
  /\ session.removals \subseteq session.deleted
  /\ "index" \in session.touched \ session.copies => index = [holds |-> session.index, at |-> stamp]
  /\ \A f \in MemoryFiles :
        /\ session.clone[f] = "new" /\ f \notin session.copies \cup session.deleted => live[f] = stamp
        /\ session.clone[f] = "absent" /\ f \notin session.removals => live[f] = 0
  /\ M!ensureSubstantiveIndexAfterMaintenance

SyncAgrees ==
  IF session.step = "tools" THEN session.copies = {} /\ session.removals = {} ELSE CarriedOver

\* What was written since Dream completed is younger than Dream's signature, which is older
\* than a sync under way; only a log that has been used up and a file that is gone may be
\* as they were then.
SignatureAgrees ==
  dream.signature # M!NoSignature =>
    LET then == dream.signature
    IN  /\ then \in (0..stamp) \X [MemoryFiles -> 0..stamp] \X [lines : Nat, at : 0..stamp]
        /\ IF "index" \in changed THEN then[1] < index.at ELSE then[1] = index.at
        /\ \A f \in MemoryFiles :
              IF f \in changed THEN live[f] = 0 \/ then[2][f] < live[f] ELSE then[2][f] = live[f]
        /\ IF "observations" \in changed THEN obs.lines = 0 \/ then[3].at < obs.at ELSE then[3] = obs
        /\ session.step = "sync" =>
              then[1] < stamp /\ then[3].at < stamp /\ \A f \in MemoryFiles : then[2][f] < stamp

MInv == Stamped /\ CloneAgrees /\ SyncAgrees /\ SignatureAgrees

-----------------------------------------------------------------------------
(* ModelStore. *)

Entries == [Models -> {C!Absent, C!Listed, C!Sized}]
Catalogs == [C!Providers -> Entries]
ModelOf == C!Providers \X Models

\* What one catalog knows of a model the other knows as well.
Keeps(cat, more) == \A p \in C!Providers, m \in Models : cat[p][m] # C!Absent => more[p][m] # C!Absent
Has(cat, p, m) == p \in BuiltinProviders \/ cat[p][m] # C!Absent
Lists(p) == p \in BuiltinProviders \/ \E m \in Models : catalog[p][m] # C!Absent

Configuring == cli.at \in {"configured", "writing"}

\* Where the command line, a /model command, a refresh and the daemon may stand.
CliConfigured == [at : {"configured"}, provider : C!Providers, model : Models, entries : Entries]
CliWriting == [at : {"writing"}, config : Catalogs, held : Catalogs]
Commands == [at : {"received"}, scope : {"session", "global"}, provider : C!Providers, model : Models,
             agent : C!Providers \cup {C!NoModel}]
Refreshes == [at : {"asked"}, provider : C!Providers, model : Models]
DaemonRefreshing == [at : {"refreshing"}, held : Catalogs, write : Catalogs]
DaemonEnsuring == [at : {"ensuring"}, held : Catalogs, write : Catalogs,
                   config : [kind : {"custom"}, model : ModelOf]]
Defaults == [kind : {"builtin", "custom"}, model : ModelOf]
NoDefault == [kind |-> "none", model |-> C!NoModel]

StoreTyped ==
  /\ catalog \in Catalogs /\ torn \in BOOLEAN
  /\ default \in Defaults \cup {NoDefault}
  /\ override \in ModelOf \cup {C!NoModel}
  /\ cli \in CliConfigured \cup CliWriting \cup {C!Idle}
  /\ command \in Commands \cup {C!Idle}
  /\ refresh \in Refreshes \cup {C!Idle}
  /\ daemon \in DaemonRefreshing \cup DaemonEnsuring \cup {C!Idle}

\* Each writer of models.json adds to what it read, the daemon the model it was asked for.
WritesExtend ==
  /\ cli.at = "writing" => Keeps(cli.held, cli.config)
  /\ daemon.at \in {"refreshing", "ensuring"} => Keeps(daemon.held, daemon.write)
  /\ daemon.at = "ensuring" =>
        command # C!Idle /\ Has(daemon.write, daemon.config.model[1], command.model)

\* A model that `model set` has put into the configuration and will put into models.json.
Coming(p, m) ==
  /\ default.kind = "custom"
  /\ \/ cli.at = "configured" /\ cli.provider = p /\ cli.model = m
     \/ cli.at = "writing" /\ Has(cli.config, p, m)

\* A chosen model is in models.json or on its way there, and so is the provider that a
\* /model command was received for, which is still the default's.
OverrideFound == override # C!NoModel => C!find(override[1], override[2])
DefaultFound ==
  default # NoDefault =>
    C!find(default.model[1], default.model[2]) \/ Coming(default.model[1], default.model[2])
AgentListed ==
  command # C!Idle /\ command.agent # C!NoModel =>
    \/ Lists(command.agent)
    \/ /\ default # NoDefault /\ default.model[1] = command.agent
       /\ Coming(default.model[1], default.model[2])
EnsuredFound == daemon.at = "ensuring" => Has(daemon.write, command.provider, command.model)

\* That is so while no write was lost.
ChosenAreFound == ~torn => OverrideFound /\ DefaultFound /\ AgentListed /\ EnsuredFound

CInv == StoreTyped /\ WritesExtend /\ ChosenAreFound

-----------------------------------------------------------------------------
(* Registry. *)

Ids == 1..created
Entry == [id : Ids, model : BOOLEAN,
          channels : [ChannelTypes -> {"none", "added", "complete"}],
          sessions : [ChannelTypes -> {"none", "active"}]]

\* The files of the daemon's own that it may be about to write.
Drafts == {"code", "reminder"} \X Ids \X ChannelTypes

RegistryTyped ==
  /\ created \in Nat /\ handler \in 0..created
  /\ registered \in Entry \cup {A!NoAgent}
  /\ workspace \subseteq Ids /\ artifacts \subseteq Ids
  /\ codes \subseteq Ids \X ChannelTypes /\ reminders \subseteq Ids \X ChannelTypes
  /\ draft \in Drafts \cup {A!Nothing}
  /\ console.step \in {"idle", "workspace", "state", "channel", "runtime"} \/ A!Removing
  /\ console.step # "idle" => A!Exists

\* What a removal has taken away of its agent stays away, but for what the daemon writes
\* late, and nothing else is left of any agent before it.
Swept ==
  LET past(steps) == console.step \in steps
      id == registered.id
  IN  /\ past({"crons", "pairs", "artifacts", "root", "entry"}) => A!Active = {}
      /\ past({"pairs", "artifacts", "root", "entry"}) => \A r \in reminders : r[1] = id => <<"reminder", id>> \in late
      /\ past({"artifacts", "root", "entry"}) => \A c \in codes : c[1] = id => <<"code", id>> \in late
      /\ past({"root", "entry"}) /\ id \in artifacts => <<"artifact", id>> \in late
      /\ past({"entry"}) /\ id \in workspace => <<"workspace", id>> \in late

AInv == RegistryTyped /\ Swept /\ RemovalIsComplete

LInv == MInv /\ CInv /\ RInv /\ AInv

-----------------------------------------------------------------------------
(* The runtime process. *)

\* A step of a command line outside the lock: it moves between the steps that do not hold
\* it, and what it does to the runtimes and the file leaves no more alive.
LEMMA OutsideTheLock ==
  ASSUME RInv, NEW c \in Clis, lock # c,
         NEW s \in {"idle", "locking", "waiting", "clearing", "restarting"},
         pc' = [pc EXCEPT ![c] = s], UNCHANGED <<spawned, lock>>,
         process' \in [R!Pids -> {"none", "booting", "running", "exiting", "dead"}],
         \A p \in R!Pids : p > spawned => process'[p] = "none",
         \A p \in R!Pids : Alive(p)' => Alive(p),
         target' \in [Clis -> 0..spawned],
         \A d \in Clis \ {c} : target'[d] = target[d],
         s = "waiting" => target'[c] # 0,
         crossed' \in BOOLEAN, crossed => crossed',
         pid' = pid \/ (pid' = 0 /\ lock = Nobody /\ (R!isRuntimeAlive(pid) => crossed'))
  PROVE  RInv'
<1> USE DEF RInv
<1>1. \A d \in Clis : d # c => pc'[d] = pc[d]
  OBVIOUS
<1>2. pc'[c] = s
  OBVIOUS
<1>3. LockHeld'
  BY <1>1, <1>2 DEF LockHeld
<1>4. \A d \in Clis : pc'[d] \in {"spawned", "waiting"} => target'[d] # 0
  BY <1>1, <1>2
<1>5. \A p \in R!Pids : Unwritten(p)' <=> Unwritten(p)
  BY <1>1, LibraryAssumption DEF Unwritten, LockHeld
<1>6. AliveIsWritten'
  <2> SUFFICES ASSUME ~crossed' PROVE AliveIsWritten'
    BY DEF AliveIsWritten
  <2>1. ~crossed /\ AliveIsWritten  OBVIOUS
  <2>2. CASE pid' = pid
    <3>1. \A p \in R!Pids : Alive(p)' => p = pid' \/ Unwritten(p)'
      BY <2>1, <2>2, <1>5 DEF AliveIsWritten
    <3>2. pid # 0 => pid \in R!Pids  BY LibraryAssumption DEF R!Pids
    <3>3. pid # 0 /\ Alive(pid)' => Alive(pid)  BY <3>2, <2>2 DEF Alive
    <3>5. \A p \in R!Pids : Unwritten(p)' /\ pid' # 0 => ~Alive(pid)'
      BY <2>1, <2>2, <3>3, <1>5 DEF AliveIsWritten
    <3> QED  BY <3>1, <3>5, <2>2 DEF AliveIsWritten
  <2>3. CASE pid' = 0 /\ lock = Nobody /\ ~R!isRuntimeAlive(pid)
    <3>1. \A p \in R!Pids : ~Unwritten(p)  BY <2>3 DEF Unwritten
    <3>2. \A p \in R!Pids : ~Alive(p)
      BY <2>1, <2>3, <3>1, LibraryAssumption DEF AliveIsWritten, R!isRuntimeAlive, Alive, R!Pids
    <3> QED  BY <3>1, <3>2, <1>5 DEF AliveIsWritten
  <2> QED  BY <2>2, <2>3
<1>7. \A p \in R!Pids : p > spawned' => process'[p] = "none"
  OBVIOUS
<1>8. pid' \in 0..spawned'
  OBVIOUS
<1> QED  BY <1>3, <1>4, <1>6, <1>7, <1>8

\* A step of a runtime: its own state changes, to dead or to one that lives on, and it
\* writes its number, no number, or nothing.
LEMMA RuntimeStep ==
  ASSUME RInv, NEW p \in R!Pids, Alive(p), NEW s \in {"running", "exiting", "dead"},
         process' = [process EXCEPT ![p] = s],
         UNCHANGED <<spawned, lock, pc, target>>,
         crossed' \in BOOLEAN, crossed => crossed',
         pid' = pid \/ (/\ pid' = p \/ (pid' = 0 /\ s = "dead")
                        /\ lock = Nobody
                        /\ pid # p /\ R!isRuntimeAlive(pid) => crossed')
  PROVE  RInv'
<1> USE DEF RInv
<1>1. LockHeld'  BY DEF LockHeld
<1>2. p <= spawned
  BY LibraryAssumption DEF Alive, R!Pids
<1>3. pid' \in 0..spawned'
  BY <1>2, LibraryAssumption DEF R!Pids
<1>4. \A q \in R!Pids : q # p => process'[q] = process[q]
  OBVIOUS
<1>5. \A q \in R!Pids : q > spawned' => process'[q] = "none"
  BY <1>2, <1>4, LibraryAssumption DEF R!Pids
<1>6. \A q \in R!Pids : Unwritten(q)' <=> Unwritten(q)
  BY DEF Unwritten
<1>7. \A q \in R!Pids : process'[q] \in {"booting", "running", "exiting"} => Alive(q)
  BY <1>4 DEF Alive
<1>8. AliveIsWritten'
  <2> SUFFICES ASSUME ~crossed' PROVE AliveIsWritten'
    BY DEF AliveIsWritten
  <2>1. ~crossed /\ AliveIsWritten  OBVIOUS
  <2>2. pid # 0 => pid \in R!Pids  BY LibraryAssumption DEF R!Pids
  <2>3. CASE pid' = pid
    <3>1. \A q \in R!Pids : Alive(q)' => q = pid' \/ Unwritten(q)'
      BY <2>1, <2>3, <1>6, <1>7 DEF AliveIsWritten, Alive
    <3>2. \A q \in R!Pids : Unwritten(q)' /\ pid' # 0 => ~Alive(pid)'
      BY <2>1, <2>2, <2>3, <1>6, <1>7 DEF AliveIsWritten, Alive
    <3> QED  BY <3>1, <3>2 DEF AliveIsWritten
  <2>4. CASE lock = Nobody /\ (pid' = p \/ (pid' = 0 /\ s = "dead")) /\ ~(pid # p /\ R!isRuntimeAlive(pid))
    <3>1. \A q \in R!Pids : ~Unwritten(q)  BY <2>4 DEF Unwritten
    <3>2. \A q \in R!Pids : Alive(q) => q = pid
      BY <2>1, <3>1 DEF AliveIsWritten
    <3>3. pid = p
      BY <3>2
    <3>4. \A q \in R!Pids : process'[q] \in {"booting", "running", "exiting"} => q = pid'
      BY <1>7, <2>4, <3>2, <3>3
    <3> QED  BY <3>1, <3>4, <1>6 DEF AliveIsWritten, Alive
  <2> QED  BY <2>3, <2>4
<1> QED  BY <1>1, <1>3, <1>5, <1>8

\* Taking, handing back and losing the lock with no runtime spawned in between.
LEMMA LockStep ==
  ASSUME RInv, NEW c \in Clis, NEW s,
         pc' = [pc EXCEPT ![c] = s], UNCHANGED <<process, spawned, pid, target>>,
         crossed' \in BOOLEAN, crossed => crossed',
         \/ lock = Nobody /\ lock' = c /\ s = "locked"
         \/ lock = c /\ lock' = Nobody /\ s = "idle" /\ pc[c] # "spawned"
         \/ lock = c /\ lock' = c /\ s = "killed" /\ (pc[c] = "spawned" => crossed')
  PROVE  RInv'
<1> USE DEF RInv
<1>1. \A d \in Clis : d # c => pc'[d] = pc[d]
  OBVIOUS
<1>2. pc'[c] = s
  OBVIOUS
<1>3. c # Nobody /\ lock' \in Clis \cup {Nobody}  BY LibraryAssumption
<1>4. LockHeld'
  <2>1. \A d \in Clis : d # c => pc'[d] \notin {"locked", "spawned", "killed"}
    BY <1>1, LibraryAssumption DEF LockHeld
  <2>2. lock' # Nobody => lock' = c /\ s \in {"locked", "killed"}
    OBVIOUS
  <2>3. s \in {"locked", "killed"} => lock' = c
    OBVIOUS
  <2>4. s \in {"locked", "killed", "idle"}
    OBVIOUS
  <2> QED  BY <1>2, <1>3, <2>1, <2>2, <2>3, <2>4 DEF LockHeld
<1>5. \A d \in Clis : pc'[d] \in {"spawned", "waiting"} => target'[d] # 0
  BY <1>1, <1>2
<1>6. ~crossed' => \A p \in R!Pids : ~Unwritten(p) /\ ~Unwritten(p)'
  BY <1>2, <1>3 DEF Unwritten
<1>7. AliveIsWritten'
  BY <1>6 DEF AliveIsWritten, Alive
<1> QED  BY <1>4, <1>5, <1>7

\* The command line that holds the lock finds no live runtime and spawns one.
LEMMA SpawnRInv ==
  ASSUME RInv, NEW c \in Clis, pc[c] = "locked", ~R!isRuntimeAlive(pid), R!Spawn(c)
  PROVE  RInv'
<1> USE DEF RInv
<1> DEFINE n == spawned + 1
<1>1. lock = c /\ c # Nobody  BY LibraryAssumption DEF LockHeld
<1>2. /\ n \in R!Pids /\ n \in 0..MaxRuntimes /\ spawned' = n /\ n # 0
      /\ process' = [process EXCEPT ![n] = "booting"]
      /\ target' = [target EXCEPT ![c] = n] /\ pc' = [pc EXCEPT ![c] = "spawned"]
      /\ UNCHANGED <<pid, lock, thenStart, crossed>>
  BY LibraryAssumption DEF R!Spawn, R!Goes, R!Pids
<1>3. \A d \in Clis : d # c => pc'[d] = pc[d] /\ target'[d] = target[d]
  BY <1>2
<1>4. pc'[c] = "spawned" /\ target'[c] = n  BY <1>2
<1>5. LockHeld'
  BY <1>1, <1>2, <1>3, <1>4 DEF LockHeld
<1>6. \A d \in Clis : pc'[d] \in {"spawned", "waiting"} => target'[d] # 0
  BY <1>2, <1>3, <1>4
<1>7. pid \in 0..n /\ target' \in [Clis -> 0..n] /\ pid # n
  <2>1. spawned \in Nat /\ pid \in Nat /\ pid <= spawned  BY LibraryAssumption
  <2>2. \A d \in Clis : target[d] \in 0..n  BY <2>1
  <2> QED  BY <1>2, <2>1, <2>2
<1>8. \A p \in R!Pids : p > n => process'[p] = "none"
  BY <1>2, LibraryAssumption DEF R!Pids
<1>9. ~crossed => \A p \in R!Pids : ~Alive(p)
  <2>1. \A p \in R!Pids : ~Unwritten(p)  BY <1>1 DEF Unwritten
  <2> QED  BY <2>1, LibraryAssumption DEF AliveIsWritten, R!isRuntimeAlive, Alive, R!Pids
<1>10. AliveIsWritten'
  <2>1. \A p \in R!Pids : Unwritten(p)' <=> p = n  BY <1>1, <1>2, <1>4 DEF Unwritten
  <2>2. \A p \in R!Pids : p # n => process'[p] = process[p]  BY <1>2
  <2>3. pid # 0 => pid \in R!Pids  BY LibraryAssumption DEF R!Pids
  <2>4. ~crossed => \A p \in R!Pids : process'[p] \in {"booting", "running", "exiting"} => p = n
    BY <1>9, <2>2 DEF Alive
  <2> QED  BY <1>2, <1>7, <2>1, <2>3, <2>4 DEF AliveIsWritten, Alive
<1> QED  BY <1>2, <1>5, <1>6, <1>7, <1>8, <1>10

\* The holder of the lock writes the number of the runtime it has spawned.
LEMMA WriteSpawnedRInv ==
  ASSUME RInv, NEW c \in Clis, R!WriteSpawned(c)
  PROVE  RInv'
<1> USE DEF RInv
<1>1. lock = c /\ c # Nobody /\ pc[c] = "spawned"
  BY LibraryAssumption DEF LockHeld, R!WriteSpawned
<1>2. /\ pid' = target[c] /\ lock' = Nobody /\ pc' = [pc EXCEPT ![c] = "idle"]
      /\ UNCHANGED <<process, spawned, target, crossed>>
  BY DEF R!WriteSpawned, R!Goes
<1>3. \A d \in Clis : d # c => pc'[d] = pc[d]
  BY <1>2
<1>4. LockHeld'  BY <1>1, <1>2, <1>3 DEF LockHeld
<1>5. \A d \in Clis : pc'[d] \in {"spawned", "waiting"} => target'[d] # 0
  BY <1>2
<1>6. target[c] \in R!Pids /\ target[c] # 0
  BY <1>1, LibraryAssumption DEF R!Pids
<1>7. AliveIsWritten'
  <2>1. \A p \in R!Pids : Unwritten(p) <=> p = target[c]  BY <1>1 DEF Unwritten
  <2>2. ~crossed => \A p \in R!Pids : Alive(p) => p = target[c]
    BY <1>6, <2>1, LibraryAssumption DEF AliveIsWritten, R!Pids
  <2>3. \A p \in R!Pids : ~Unwritten(p)'  BY <1>2 DEF Unwritten
  <2> QED  BY <1>2, <2>2, <2>3 DEF AliveIsWritten, Alive
<1> QED  BY <1>2, <1>4, <1>5, <1>7

\* Every step of command lines and runtimes keeps the invariant.
LEMMA NextRInv == RInv /\ R!Next => RInv'
<1> SUFFICES ASSUME RInv, R!Next PROVE RInv'
  OBVIOUS
<1>a. pid # 0 => pid \in R!Pids
  BY LibraryAssumption DEF RInv, R!Pids
<1>b. \A c \in Clis : pc[c] \notin {"locked", "spawned", "killed"} => lock # c
  BY LibraryAssumption DEF RInv, LockHeld
<1>1. ASSUME NEW c \in Clis, R!TimesOut(c) PROVE RInv'
  <2>1. lock # c  BY <1>1, <1>b DEF R!TimesOut
  <2> QED  BY <1>1, <2>1, OutsideTheLock DEF R!TimesOut, R!Goes, RInv, Alive
<1>2. ASSUME NEW c \in Clis, R!handleRuntimeStart(c) PROVE RInv'
  <2>1. lock # c  BY <1>2, <1>b DEF R!handleRuntimeStart
  <2>2. PICK s \in {"idle", "locking"} : pc' = [pc EXCEPT ![c] = s]
    BY <1>2 DEF R!handleRuntimeStart, R!Goes
  <2> QED  BY <1>2, <2>1, <2>2, OutsideTheLock DEF R!handleRuntimeStart, RInv, Alive
<1>3. ASSUME NEW c \in Clis, R!Ensure(c) PROVE RInv'
  <2>1. lock # c  BY <1>3, <1>b DEF R!Ensure
  <2> QED  BY <1>3, <2>1, OutsideTheLock DEF R!Ensure, R!Goes, RInv, Alive
<1>4. ASSUME NEW c \in Clis, R!acquireLock(c) PROVE RInv'
  BY <1>4, LockStep DEF R!acquireLock, R!LockFree, R!Goes, RInv
<1>5. ASSUME NEW c \in Clis, R!ensureRuntimeProcess(c) PROVE RInv'
  <2>1. lock = c  BY <1>5 DEF R!ensureRuntimeProcess, RInv, LockHeld
  <2>2. CASE ~R!isRuntimeAlive(pid)
    BY <1>5, <2>2, SpawnRInv DEF R!ensureRuntimeProcess
  <2>3. CASE R!isRuntimeAlive(pid)
    BY <1>5, <2>1, <2>3, LockStep DEF R!ensureRuntimeProcess, R!Goes, RInv
  <2> QED  BY <2>2, <2>3
<1>6. ASSUME NEW c \in Clis, R!WriteSpawned(c) PROVE RInv'
  BY <1>6, WriteSpawnedRInv
<1>7. ASSUME NEW c \in Clis, R!KillCli(c) PROVE RInv'
  <2>1. crossed' \in BOOLEAN /\ (crossed => crossed') /\ (pc[c] = "spawned" => crossed')
    BY <1>7 DEF R!KillCli, RInv
  <2> QED  BY <1>7, <2>1, LockStep DEF R!KillCli, R!Goes
<1>8. ASSUME NEW c \in Clis, NEW restart \in BOOLEAN, R!handleRuntimeStop(c, restart) PROVE RInv'
  <2>1. lock # c  BY <1>8, <1>b DEF R!handleRuntimeStop
  <2>2. target' = [target EXCEPT ![c] = pid] /\ target' \in [Clis -> 0..spawned]
    BY <1>8 DEF R!handleRuntimeStop, RInv
  <2>3. UNCHANGED <<spawned, pid, lock, crossed>>
    BY <1>8 DEF R!handleRuntimeStop
  <2>4. CASE R!isRuntimeAlive(pid)
    <3>1. pid \in R!Pids /\ Alive(pid) /\ pid # 0
      BY <2>4, <1>a DEF R!isRuntimeAlive, Alive
    <3>2. process' = [process EXCEPT ![pid] = R!OnSigterm(pid)] /\ pc' = [pc EXCEPT ![c] = "waiting"]
      BY <1>8, <2>4 DEF R!handleRuntimeStop, R!Goes
    <3>3. R!OnSigterm(pid) \in {"dead", "exiting"}
      BY <3>1 DEF R!OnSigterm, Alive
    <3>4. /\ process' \in [R!Pids -> {"none", "booting", "running", "exiting", "dead"}]
          /\ \A p \in R!Pids : p > spawned => process'[p] = "none"
          /\ \A p \in R!Pids : Alive(p)' => Alive(p)
      BY <3>1, <3>2, <3>3, LibraryAssumption DEF RInv, Alive, R!Pids
    <3> QED  BY <2>1, <2>2, <2>3, <3>1, <3>2, <3>4, OutsideTheLock DEF RInv
  <2>5. CASE ~R!isRuntimeAlive(pid)
    <3>1. UNCHANGED process /\ pc' = [pc EXCEPT ![c] = "clearing"]
      BY <1>8, <2>5 DEF R!handleRuntimeStop, R!Goes
    <3> QED  BY <2>1, <2>2, <2>3, <3>1, OutsideTheLock DEF RInv, Alive
  <2> QED  BY <2>4, <2>5
<1>9. ASSUME NEW c \in Clis, R!waitForRuntimeExit(c) PROVE RInv'
  <2>1. lock # c  BY <1>9, <1>b DEF R!waitForRuntimeExit
  <2>2. target[c] \in R!Pids /\ target[c] <= spawned
    BY <1>9, LibraryAssumption DEF R!waitForRuntimeExit, RInv, R!Pids
  <2>3. /\ process' = [process EXCEPT ![target[c]] = "dead"] /\ pc' = [pc EXCEPT ![c] = "clearing"]
        /\ UNCHANGED <<spawned, pid, lock, target, crossed>>
    BY <1>9 DEF R!waitForRuntimeExit, R!Goes
  <2>4. /\ process' \in [R!Pids -> {"none", "booting", "running", "exiting", "dead"}]
        /\ \A p \in R!Pids : p > spawned => process'[p] = "none"
        /\ \A p \in R!Pids : Alive(p)' => Alive(p)
    BY <2>2, <2>3, LibraryAssumption DEF RInv, Alive, R!Pids
  <2> QED  BY <2>1, <2>3, <2>4, OutsideTheLock DEF RInv
<1>10. ASSUME NEW c \in Clis, R!StopClears(c) PROVE RInv'
  <2>1. lock # c  BY <1>10, <1>b DEF R!StopClears
  <2>2. PICK s \in {"idle", "restarting"} : pc' = [pc EXCEPT ![c] = s]
    BY <1>10 DEF R!StopClears, R!Goes
  <2>3. crossed' \in BOOLEAN /\ (crossed => crossed') /\ (R!isRuntimeAlive(pid) => crossed')
    BY <1>10 DEF R!StopClears, RInv
  <2> QED  BY <1>10, <2>1, <2>2, <2>3, OutsideTheLock
            DEF R!StopClears, R!writeRuntimeProcessState, R!LockFree, RInv, Alive
<1>11. ASSUME R!LockGoesStale PROVE RInv'
  BY <1>11, LockStep DEF R!LockGoesStale, R!Goes, RInv, LockHeld
<1>12. ASSUME NEW p \in R!Pids, R!Boots(p) PROVE RInv'
  <2>1. crossed' \in BOOLEAN /\ (crossed => crossed') /\ (pid # p /\ R!isRuntimeAlive(pid) => crossed')
    BY <1>12 DEF R!Boots, RInv
  <2> QED  BY <1>12, <2>1, RuntimeStep
            DEF R!Boots, R!writeRuntimeProcessState, R!LockFree, R!Becomes, Alive
<1>13. ASSUME NEW p \in R!Pids, R!refreshRuntimeProcessState(p) PROVE RInv'
  <2>1. crossed' \in BOOLEAN /\ (crossed => crossed') /\ (pid # p /\ R!isRuntimeAlive(pid) => crossed')
    BY <1>13 DEF R!refreshRuntimeProcessState, RInv
  <2>2. process' = [process EXCEPT ![p] = process[p]]
    BY <1>13 DEF R!refreshRuntimeProcessState, RInv
  <2> QED  BY <1>13, <2>1, <2>2, RuntimeStep
            DEF R!refreshRuntimeProcessState, R!writeRuntimeProcessState, R!LockFree, Alive
<1>14. ASSUME NEW p \in R!Pids, R!fatalExit(p) \/ R!shutdown(p) PROVE RInv'
  <2>1. crossed' \in BOOLEAN /\ (crossed => crossed') /\ (pid # p /\ R!isRuntimeAlive(pid) => crossed')
    BY <1>14 DEF R!fatalExit, R!shutdown, R!Clears, RInv
  <2> QED  BY <1>14, <2>1, RuntimeStep
            DEF R!fatalExit, R!shutdown, R!writeRuntimeProcessState, R!LockFree, R!Becomes, Alive
<1>15. ASSUME NEW p \in R!Pids, R!Dies(p) PROVE RInv'
  BY <1>15, RuntimeStep DEF R!Dies, R!Becomes, R!isRuntimeAlive, Alive, RInv
<1> QED
  BY <1>1, <1>2, <1>3, <1>4, <1>5, <1>6, <1>7, <1>8, <1>9, <1>10, <1>11, <1>12, <1>13, <1>14, <1>15
  DEF R!Next

\* While nothing of the runtimes changes, the invariant stays.
LEMMA SameRInv == RInv /\ UNCHANGED runtimeVars => RInv'
BY DEF RInv, runtimeVars, LockHeld, AliveIsWritten, Alive, Unwritten

-----------------------------------------------------------------------------
(* The agents of a name. *)

\* The agent that bears the name, or 0.
LEMMA RegisteredId ==
  ASSUME RegistryTyped
  PROVE  /\ registered.id \in 0..created
         /\ A!Exists <=> registered.id # 0
         /\ A!Exists <=> registered \in Entry
<1>1. CASE registered = A!NoAgent
  <2>1. registered.id = 0  BY <1>1 DEF A!NoAgent
  <2>2. registered \notin Entry  BY <2>1 DEF Entry, Ids
  <2> QED  BY <1>1, <2>1, <2>2 DEF RegistryTyped, A!Exists
<1>2. CASE registered \in Entry
  <2>1. registered.id \in 1..created  BY <1>2 DEF Entry, Ids
  <2>2. registered # A!NoAgent  BY <2>1 DEF A!NoAgent
  <2> QED  BY <1>2, <2>1, <2>2 DEF RegistryTyped, A!Exists
<1> QED  BY <1>1, <1>2 DEF RegistryTyped

\* A command on the entry, a session's removal included: it keeps the id, and what it
\* writes is its agent's.
LEMMA EntryStep ==
  ASSUME AInv, A!Exists,
         UNCHANGED <<created, reminders, handler, draft, late>>,
         registered' \in Entry, registered'.id = registered.id,
         workspace' \subseteq workspace \cup {registered.id},
         artifacts' \subseteq artifacts \cup {registered.id},
         codes' \subseteq codes,
         console'.step \in {"idle", "workspace", "state", "channel", "runtime", "sessions"}
  PROVE  AInv'
<1> USE DEF AInv
<1>1. registered.id \in Ids  BY RegisteredId DEF Entry
<1>2. registered' # A!NoAgent
  BY <1>1 DEF A!NoAgent, Ids, RegistryTyped
<1>3. RegistryTyped'
  BY <1>1, <1>2 DEF RegistryTyped, Drafts, Ids, Entry, A!Exists, A!Removing
<1>4. Swept'
  BY DEF Swept
<1>5. RemovalIsComplete'
  BY DEF RemovalIsComplete
<1> QED  BY <1>3, <1>4, <1>5

\* The daemon takes up or puts down an agent, or reads a file it will write.
LEMMA HandlerStep ==
  ASSUME AInv, UNCHANGED <<registered, created, workspace, codes, reminders, artifacts, console, late>>,
         handler' \in 0..created, draft' \in Drafts \cup {A!Nothing}
  PROVE  AInv'
BY DEF AInv, RegistryTyped, Drafts, Swept, RemovalIsComplete, Ids, Entry, A!Exists, A!Removing, A!Active

\* What the daemon writes for an agent that is being removed or gone is on record.
LEMMA LateFacts ==
  ASSUME NEW kind, NEW agent, A!Late(kind, agent)
  PROVE  /\ late \subseteq late'
         /\ agent # registered.id \/ ~A!Exists \/ A!Removing => <<kind, agent>> \in late'
BY DEF A!Late, A!id

\* A handler of the daemon writes into the workspace of the name, also after a removal.
LEMMA WritesWorkspaceAInv == ASSUME AInv, A!WritesWorkspace PROVE AInv'
<1> USE DEF AInv
<1>1. /\ handler # 0 /\ workspace' = workspace \cup {handler} /\ A!Late("workspace", handler)
      /\ UNCHANGED <<registered, created, codes, reminders, artifacts, console, handler, draft>>
  BY DEF A!WritesWorkspace
<1>2. RegistryTyped'
  BY <1>1 DEF RegistryTyped, Drafts, Ids, Entry, A!Exists, A!Removing
<1>3. late \subseteq late'
      /\ (handler # registered.id \/ ~A!Exists \/ A!Removing => <<"workspace", handler>> \in late')
  BY <1>1, LateFacts
<1>4. Swept'
  BY <1>1, <1>3 DEF Swept, A!Active, A!Removing
<1>5. RemovalIsComplete'
  BY <1>1, <1>3 DEF RemovalIsComplete
<1> QED  BY <1>2, <1>4, <1>5

\* It writes the state, queue or audit file of the agent it holds or has a reminder of.
LEMMA WritesArtifactsAInv == ASSUME AInv, NEW agent, A!WritesArtifacts(agent) PROVE AInv'
<1> USE DEF AInv
<1>1. /\ artifacts' = artifacts \cup {agent} /\ A!Late("artifact", agent)
      /\ UNCHANGED <<registered, created, workspace, codes, reminders, console, handler, draft>>
  BY DEF A!WritesArtifacts
<1>2. agent \in Ids
  BY DEF A!WritesArtifacts, RegistryTyped, Ids
<1>3. RegistryTyped'
  BY <1>1, <1>2 DEF RegistryTyped, Drafts, Ids, Entry, A!Exists, A!Removing
<1>4. late \subseteq late'
      /\ (agent # registered.id \/ ~A!Exists \/ A!Removing => <<"artifact", agent>> \in late')
  BY <1>1, LateFacts
<1>5. Swept'
  BY <1>1, <1>4 DEF Swept, A!Active, A!Removing
<1>6. RemovalIsComplete'
  BY <1>1, <1>4 DEF RemovalIsComplete
<1> QED  BY <1>3, <1>5, <1>6

\* It reads for a file that is of an agent there is or was.
LEMMA ReadsAInv ==
  ASSUME AInv, NEW d \in Drafts, A!Reads(d)
  PROVE  AInv'
<1>1. /\ draft' = d /\ UNCHANGED <<registered, created, workspace, codes, reminders, artifacts, console, handler, late>>
  BY DEF A!Reads, A!files
<1> QED  BY <1>1, HandlerStep DEF AInv, RegistryTyped

\* Every file it may be about to write is of that kind.
LEMMA DraftsAInv ==
  ASSUME AInv,
         \/ \E type \in ChannelTypes : A!createOrReusePair(type) \/ A!createSessionCron(type)
         \/ \E c \in codes : A!readPair(c)
         \/ \E r \in reminders : A!requireCron(r)
  PROVE  AInv'
<1>1. ASSUME NEW type \in ChannelTypes, A!createOrReusePair(type) \/ A!createSessionCron(type) PROVE AInv'
  <2>1. handler \in Ids
    BY <1>1, RegisteredId DEF A!createOrReusePair, A!createSessionCron, A!Current, A!id, AInv, Ids, Entry
  <2>2. <<"code", handler, type>> \in Drafts /\ <<"reminder", handler, type>> \in Drafts
    BY <2>1 DEF Drafts
  <2> QED  BY <1>1, <2>2, ReadsAInv DEF A!createOrReusePair, A!createSessionCron
<1>2. ASSUME NEW c \in codes, A!readPair(c) PROVE AInv'
  <2>1. <<"code", c[1], c[2]>> \in Drafts  BY DEF Drafts, AInv, RegistryTyped
  <2> QED  BY <1>2, <2>1, ReadsAInv DEF A!readPair
<1>3. ASSUME NEW r \in reminders, A!requireCron(r) PROVE AInv'
  <2>1. <<"reminder", r[1], r[2]>> \in Drafts  BY DEF Drafts, AInv, RegistryTyped
  <2> QED  BY <1>3, <2>1, ReadsAInv DEF A!requireCron
<1> QED  BY <1>1, <1>2, <1>3

\* It writes that file, whatever has been removed since.
LEMMA WritesFileAInv == ASSUME AInv, A!writeJsonFile PROVE AInv'
<1> USE DEF AInv
<1> DEFINE kind == draft[1]
           agent == draft[2]
           entry == <<draft[2], draft[3]>>
<1>1. /\ draft # A!Nothing /\ draft' = A!Nothing /\ A!Late(kind, agent)
      /\ UNCHANGED <<registered, created, workspace, artifacts, console, handler>>
      /\ IF kind = "code" THEN codes' = codes \cup {entry} /\ reminders' = reminders
                          ELSE reminders' = reminders \cup {entry} /\ codes' = codes
  BY DEF A!writeJsonFile
<1>2. kind \in {"code", "reminder"} /\ agent \in Ids /\ entry \in Ids \X ChannelTypes /\ entry[1] = agent
  BY <1>1 DEF RegistryTyped, Drafts
<1>3. late \subseteq late'
      /\ (agent # registered.id \/ ~A!Exists \/ A!Removing => <<kind, agent>> \in late')
  BY <1>1, LateFacts
<1> HIDE DEF kind, agent, entry
<1>4. RegistryTyped'
  BY <1>1, <1>2 DEF RegistryTyped, Drafts, Ids, Entry, A!Exists, A!Removing
<1>5. \A c \in codes' : c \in codes \/ (kind = "code" /\ c[1] = agent)
  BY <1>1, <1>2
<1>6. \A r \in reminders' : r \in reminders \/ (kind = "reminder" /\ r[1] = agent)
  BY <1>1, <1>2
<1>7. Swept'
  BY <1>1, <1>3, <1>5, <1>6 DEF Swept, A!Active, A!Removing
<1>8. RemovalIsComplete'
  BY <1>1, <1>3, <1>5, <1>6 DEF RemovalIsComplete
<1> QED  BY <1>4, <1>7, <1>8

\* An agent is created under a free name: nothing that is left is its own.
LEMMA CreateAInv == ASSUME AInv, A!createAgent PROVE AInv'
<1> USE DEF AInv
<1> DEFINE n == created + 1
           e == [id |-> n, model |-> FALSE,
                 channels |-> [t \in ChannelTypes |-> "none"], sessions |-> [t \in ChannelTypes |-> "none"]]
<1>1. /\ ~A!Exists /\ created' = n /\ registered' = e
      /\ console'.step = "workspace"
      /\ UNCHANGED <<workspace, codes, reminders, artifacts, handler, draft, late>>
  BY DEF A!createAgent, A!Do, A!files
<1>2. registered.id = 0  BY <1>1, RegisteredId
<1>3. created \in Nat /\ n \in Nat /\ n \in 1..n /\ \A a \in Ids : a \in 1..n /\ a # n
  BY DEF RegistryTyped, Ids
<1>4. registered' \in Entry' /\ registered'.id = n
  BY <1>1, <1>3 DEF Entry, Ids
<1>5. A!Exists'
  BY <1>1, <1>3 DEF A!Exists, A!NoAgent
<1>6. RegistryTyped'
  <2>1. handler' \in 0..n  BY <1>1, <1>3 DEF RegistryTyped
  <2>2. workspace' \subseteq 1..n /\ artifacts' \subseteq 1..n
        /\ codes' \subseteq (1..n) \X ChannelTypes /\ reminders' \subseteq (1..n) \X ChannelTypes
    BY <1>1, <1>3 DEF RegistryTyped
  <2>3. draft' \in ({"code", "reminder"} \X (1..n) \X ChannelTypes) \cup {A!Nothing}
    BY <1>1, <1>3 DEF RegistryTyped, Drafts
  <2> QED  BY <1>1, <1>3, <1>4, <1>5, <2>1, <2>2, <2>3 DEF RegistryTyped, Drafts, Ids
<1>7. Swept'
  BY <1>1 DEF Swept
<1>8. RemovalIsComplete'
  <2>1. /\ \A a \in workspace : a # 0 /\ <<"workspace", a>> \in late
        /\ \A a \in artifacts : a # 0 /\ <<"artifact", a>> \in late
        /\ \A c \in codes : c[1] # 0 /\ <<"code", c[1]>> \in late
        /\ \A r \in reminders : r[1] # 0 /\ <<"reminder", r[1]>> \in late
    BY <1>2 DEF RemovalIsComplete, RegistryTyped, Ids
  <2> QED  BY <1>1, <2>1 DEF RemovalIsComplete
<1> QED  BY <1>6, <1>7, <1>8

\* A step of the removal keeps the entry and writes nothing.
LEMMA RemovalTyped ==
  ASSUME AInv, A!Exists, UNCHANGED <<registered, created, handler, draft>>,
         workspace' \subseteq workspace, codes' \subseteq codes, reminders' \subseteq reminders,
         artifacts' \subseteq artifacts, console'.step \in {"crons", "pairs", "artifacts", "root", "entry"}
  PROVE  RegistryTyped'
BY DEF AInv, RegistryTyped, Drafts, Ids, Entry, A!Exists, A!Removing

\* The sessions of the agent are gone: the removal goes on to its reminders.
LEMMA SessionsGoneAInv ==
  ASSUME AInv, A!Exists, A!Active = {}, console'.step = "crons",
         UNCHANGED <<registered, created, workspace, codes, reminders, artifacts, handler, draft, late>>
  PROVE  AInv'
<1> USE DEF AInv
<1>1. RegistryTyped'  BY RemovalTyped
<1>2. Swept'  BY DEF Swept, A!Active
<1>3. RemovalIsComplete'  BY DEF RemovalIsComplete
<1> QED  BY <1>1, <1>2, <1>3

\* Its reminders are deleted, and the record of those written late with them.
LEMMA CronsGoneAInv == ASSUME AInv, A!deleteCronsForAgent PROVE AInv'
<1> USE DEF AInv
<1>1. /\ console.step = "crons" /\ console'.step = "pairs"
      /\ reminders' = {r \in reminders : r[1] # registered.id}
      /\ late' = late \ {<<"reminder", registered.id>>}
      /\ UNCHANGED <<registered, created, workspace, codes, artifacts, handler, draft>>
  BY DEF A!deleteCronsForAgent, A!Do, A!id
<1>2. A!Exists  BY <1>1 DEF RegistryTyped
<1>3. RegistryTyped'  BY <1>1, <1>2, RemovalTyped
<1>4. Swept'  BY <1>1 DEF Swept, A!Active
<1>5. RemovalIsComplete'  BY <1>1 DEF RemovalIsComplete
<1> QED  BY <1>3, <1>4, <1>5

\* Its codes are deleted, and the record of those written late with them.
LEMMA PairsGoneAInv == ASSUME AInv, A!deletePairsForAgent PROVE AInv'
<1> USE DEF AInv
<1>1. /\ console.step = "pairs" /\ console'.step = "artifacts"
      /\ codes' = {c \in codes : c[1] # registered.id}
      /\ late' = late \ {<<"code", registered.id>>}
      /\ UNCHANGED <<registered, created, workspace, reminders, artifacts, handler, draft>>
  BY DEF A!deletePairsForAgent, A!Do, A!id
<1>2. A!Exists  BY <1>1 DEF RegistryTyped
<1>3. RegistryTyped'  BY <1>1, <1>2, RemovalTyped
<1>4. Swept'  BY <1>1 DEF Swept, A!Active
<1>5. RemovalIsComplete'  BY <1>1 DEF RemovalIsComplete
<1> QED  BY <1>3, <1>4, <1>5

\* Its state, queue and audit files are deleted, likewise.
LEMMA ArtifactsGoneAInv == ASSUME AInv, A!removeAgentArtifacts PROVE AInv'
<1> USE DEF AInv
<1>1. /\ console.step = "artifacts" /\ console'.step = "root"
      /\ artifacts' = artifacts \ {registered.id}
      /\ late' = late \ {<<"artifact", registered.id>>}
      /\ UNCHANGED <<registered, created, workspace, codes, reminders, handler, draft>>
  BY DEF A!removeAgentArtifacts, A!Do, A!id
<1>2. A!Exists  BY <1>1 DEF RegistryTyped
<1>3. RegistryTyped'  BY <1>1, <1>2, RemovalTyped
<1>4. Swept'
  <2>1. /\ \A c \in codes' : c[1] = registered.id => <<"code", registered.id>> \in late'
        /\ \A r \in reminders' : r[1] = registered.id => <<"reminder", registered.id>> \in late'
    BY <1>1 DEF Swept
  <2> QED  BY <1>1, <2>1 DEF Swept, A!Active
<1>5. RemovalIsComplete'
  BY <1>1 DEF RemovalIsComplete
<1> QED  BY <1>3, <1>4, <1>5

\* The workspace of the name is deleted, whosever files were in it.
LEMMA WorkspaceGoneAInv == ASSUME AInv, A!removeWorkspace PROVE AInv'
<1> USE DEF AInv
<1>1. /\ console.step = "root" /\ console'.step = "entry"
      /\ workspace' = {} /\ late' = {l \in late : l[1] # "workspace"}
      /\ UNCHANGED <<registered, created, codes, reminders, artifacts, handler, draft>>
  BY DEF A!removeWorkspace, A!Do
<1>2. A!Exists  BY <1>1 DEF RegistryTyped
<1>3. RegistryTyped'  BY <1>1, <1>2, RemovalTyped
<1>4. /\ \A a : <<"code", a>> \in late => <<"code", a>> \in late'
      /\ \A a : <<"artifact", a>> \in late => <<"artifact", a>> \in late'
      /\ \A a : <<"reminder", a>> \in late => <<"reminder", a>> \in late'
  BY <1>1
<1>5. Swept'  BY <1>1, <1>4 DEF Swept, A!Active
<1>6. RemovalIsComplete'  BY <1>1, <1>4 DEF RemovalIsComplete
<1> QED  BY <1>3, <1>5, <1>6

\* The entry goes last: by then all that bears its id is on record.
LEMMA EntryGoneAInv == ASSUME AInv, A!deleteAgentConfig PROVE AInv'
<1> USE DEF AInv
<1>1. /\ console.step = "entry" /\ console'.step = "idle" /\ registered' = A!NoAgent
      /\ UNCHANGED <<created, workspace, codes, reminders, artifacts, handler, draft, late>>
  BY DEF A!deleteAgentConfig, A!files, A!Idle
<1>2. RegistryTyped'
  BY <1>1 DEF RegistryTyped, Drafts, Ids, Entry, A!Exists, A!Removing
<1>3. Swept'  BY <1>1 DEF Swept
<1>4. RemovalIsComplete'
  BY <1>1 DEF Swept, RemovalIsComplete
<1> QED  BY <1>2, <1>3, <1>4

\* What the commands on the entry make of it is an entry with the same id.
LEMMA EntryUpdates ==
  ASSUME NEW e \in Entry
  PROVE  /\ \A t \in ChannelTypes, v \in {"none", "added", "complete"} :
              LET f == [e EXCEPT !.channels[t] = v] IN f \in Entry /\ f.id = e.id
         /\ \A t \in ChannelTypes, v \in {"none", "active"} :
              LET f == [e EXCEPT !.sessions[t] = v] IN f \in Entry /\ f.id = e.id
         /\ LET f == [e EXCEPT !.model = TRUE] IN f \in Entry /\ f.id = e.id
<1>1. ASSUME NEW t \in ChannelTypes, NEW v \in {"none", "added", "complete"}
      PROVE  LET f == [e EXCEPT !.channels[t] = v] IN f \in Entry /\ f.id = e.id
  BY DEF Entry
<1>2. ASSUME NEW t \in ChannelTypes, NEW v \in {"none", "active"}
      PROVE  LET f == [e EXCEPT !.sessions[t] = v] IN f \in Entry /\ f.id = e.id
  BY DEF Entry
<1>3. LET f == [e EXCEPT !.model = TRUE] IN f \in Entry /\ f.id = e.id
  BY DEF Entry
<1> QED  BY <1>1, <1>2, <1>3

\* Commands that only change the entry and write a line of the audit.
LEMMA UpdateAInv ==
  ASSUME AInv, NEW e, A!Update(e), A!Exists => e \in Entry /\ e.id = registered.id
  PROVE  AInv'
<1>1. /\ A!Exists /\ registered' = e /\ artifacts' = artifacts \cup {registered.id}
      /\ console.step = "idle"
      /\ UNCHANGED <<created, workspace, codes, reminders, console, handler, draft, late>>
  BY DEF A!Update, A!id, A!Idle
<1> QED  BY <1>1, EntryStep

\* A session's removal, by force of a channel's or as a step of the agent's.
LEMMA RemoveSessionAInv ==
  ASSUME AInv, A!Exists, NEW type \in ChannelTypes, A!removeSession(type),
         UNCHANGED <<created, workspace, codes, reminders, handler, draft, late>>,
         console'.step \in {"channel", "sessions"}
  PROVE  AInv'
<1>1. registered \in Entry  BY RegisteredId DEF AInv
<1>2. registered' \in Entry /\ registered'.id = registered.id /\ artifacts' = artifacts \cup {registered.id}
  BY <1>1, EntryUpdates DEF A!removeSession, A!id
<1> QED  BY <1>2, EntryStep

\* Every step of the command lines and the daemon keeps the invariant.
LEMMA NextAInv == AInv /\ A!Next => AInv'
<1> SUFFICES ASSUME AInv, A!Next PROVE AInv'
  OBVIOUS
<1>a. A!Exists => registered \in Entry
  BY RegisteredId DEF AInv
<1>b. console.step # "idle" => A!Exists
  BY DEF AInv, RegistryTyped
<1>c. A!Idle.step = "idle"
  BY DEF A!Idle
<1>1. ASSUME A!ensureWorkspace \/ A!writeRuntimeState PROVE AInv'
  <2>1. A!Exists  BY <1>1, <1>b DEF A!ensureWorkspace, A!writeRuntimeState
  <2> QED  BY <1>1, <1>a, <1>c, <2>1, EntryStep DEF A!ensureWorkspace, A!writeRuntimeState, A!Do, A!id
<1>2. ASSUME NEW type \in ChannelTypes, A!createChannel(type) \/ A!setChannelToken(type) PROVE AInv'
  BY <1>2, <1>a, EntryUpdates, UpdateAInv DEF A!createChannel, A!setChannelToken
<1>3. ASSUME NEW type \in ChannelTypes, A!acceptPair(type) PROVE AInv'
  <2>1. A!Exists /\ registered \in Entry  BY <1>3, <1>a DEF A!acceptPair
  <2>2. registered' \in Entry /\ registered'.id = registered.id
    BY <1>3, <2>1, EntryUpdates DEF A!acceptPair
  <2> QED  BY <1>3, <1>c, <2>1, <2>2, EntryStep DEF A!acceptPair, A!id
<1>4. ASSUME NEW type \in ChannelTypes, NEW force \in BOOLEAN, A!removeChannel(type, force) PROVE AInv'
  <2>1. A!Exists /\ registered \in Entry /\ console'.step = "channel"
    BY <1>4, <1>a DEF A!removeChannel, A!Do
  <2>2. CASE type \in A!Active
    BY <1>4, <2>1, <2>2, RemoveSessionAInv DEF A!removeChannel
  <2>3. CASE type \notin A!Active
    BY <1>4, <2>1, <2>3, EntryStep DEF A!removeChannel
  <2> QED  BY <2>2, <2>3
<1>5. ASSUME A!deleteChannel PROVE AInv'
  <2>1. A!Exists /\ registered \in Entry /\ console'.step = "idle"
    BY <1>5, <1>a, <1>b, <1>c DEF A!deleteChannel
  <2>2. registered' = [registered EXCEPT !.channels[console.channel] = "none"]
    BY <1>5 DEF A!deleteChannel
  <2>3. registered' \in Entry /\ registered'.id = registered.id
    BY <2>1, <2>2 DEF Entry
  <2> QED  BY <1>5, <2>1, <2>3, EntryStep DEF A!deleteChannel, A!id
<1>6. ASSUME A!setModelConfig \/ A!changeAdmins PROVE AInv'
  BY <1>6, <1>a, EntryUpdates, UpdateAInv DEF A!setModelConfig, A!changeAdmins
<1>7. ASSUME A!handleAgentEnable \/ A!handleAgentDisable PROVE AInv'
  BY <1>7, <1>a, EntryUpdates, UpdateAInv DEF A!handleAgentEnable, A!handleAgentDisable
<1>8. ASSUME NEW force \in BOOLEAN, A!handleAgentRemove(force) PROVE AInv'
  BY <1>8, <1>a, EntryStep DEF A!handleAgentRemove, A!Do, A!files
<1>9. ASSUME A!removeAgentRuntime PROVE AInv'
  <2>1. A!Exists  BY <1>9, <1>b DEF A!removeAgentRuntime
  <2> QED  BY <1>9, <1>a, <1>c, <2>1, EntryStep DEF A!removeAgentRuntime, A!Do, A!id
<1>10. ASSUME A!purgeSessions PROVE AInv'
  <2>1. A!Exists  BY <1>10, <1>b DEF A!purgeSessions
  <2>2. CASE A!Active = {} /\ A!Do("crons", "-") /\ UNCHANGED <<registered, artifacts>>
    BY <1>10, <2>1, <2>2, SessionsGoneAInv DEF A!purgeSessions, A!Do
  <2>3. CASE (\E type \in A!Active : A!removeSession(type)) /\ UNCHANGED console
    BY <1>10, <2>1, <2>3, RemoveSessionAInv DEF A!purgeSessions, A!Active
  <2> QED  BY <1>10, <2>2, <2>3 DEF A!purgeSessions
<1>11. ASSUME A!CliKilled PROVE AInv'
  <2>1. CASE A!Exists
    BY <1>11, <1>a, <1>c, <2>1, EntryStep DEF A!CliKilled, A!files
  <2>2. CASE ~A!Exists
    BY <1>11, <1>c, <2>2 DEF A!CliKilled, A!files, A!Exists, AInv, RegistryTyped, Swept, RemovalIsComplete,
                        Drafts, Ids, Entry, A!Removing
  <2> QED  BY <2>1, <2>2
<1>12. ASSUME A!Begins \/ A!Ends PROVE AInv'
  <2>1. handler' \in 0..created /\ draft' \in Drafts \cup {A!Nothing}
    BY <1>12, <1>a DEF A!Begins, A!Ends, A!id, Entry, Ids, AInv, RegistryTyped
  <2> QED  BY <1>12, <2>1, HandlerStep DEF A!Begins, A!Ends, A!files
<1>13. ASSUME \/ \E type \in ChannelTypes : A!createOrReusePair(type) \/ A!createSessionCron(type)
              \/ \E c \in codes : A!readPair(c)
              \/ \E r \in reminders : A!requireCron(r)
       PROVE  AInv'
  BY <1>13, DraftsAInv
<1>14. ASSUME NEW agent, A!WritesArtifacts(agent) PROVE AInv'
  BY <1>14, WritesArtifactsAInv
<1> QED
  BY <1>1, <1>2, <1>3, <1>4, <1>5, <1>6, <1>7, <1>8, <1>9, <1>10, <1>11, <1>12, <1>13, <1>14, CreateAInv,
     CronsGoneAInv, PairsGoneAInv, ArtifactsGoneAInv, WorkspaceGoneAInv, EntryGoneAInv,
     WritesWorkspaceAInv, WritesFileAInv
  DEF A!Next

\* While nothing of the agents changes, the invariant stays.
LEMMA SameAInv == AInv /\ UNCHANGED registryVars => AInv'
BY DEF AInv, registryVars, RegistryTyped, Drafts, Swept, RemovalIsComplete, Ids, Entry, A!Exists, A!Removing, A!Active

-----------------------------------------------------------------------------
(* A maintenance session. *)

\* A step that leaves the files alone keeps what is known of them.
LEMMA FilesStay ==
  ASSUME MInv, UNCHANGED <<stamp, live, index, obs, changed>>,
         dream' = dream \/ dream' = [signature |-> dream.signature, recent |-> FALSE],
         session'.step = "sync" => session.step = "sync"
  PROVE  Stamped' /\ SignatureAgrees'
<1>1. dream'.signature = dream.signature
  OBVIOUS
<1>2. dream' = [signature |-> dream'.signature, recent |-> dream'.recent]
  BY DEF MInv, Stamped
<1>3. Stamped'  BY <1>2 DEF MInv, Stamped
<1> QED  BY <1>1, <1>3 DEF MInv, SignatureAgrees, M!NoSignature

\* The clone a session begins with agrees with the files.
LEMMA NewClone ==
  ASSUME MInv, NEW mode \in {"formation", "dream"}, session' = M!createMaintenanceClone(mode),
         mode = "formation" => obs.lines > 0,
         UNCHANGED <<stamp, live, index, obs>>
  PROVE  CloneAgrees' /\ SyncAgrees' /\ session'.step = "tools"
<1> DEFINE c == [f \in MemoryFiles |-> IF live[f] = 0 THEN "absent" ELSE "copied"]
           n == IF mode = "dream" THEN 0 ELSE obs.lines
<1>1. session' = [mode |-> mode, clone |-> c, index |-> index.holds, touched |-> {}, deleted |-> {},
                  final |-> FALSE, takes |-> 0, lines |-> n,
                  step |-> "tools", copies |-> {}, removals |-> {}]
  BY DEF M!createMaintenanceClone, M!Idle
<1>2. index.holds \in M!IndexKinds /\ n \in Nat /\ n <= obs.lines
  BY DEF MInv, Stamped
<1>3. c \in [MemoryFiles -> {"absent", "copied", "new"}]
      /\ \A f \in MemoryFiles : c[f] = (IF live[f] = 0 THEN "absent" ELSE "copied")
  OBVIOUS
<1> HIDE DEF c, n
<1>4. mode = "formation" => n > 0  BY DEF n
<1> QED  BY <1>1, <1>2, <1>3, <1>4 DEF CloneAgrees, SyncAgrees, Sessions

\* No session: nothing to agree with.
LEMMA NoClone ==
  ASSUME Stamped', session' = M!Idle
  PROVE  CloneAgrees' /\ SyncAgrees' /\ session'.step = "tools"
<1>1. session' = [mode |-> "none", clone |-> [f \in MemoryFiles |-> "absent"], index |-> "placeholder",
                  touched |-> {}, deleted |-> {}, final |-> FALSE, takes |-> 0, lines |-> 0,
                  step |-> "tools", copies |-> {}, removals |-> {}]
  BY DEF M!Idle
<1> QED  BY <1>1 DEF CloneAgrees, SyncAgrees, Sessions, Stamped, M!IndexKinds

\* Where a session stands in carrying over.
SameStep(q, r) == q.step = r.step /\ q.copies = r.copies /\ q.removals = r.removals

\* Which fields of a session each tool changes.
LEMMA EditFields ==
  ASSUME NEW r \in Sessions, NEW f \in MemoryFiles
  PROVE  LET q == [r EXCEPT !.clone[f] = "new", !.touched = @ \cup {f}]
         IN  /\ q \in Sessions /\ q.mode = r.mode /\ q.index = r.index /\ q.deleted = r.deleted
             /\ q.takes = r.takes /\ q.lines = r.lines /\ SameStep(q, r)
             /\ q.touched = r.touched \cup {f} /\ q.clone[f] = "new"
             /\ \A g \in MemoryFiles : g # f => q.clone[g] = r.clone[g]
BY DEF Sessions, SameStep

\* A file is deleted in the clone.
LEMMA DeleteFields ==
  ASSUME NEW r \in Sessions, NEW f \in MemoryFiles
  PROVE  LET q == [r EXCEPT !.clone[f] = "absent", !.deleted = @ \cup {f}]
         IN  /\ q \in Sessions /\ q.mode = r.mode /\ q.index = r.index /\ q.touched = r.touched
             /\ q.takes = r.takes /\ q.lines = r.lines /\ SameStep(q, r)
             /\ q.deleted = r.deleted \cup {f} /\ q.clone[f] = "absent"
             /\ \A g \in MemoryFiles : g # f => q.clone[g] = r.clone[g]
BY DEF Sessions, SameStep

\* The index is written in the clone.
LEMMA IndexFields ==
  ASSUME NEW r \in Sessions, NEW kind \in M!IndexKinds
  PROVE  LET q == [r EXCEPT !.index = kind, !.touched = @ \cup {"index"}]
         IN  /\ q \in Sessions /\ q.mode = r.mode /\ q.clone = r.clone /\ q.deleted = r.deleted
             /\ q.takes = r.takes /\ q.lines = r.lines /\ SameStep(q, r)
             /\ q.touched = r.touched \cup {"index"}
BY DEF Sessions, SameStep

\* persona_finalize takes its lines.
LEMMA FinalFields ==
  ASSUME NEW r \in Sessions, NEW n \in 0..r.lines
  PROVE  LET q == [r EXCEPT !.final = TRUE, !.takes = n]
         IN  /\ q \in Sessions /\ q.mode = r.mode /\ q.clone = r.clone /\ q.deleted = r.deleted
             /\ q.index = r.index /\ q.touched = r.touched /\ q.lines = r.lines /\ SameStep(q, r)
             /\ q.takes = n
<1>1. n \in Nat  BY DEF Sessions
<1> QED  BY <1>1 DEF Sessions, SameStep

\* An edited or a new file of the clone is touched.
LEMMA EditClone ==
  ASSUME MInv, NEW f \in MemoryFiles, session.mode # "none",
         UNCHANGED <<stamp, live, index, obs>>, session' \in Sessions,
         UNCHANGED <<session.mode, session.index, session.deleted, session.takes, session.lines>>,
         session'.touched = session.touched \cup {f}, session'.clone[f] = "new",
         \A g \in MemoryFiles : g # f => session'.clone[g] = session.clone[g]
  PROVE  CloneAgrees'
BY DEF MInv, CloneAgrees

\* Dream's deletion is remembered, also when the file is written again later.
LEMMA DeleteInClone ==
  ASSUME MInv, NEW f \in MemoryFiles, session.mode = "dream",
         UNCHANGED <<stamp, live, index, obs>>, session' \in Sessions,
         UNCHANGED <<session.mode, session.index, session.touched, session.takes, session.lines>>,
         session'.deleted = session.deleted \cup {f}, session'.clone[f] = "absent",
         \A g \in MemoryFiles : g # f => session'.clone[g] = session.clone[g]
  PROVE  CloneAgrees'
BY DEF MInv, CloneAgrees

\* The other tools leave the memory files of the clone alone.
LEMMA RestOfClone ==
  ASSUME MInv, session.mode # "none",
         UNCHANGED <<live, index, obs>>, session' \in Sessions,
         UNCHANGED <<session.mode, session.clone, session.deleted, session.lines>>,
         session'.takes <= session.lines,
         \/ UNCHANGED <<session.index, session.touched>>
         \/ session'.touched = session.touched \cup {"index"}
  PROVE  CloneAgrees'
<1>1. \A g \in MemoryFiles : g \in session'.touched <=> g \in session.touched
  BY LibraryAssumption
<1> QED  BY <1>1 DEF MInv, CloneAgrees

\* A step of a session before its end.
LEMMA ToolMInv ==
  ASSUME MInv,
         \/ \E f \in MemoryFiles : M!Edit(f) \/ M!Write(f) \/ M!Delete(f)
         \/ \E kind \in M!IndexKinds : M!EditIndex(kind)
         \/ \E n \in 0..MaxStamp : M!Finalize(n)
  PROVE  MInv'
<1>0. session \in Sessions /\ session.takes <= session.lines
  BY DEF MInv, CloneAgrees
<1>1. /\ UNCHANGED <<stamp, live, index, obs, dream, queued, changed>>
      /\ session.mode # "none" /\ session.step = "tools"
  BY DEF M!Edit, M!Write, M!Delete, M!EditIndex, M!Finalize, M!Uses
<1>2. ASSUME CloneAgrees', SameStep(session', session) PROVE MInv'
  <2>1. session'.step = "tools" /\ SyncAgrees'  BY <1>1, <1>2 DEF MInv, SyncAgrees, SameStep
  <2> QED  BY <1>1, <1>2, <2>1, FilesStay DEF MInv
<1>3. ASSUME NEW f \in MemoryFiles, M!Edit(f) \/ M!Write(f) PROVE MInv'
  <2>1. session' = [session EXCEPT !.clone[f] = "new", !.touched = @ \cup {f}]
    BY <1>3 DEF M!Edit, M!Write, M!Uses
  <2>2. /\ session' \in Sessions /\ SameStep(session', session)
        /\ UNCHANGED <<session.mode, session.index, session.deleted, session.takes, session.lines>>
        /\ session'.touched = session.touched \cup {f} /\ session'.clone[f] = "new"
        /\ \A g \in MemoryFiles : g # f => session'.clone[g] = session.clone[g]
    <3> DEFINE edited == [session EXCEPT !.clone[f] = "new", !.touched = @ \cup {f}]
    <3>1. /\ edited \in Sessions /\ edited.mode = session.mode /\ edited.index = session.index
          /\ edited.deleted = session.deleted /\ edited.takes = session.takes /\ edited.lines = session.lines
          /\ SameStep(edited, session)
          /\ edited.touched = session.touched \cup {f} /\ edited.clone[f] = "new"
          /\ \A g \in MemoryFiles : g # f => edited.clone[g] = session.clone[g]
      BY <1>0, EditFields
    <3>2. session' = edited  BY <2>1
    <3> HIDE DEF edited
    <3> QED  BY <3>1, <3>2
  <2> QED  BY <1>1, <1>2, <2>2, EditClone
<1>4. ASSUME NEW f \in MemoryFiles, M!Delete(f) PROVE MInv'
  <2>1. session.mode = "dream"
    BY <1>4 DEF M!Delete
  <2>2. session' = [session EXCEPT !.clone[f] = "absent", !.deleted = @ \cup {f}]
    BY <1>4 DEF M!Delete, M!Uses
  <2>3. /\ session' \in Sessions /\ SameStep(session', session)
        /\ UNCHANGED <<session.mode, session.index, session.touched, session.takes, session.lines>>
        /\ session'.deleted = session.deleted \cup {f} /\ session'.clone[f] = "absent"
        /\ \A g \in MemoryFiles : g # f => session'.clone[g] = session.clone[g]
    <3> DEFINE edited == [session EXCEPT !.clone[f] = "absent", !.deleted = @ \cup {f}]
    <3>1. /\ edited \in Sessions /\ edited.mode = session.mode /\ edited.index = session.index
          /\ edited.touched = session.touched /\ edited.takes = session.takes /\ edited.lines = session.lines
          /\ SameStep(edited, session)
          /\ edited.deleted = session.deleted \cup {f} /\ edited.clone[f] = "absent"
          /\ \A g \in MemoryFiles : g # f => edited.clone[g] = session.clone[g]
      BY <1>0, DeleteFields
    <3>2. session' = edited  BY <2>2
    <3> HIDE DEF edited
    <3> QED  BY <3>1, <3>2
  <2> QED  BY <1>1, <1>2, <2>1, <2>3, DeleteInClone
<1>5. ASSUME NEW kind \in M!IndexKinds, M!EditIndex(kind) PROVE MInv'
  <2>1. session' = [session EXCEPT !.index = kind, !.touched = @ \cup {"index"}]
    BY <1>5 DEF M!EditIndex, M!Uses
  <2>2. /\ session' \in Sessions /\ session'.takes = session.takes /\ SameStep(session', session)
        /\ UNCHANGED <<session.mode, session.clone, session.deleted, session.lines>>
        /\ session'.touched = session.touched \cup {"index"}
    BY <1>0, <2>1, IndexFields
  <2> QED  BY <1>0, <1>1, <1>2, <2>2, RestOfClone
<1>6. ASSUME NEW n, M!Finalize(n) PROVE MInv'
  <2>1. n \in 0..session.lines /\ session' = [session EXCEPT !.final = TRUE, !.takes = n]
    BY <1>6 DEF M!Finalize, M!Uses
  <2>2. n <= session.lines  BY <2>1
  <2>3. /\ session' \in Sessions /\ SameStep(session', session)
        /\ UNCHANGED <<session.mode, session.clone, session.deleted, session.lines, session.index, session.touched>>
        /\ session'.takes = n
    BY <1>0, <2>1, FinalFields
  <2> QED  BY <1>1, <1>2, <2>2, <2>3, RestOfClone
<1> QED  BY <1>3, <1>4, <1>5, <1>6

\* A session begins, ends without a result, or is lost with the process.
LEMMA AroundMInv ==
  ASSUME MInv, M!BeginFormation \/ M!BeginDream \/ M!Fail \/ M!Crash
  PROVE  MInv'
<1>1. UNCHANGED <<stamp, live, index, obs, dream, changed>>
  BY DEF M!BeginFormation, M!BeginDream, M!Fail, M!Crash
<1>2. ASSUME session'.step = "sync" => session.step = "sync" PROVE Stamped' /\ SignatureAgrees'
  BY <1>1, <1>2, FilesStay
<1>3. CASE session' = M!Idle
  <2>1. Stamped'  BY <1>1 DEF MInv, Stamped
  <2> QED  BY <1>2, <1>3, <2>1, NoClone DEF MInv
<1>4. CASE session' = M!createMaintenanceClone("formation") /\ obs.lines > 0
  BY <1>1, <1>2, <1>4, NewClone DEF MInv
<1>5. CASE session' = M!createMaintenanceClone("dream")
  BY <1>1, <1>2, <1>5, NewClone DEF MInv
<1>6. CASE UNCHANGED session
  BY <1>1, <1>2, <1>6 DEF MInv, CloneAgrees, SyncAgrees, CarriedOver, M!ensureSubstantiveIndexAfterMaintenance
<1> QED  BY <1>3, <1>4, <1>5, <1>6 DEF M!BeginFormation, M!BeginDream, M!Fail, M!Crash

\* A message is observed, Dream is queued or comes due.
LEMMA OutsideMInv ==
  ASSUME MInv, M!Record \/ (\E force \in BOOLEAN : M!QueueDream(force)) \/ M!DreamComesDue
  PROVE  MInv'
<1> USE DEF MInv
<1>1. CASE M!Record
  <2>1. /\ stamp' = stamp + 1 /\ obs' = [lines |-> obs.lines + 1, at |-> stamp + 1]
        /\ changed' = changed \cup {"observations"} /\ session.step = "tools"
        /\ UNCHANGED <<live, index, dream, queued, session>>
    BY <1>1 DEF M!Record
  <2>2. stamp \in Nat /\ obs.lines \in Nat /\ obs.at \in 0..stamp /\ index.at \in 0..stamp
    BY DEF Stamped
  <2>3. obs'.lines = obs.lines + 1 /\ obs'.at = stamp + 1 /\ obs' \in [lines : Nat, at : 0..stamp']
    BY <2>1, <2>2
  <2>4. \A n \in 0..stamp : n \in 0..stamp'
    BY <2>1, <2>2
  <2>5. live \in [MemoryFiles -> 0..stamp'] /\ index \in [holds : M!IndexKinds, at : 0..stamp']
    BY <2>4 DEF Stamped
  <2>6. Stamped'
    BY <2>1, <2>2, <2>3, <2>5 DEF Stamped
  <2>7. CloneAgrees'
    <3>1. session.lines \in Nat /\ session.lines <= obs'.lines
      BY <2>2, <2>3 DEF CloneAgrees, Sessions
    <3> QED  BY <2>1, <3>1 DEF CloneAgrees
  <2>8. SignatureAgrees'
    <3> SUFFICES ASSUME dream.signature # M!NoSignature PROVE SignatureAgrees'
      BY <2>1 DEF SignatureAgrees, M!NoSignature
    <3> DEFINE then == dream.signature
    <3>1. /\ then \in (0..stamp) \X [MemoryFiles -> 0..stamp] \X [lines : Nat, at : 0..stamp]
          /\ IF "index" \in changed THEN then[1] < index.at ELSE then[1] = index.at
          /\ \A f \in MemoryFiles :
                IF f \in changed THEN live[f] = 0 \/ then[2][f] < live[f] ELSE then[2][f] = live[f]
      BY DEF SignatureAgrees
    <3>2. then[1] \in 0..stamp /\ then[2] \in [MemoryFiles -> 0..stamp]
          /\ then[3] \in [lines : Nat, at : 0..stamp] /\ then = <<then[1], then[2], then[3]>>
      BY <3>1
    <3>3. then[1] \in 0..stamp' /\ then[2] \in [MemoryFiles -> 0..stamp'] /\ then[3] \in [lines : Nat, at : 0..stamp']
      BY <2>4, <3>2
    <3>4. then \in (0..stamp') \X [MemoryFiles -> 0..stamp'] \X [lines : Nat, at : 0..stamp']
      BY <3>2, <3>3
    <3>5. then[3].at < obs'.at
      BY <2>2, <2>3, <3>2
    <3>6. /\ "index" \in changed' <=> "index" \in changed
          /\ \A f \in MemoryFiles : f \in changed' <=> f \in changed
          /\ "observations" \in changed'
      BY <2>1, LibraryAssumption
    <3> QED  BY <2>1, <3>1, <3>4, <3>5, <3>6 DEF SignatureAgrees
  <2>9. SyncAgrees'  BY <2>1 DEF SyncAgrees
  <2> QED  BY <2>6, <2>7, <2>8, <2>9
<1>2. CASE (\E force \in BOOLEAN : M!QueueDream(force)) \/ M!DreamComesDue
  <2>1. /\ UNCHANGED <<stamp, live, index, obs, session, changed>>
        /\ dream' = dream \/ dream' = [signature |-> dream.signature, recent |-> FALSE]
    <3>1. CASE M!DreamComesDue
      <4>1. dream = [signature |-> dream.signature, recent |-> dream.recent]  BY DEF Stamped
      <4> DEFINE g == dream.signature
                 r == dream.recent
      <4>2. dream' = [[signature |-> g, recent |-> r] EXCEPT !.recent = FALSE]
        BY <3>1, <4>1 DEF M!DreamComesDue
      <4>3. dream' = [signature |-> g, recent |-> FALSE]  BY <4>2
      <4> QED  BY <3>1, <4>3 DEF M!DreamComesDue
    <3> QED  BY <1>2, <3>1 DEF M!QueueDream
  <2>2. Stamped' /\ SignatureAgrees'  BY <2>1, FilesStay
  <2> QED  BY <2>1, <2>2 DEF CloneAgrees, SyncAgrees, CarriedOver, M!ensureSubstantiveIndexAfterMaintenance
<1> QED  BY <1>1, <1>2

\* What carrying over leaves of a signature of Dream's that is older than the sync.
LEMMA OlderSignature ==
  ASSUME MInv, session.step = "sync", dream.signature # M!NoSignature
  PROVE  LET then == dream.signature
         IN  /\ then \in (0..stamp) \X [MemoryFiles -> 0..stamp] \X [lines : Nat, at : 0..stamp]
             /\ then[1] \in Nat /\ then[1] < stamp /\ then[3].at \in Nat /\ then[3].at < stamp
             /\ \A f \in MemoryFiles : then[2][f] \in Nat /\ then[2][f] < stamp
BY DEF MInv, Stamped, SignatureAgrees

\* The prompts have ended: everything is to be carried over, and no file is as young.
LEMMA BeginSyncMInv == ASSUME MInv, M!syncMaintenanceClone PROVE MInv'
<1> USE DEF MInv
<1> DEFINE C0 == {p \in session.touched : p = "index" \/ session.clone[p] # "absent"}
           R0 == IF session.mode = "dream" THEN session.deleted ELSE {}
<1>1. /\ stamp' = stamp + 1 /\ session.mode # "none" /\ session.step = "tools"
      /\ session' = [session EXCEPT !.step = "sync", !.copies = C0, !.removals = R0]
      /\ M!ensureSubstantiveIndexAfterMaintenance
      /\ UNCHANGED <<live, index, obs, dream, queued, changed>>
  BY DEF M!syncMaintenanceClone
<1>2. session \in Sessions  BY DEF CloneAgrees
<1>3. C0 \in SUBSET (MemoryFiles \cup {"index"}) /\ R0 \in SUBSET MemoryFiles  BY <1>2 DEF Sessions
<1>4. /\ session' \in Sessions
      /\ UNCHANGED <<session.mode, session.clone, session.deleted, session.index, session.touched,
                     session.lines, session.takes>>
      /\ session'.step = "sync" /\ session'.copies = C0 /\ session'.removals = R0
  <2> HIDE DEF C0, R0
  <2> DEFINE begun == [session EXCEPT !.step = "sync", !.copies = C0, !.removals = R0]
  <2>1. /\ begun \in Sessions /\ begun.mode = session.mode /\ begun.clone = session.clone
        /\ begun.deleted = session.deleted /\ begun.index = session.index /\ begun.touched = session.touched
        /\ begun.lines = session.lines /\ begun.takes = session.takes
        /\ begun.step = "sync" /\ begun.copies = C0 /\ begun.removals = R0
    BY <1>2, <1>3 DEF Sessions
  <2>2. session' = begun  BY <1>1
  <2> HIDE DEF begun
  <2> QED  BY <2>1, <2>2
<1>5. stamp \in Nat /\ stamp' \in Nat /\ stamp' # 0 /\ \A n \in 0..stamp : n \in 0..stamp' /\ n < stamp'
  BY <1>1 DEF Stamped
<1>6. Stamped'
  <2>1. live \in [MemoryFiles -> 0..stamp'] /\ index \in [holds : M!IndexKinds, at : 0..stamp']
        /\ obs \in [lines : Nat, at : 0..stamp']
    BY <1>5 DEF Stamped
  <2> QED  BY <1>1, <1>5, <2>1 DEF Stamped
<1>7. CloneAgrees'
  BY <1>1, <1>4, RestOfClone DEF CloneAgrees
<1>8. SyncAgrees'
  <2>1. "index" \in session.touched => "index" \in C0  OBVIOUS
  <2>2. \A f \in MemoryFiles : session.clone[f] = "new" => f \in C0
    BY <1>1 DEF CloneAgrees
  <2>3. \A f \in MemoryFiles : session.clone[f] = "absent" /\ f \notin R0 => live[f] = 0
    BY <1>1 DEF CloneAgrees, Sessions
  <2>4. C0 \subseteq {p \in session.touched : p = "index" \/ session.clone[p] # "absent"} /\ R0 \subseteq session.deleted
    OBVIOUS
  <2> HIDE DEF C0, R0
  <2> QED  BY <1>1, <1>4, <1>5, <2>1, <2>2, <2>3, <2>4
            DEF SyncAgrees, CarriedOver, M!ensureSubstantiveIndexAfterMaintenance
<1>9. SignatureAgrees'
  <2> SUFFICES ASSUME dream.signature # M!NoSignature PROVE SignatureAgrees'
    BY <1>1 DEF SignatureAgrees, M!NoSignature
  <2> DEFINE then == dream.signature
  <2>1. then \in (0..stamp) \X [MemoryFiles -> 0..stamp] \X [lines : Nat, at : 0..stamp]
    BY DEF SignatureAgrees
  <2>2. then[1] \in 0..stamp /\ then[2] \in [MemoryFiles -> 0..stamp]
        /\ then[3] \in [lines : Nat, at : 0..stamp] /\ then = <<then[1], then[2], then[3]>>
    BY <2>1
  <2>3. then[1] \in 0..stamp' /\ then[2] \in [MemoryFiles -> 0..stamp'] /\ then[3] \in [lines : Nat, at : 0..stamp']
    BY <1>5, <2>2
  <2>4. then \in (0..stamp') \X [MemoryFiles -> 0..stamp'] \X [lines : Nat, at : 0..stamp']
    BY <2>2, <2>3
  <2>5. then[1] < stamp' /\ then[3].at < stamp' /\ \A f \in MemoryFiles : then[2][f] < stamp'
    BY <1>5, <2>2
  <2> QED  BY <1>1, <2>4, <2>5 DEF SignatureAgrees
<1> QED  BY <1>6, <1>7, <1>8, <1>9

\* A write of the index, or of a memory file that the session wrote.
LEMMA CopyBackMInv == ASSUME MInv, NEW path, M!CopyBack(path) PROVE MInv'
<1> USE DEF MInv
<1> DEFINE rest == session.copies \ {path}
<1>1. /\ path \in session.copies /\ session' = [session EXCEPT !.copies = @ \ {path}]
      /\ IF path = "index"
         THEN index' = [holds |-> session.index, at |-> stamp] /\ UNCHANGED live
         ELSE live' = [live EXCEPT ![path] = stamp] /\ UNCHANGED index
      /\ changed' = changed \cup {path}
      /\ UNCHANGED <<stamp, obs, dream, queued>>
  BY DEF M!CopyBack
<1>2. session \in Sessions /\ stamp \in Nat  BY DEF CloneAgrees, Stamped
<1>3. session.step = "sync" /\ CarriedOver  BY <1>1, <1>2 DEF SyncAgrees, Sessions
<1>4. path \in MemoryFiles \cup {"index"} /\ rest \in SUBSET (MemoryFiles \cup {"index"})
      /\ path \in session.touched /\ (path # "index" => session.clone[path] # "absent")
      /\ "index" \notin MemoryFiles /\ "observations" \notin MemoryFiles
  BY <1>1, <1>2, <1>3, LibraryAssumption DEF Sessions, CarriedOver
<1>5. /\ session' \in Sessions
      /\ UNCHANGED <<session.mode, session.clone, session.deleted, session.index, session.touched,
                     session.lines, session.takes, session.step, session.removals>>
      /\ session'.copies = rest
  BY <1>1, <1>2, <1>4 DEF Sessions
<1> HIDE DEF rest
<1>6. /\ live \in [MemoryFiles -> 0..stamp] /\ index \in [holds : M!IndexKinds, at : 0..stamp]
      /\ stamp \in 0..stamp /\ stamp # 0
  BY <1>2, <1>3 DEF Stamped, CarriedOver
<1>7. /\ live' \in [MemoryFiles -> 0..stamp] /\ index' \in [holds : M!IndexKinds, at : 0..stamp]
      /\ \A f \in MemoryFiles : live'[f] = IF f = path THEN stamp ELSE live[f]
      /\ IF path = "index" THEN index' = [holds |-> session.index, at |-> stamp] ELSE index' = index
  <2>1. session.index \in M!IndexKinds  BY <1>2 DEF Sessions
  <2>2. CASE path = "index"  BY <1>1, <1>4, <1>6, <2>1, <2>2
  <2>3. CASE path # "index"  BY <1>1, <1>4, <1>6, <2>3
  <2> QED  BY <2>2, <2>3
<1>8. Stamped'
  BY <1>1, <1>4, <1>7 DEF Stamped
<1>9. CloneAgrees'
  <2>1. /\ session.takes <= session.lines /\ session.lines <= obs.lines
        /\ session.mode = "formation" => session.deleted = {} /\ session.lines > 0
        /\ session.mode # "none"
        /\ \A f \in MemoryFiles :
              /\ session.clone[f] = "absent" /\ f \notin session.deleted => live[f] = 0
              /\ session.clone[f] = "copied" => live[f] # 0 /\ f \notin session.touched /\ f \notin session.deleted
              /\ session.clone[f] = "new" => f \in session.touched
    BY <1>3 DEF CloneAgrees, CarriedOver
  <2>2. "index" \in session.touched \/ session.index = index'.holds
    BY <1>3, <1>4, <1>7 DEF CloneAgrees, CarriedOver
  <2>3. \A f \in MemoryFiles :
              /\ session.clone[f] = "absent" /\ f \notin session.deleted => live'[f] = 0
              /\ session.clone[f] = "copied" => live'[f] # 0
    BY <1>4, <1>7, <2>1
  <2> QED  BY <1>1, <1>5, <2>1, <2>2, <2>3 DEF CloneAgrees
<1>10. SyncAgrees'
  <2>1. rest \subseteq session.copies /\ \A p : p \in session.copies /\ p # path => p \in rest
    BY DEF rest
  <2>2. "index" \in session.touched \ rest => index' = [holds |-> session.index, at |-> stamp]
    BY <1>3, <1>7, <2>1 DEF CarriedOver
  <2>3. \A f \in MemoryFiles :
        /\ session.clone[f] = "new" /\ f \notin rest \cup session.deleted => live'[f] = stamp
        /\ session.clone[f] = "absent" /\ f \notin session.removals => live'[f] = 0
    BY <1>3, <1>4, <1>7, <2>1 DEF CarriedOver
  <2> QED  BY <1>1, <1>3, <1>5, <1>6, <2>1, <2>2, <2>3
            DEF SyncAgrees, CarriedOver, M!ensureSubstantiveIndexAfterMaintenance
<1>11. SignatureAgrees'
  <2> SUFFICES ASSUME dream.signature # M!NoSignature PROVE SignatureAgrees'
    BY <1>1 DEF SignatureAgrees, M!NoSignature
  <2> DEFINE then == dream.signature
  <2>1. /\ then \in (0..stamp) \X [MemoryFiles -> 0..stamp] \X [lines : Nat, at : 0..stamp]
        /\ then[1] < stamp /\ then[3].at < stamp /\ \A f \in MemoryFiles : then[2][f] < stamp
    BY <1>3, OlderSignature
  <2>2. /\ IF "index" \in changed THEN then[1] < index.at ELSE then[1] = index.at
        /\ \A f \in MemoryFiles :
              IF f \in changed THEN live[f] = 0 \/ then[2][f] < live[f] ELSE then[2][f] = live[f]
        /\ IF "observations" \in changed THEN obs.lines = 0 \/ then[3].at < obs.at ELSE then[3] = obs
    BY DEF SignatureAgrees
  <2>3. "observations" \in changed' <=> "observations" \in changed
    BY <1>1, <1>4
  <2>4. IF "index" \in changed' THEN then[1] < index'.at ELSE then[1] = index'.at
    BY <1>1, <1>7, <2>1, <2>2
  <2>5. \A f \in MemoryFiles :
              IF f \in changed' THEN live'[f] = 0 \/ then[2][f] < live'[f] ELSE then[2][f] = live'[f]
    BY <1>1, <1>7, <2>1, <2>2
  <2> QED  BY <1>1, <2>1, <2>2, <2>3, <2>4, <2>5 DEF SignatureAgrees
<1> QED  BY <1>8, <1>9, <1>10, <1>11

\* A file that Dream deleted is removed.
LEMMA RemoveDeletedMInv == ASSUME MInv, NEW f \in MemoryFiles, M!RemoveDeleted(f) PROVE MInv'
<1> USE DEF MInv
<1> DEFINE rest == session.removals \ {f}
<1>1. /\ f \in session.removals /\ session' = [session EXCEPT !.removals = @ \ {f}]
      /\ live' = [live EXCEPT ![f] = 0] /\ changed' = changed \cup {f}
      /\ UNCHANGED <<stamp, index, obs, dream, queued>>
  BY DEF M!RemoveDeleted
<1>2. session \in Sessions /\ stamp \in Nat  BY DEF CloneAgrees, Stamped
<1>3. session.step = "sync" /\ CarriedOver  BY <1>1, <1>2 DEF SyncAgrees, Sessions
<1>4. rest \in SUBSET MemoryFiles /\ f \in session.deleted /\ f # "index" /\ f # "observations"
  BY <1>1, <1>2, <1>3, LibraryAssumption DEF Sessions, CarriedOver
<1>5. /\ session' \in Sessions
      /\ UNCHANGED <<session.mode, session.clone, session.deleted, session.index, session.touched,
                     session.lines, session.takes, session.step, session.copies>>
      /\ session'.removals = rest
  BY <1>1, <1>2, <1>4 DEF Sessions
<1> HIDE DEF rest
<1>6. /\ live' \in [MemoryFiles -> 0..stamp]
      /\ \A g \in MemoryFiles : live'[g] = IF g = f THEN 0 ELSE live[g]
  BY <1>1, <1>2 DEF Stamped
<1>7. Stamped'
  BY <1>1, <1>6 DEF Stamped
<1>8. CloneAgrees'
  BY <1>1, <1>4, <1>5, <1>6 DEF CloneAgrees
<1>9. SyncAgrees'
  <2>1. rest \subseteq session.removals /\ \A g : g \in session.removals /\ g # f => g \in rest
    BY DEF rest
  <2>2. \A g \in MemoryFiles :
        /\ session.clone[g] = "new" /\ g \notin session.copies \cup session.deleted => live'[g] = stamp
        /\ session.clone[g] = "absent" /\ g \notin rest => live'[g] = 0
    BY <1>3, <1>4, <1>6, <2>1 DEF CarriedOver
  <2> QED  BY <1>1, <1>3, <1>5, <2>1, <2>2
            DEF SyncAgrees, CarriedOver, M!ensureSubstantiveIndexAfterMaintenance
<1>10. SignatureAgrees'
  <2> SUFFICES ASSUME dream.signature # M!NoSignature PROVE SignatureAgrees'
    BY <1>1 DEF SignatureAgrees, M!NoSignature
  <2> DEFINE then == dream.signature
  <2>1. /\ then \in (0..stamp) \X [MemoryFiles -> 0..stamp] \X [lines : Nat, at : 0..stamp]
        /\ then[1] < stamp /\ then[3].at < stamp /\ \A g \in MemoryFiles : then[2][g] < stamp
    BY <1>3, OlderSignature
  <2>2. /\ IF "index" \in changed THEN then[1] < index.at ELSE then[1] = index.at
        /\ \A g \in MemoryFiles :
              IF g \in changed THEN live[g] = 0 \/ then[2][g] < live[g] ELSE then[2][g] = live[g]
        /\ IF "observations" \in changed THEN obs.lines = 0 \/ then[3].at < obs.at ELSE then[3] = obs
    BY DEF SignatureAgrees
  <2>3. /\ "observations" \in changed' <=> "observations" \in changed
        /\ "index" \in changed' <=> "index" \in changed
    BY <1>1, <1>4
  <2>4. \A g \in MemoryFiles :
              IF g \in changed' THEN live'[g] = 0 \/ then[2][g] < live'[g] ELSE then[2][g] = live'[g]
    BY <1>1, <1>6, <2>2
  <2> QED  BY <1>1, <2>1, <2>2, <2>3, <2>4 DEF SignatureAgrees
<1> QED  BY <1>7, <1>8, <1>9, <1>10

\* Dream settles: its signature is that of the corpus as it is now.
LEMMA DreamSettlesMInv ==
  ASSUME MInv, M!Settle, session.mode = "dream"
  PROVE  MInv'
<1> USE DEF MInv
<1>1. /\ session' = M!Idle /\ dream' = [signature |-> <<index.at, live, obs>>, recent |-> TRUE] /\ changed' = {}
      /\ UNCHANGED <<stamp, live, index, obs>>
  BY DEF M!Settle, M!CorpusSignature
<1>2. Stamped'
  BY <1>1 DEF Stamped
<1>3. CloneAgrees' /\ SyncAgrees' /\ session'.step = "tools"
  BY <1>1, <1>2, NoClone
<1>4. SignatureAgrees'
  <2>1. dream'.signature = <<index'.at, live', obs'>>  BY <1>1
  <2>2. index'.at \in 0..stamp' /\ live' \in [MemoryFiles -> 0..stamp'] /\ obs' \in [lines : Nat, at : 0..stamp']
    BY <1>1 DEF Stamped
  <2> QED  BY <1>1, <1>3, <2>1, <2>2 DEF SignatureAgrees
<1> QED  BY <1>2, <1>3, <1>4

\* Formation settles: what it left of the log is younger than any signature.
LEMMA FormationSettlesMInv ==
  ASSUME MInv, M!Settle, session.mode = "formation"
  PROVE  MInv'
<1> USE DEF MInv
<1> DEFINE left == session.lines - session.takes
<1>1. /\ session.step = "sync" /\ session' = M!Idle
      /\ obs' = [lines |-> left, at |-> IF left = 0 THEN 0 ELSE stamp]
      /\ dream' = dream /\ changed' = changed \cup {"observations"}
      /\ UNCHANGED <<stamp, live, index>>
  BY DEF M!Settle, M!consumeObservations
<1>2. left \in Nat
  <2>1. session.lines \in Nat /\ session.takes \in Nat /\ session.takes <= session.lines
    BY DEF CloneAgrees, Sessions
  <2> QED  BY <2>1
<1>3. stamp \in Nat /\ stamp # 0  BY <1>1 DEF Stamped, SyncAgrees, CarriedOver
<1> HIDE DEF left
<1>4. obs' \in [lines : Nat, at : 0..stamp'] /\ (obs'.lines = 0 <=> obs'.at = 0)
      /\ (obs'.lines = 0 \/ obs'.at = stamp)
  BY <1>1, <1>2, <1>3
<1>5. Stamped'
  BY <1>1, <1>4 DEF Stamped
<1>6. CloneAgrees' /\ SyncAgrees' /\ session'.step = "tools"
  BY <1>1, <1>5, NoClone
<1>7. SignatureAgrees'
  <2> SUFFICES ASSUME dream.signature # M!NoSignature PROVE SignatureAgrees'
    BY <1>1 DEF SignatureAgrees, M!NoSignature
  <2> DEFINE then == dream.signature
  <2>1. then \in (0..stamp) \X [MemoryFiles -> 0..stamp] \X [lines : Nat, at : 0..stamp] /\ then[3].at < stamp
    BY <1>1, OlderSignature
  <2>2. /\ IF "index" \in changed THEN then[1] < index.at ELSE then[1] = index.at
        /\ \A g \in MemoryFiles :
              IF g \in changed THEN live[g] = 0 \/ then[2][g] < live[g] ELSE then[2][g] = live[g]
    BY DEF SignatureAgrees
  <2>3. /\ "index" \in changed' <=> "index" \in changed
        /\ \A g \in MemoryFiles : g \in changed' <=> g \in changed
        /\ "observations" \in changed'
    BY <1>1, LibraryAssumption
  <2>4. obs'.lines = 0 \/ then[3].at < obs'.at  BY <1>4, <2>1
  <2> QED  BY <1>1, <1>6, <2>1, <2>2, <2>3, <2>4 DEF SignatureAgrees
<1> QED  BY <1>5, <1>6, <1>7

\* Every step around, in and at the end of a session keeps the invariant.
LEMMA NextMInv == MInv /\ M!Next => MInv'
<1> SUFFICES ASSUME MInv, M!Next PROVE MInv'
  OBVIOUS
<1>1. ASSUME M!Settle PROVE MInv'
  <2>1. session.mode \in {"formation", "dream"}
    BY <1>1 DEF M!Settle, MInv, CloneAgrees, SyncAgrees, CarriedOver, Sessions
  <2> QED  BY <1>1, <2>1, DreamSettlesMInv, FormationSettlesMInv
<1> QED  BY <1>1, ToolMInv, AroundMInv, OutsideMInv, BeginSyncMInv, CopyBackMInv, RemoveDeletedMInv DEF M!Next

\* While nothing of the maintenance changes, the invariant stays.
LEMMA SameMInv == MInv /\ UNCHANGED maintenanceVars => MInv'
BY DEF MInv, maintenanceVars, Stamped, CloneAgrees, SyncAgrees, CarriedOver, SignatureAgrees, M!NoSignature,
       M!ensureSubstantiveIndexAfterMaintenance

-----------------------------------------------------------------------------
(* The models. *)

\* What is known of a model after two sources have been asked is one of the three states.
LEMMA KnownFacts ==
  ASSUME NEW x \in {C!Absent, C!Listed, C!Sized}, NEW y \in {C!Absent, C!Listed, C!Sized}
  PROVE  /\ C!Known(x, y) \in {C!Absent, C!Listed, C!Sized}
         /\ C!Known(x, y) # C!Absent <=> x # C!Absent \/ y # C!Absent
BY DEF C!Known, C!Absent, C!Listed, C!Sized

\* Whatever an endpoint answers, its catalog is one.
LEMMA FetchedCatalog ==
  ASSUME NEW answers, NEW api PROVE C!fetchModelCatalog(answers, api) \in Entries
BY DEF C!fetchModelCatalog, C!Nothing, C!extractDiscoveredRuntimeModelEntry, C!extractRuntimeModelLimits,
       Entries, C!Absent, C!Listed, C!Sized

\* Models of a proxy or of a built-in provider likewise.
LEMMA FetchedCatalogs ==
  ASSUME NEW answers
  PROVE  C!fetchProxyModelCatalog(answers) \in Entries /\ C!fetchBuiltinModelCatalog(answers) \in Entries
<1>1. C!Nothing \in Entries  BY DEF C!Nothing, Entries, C!Absent
<1>2. C!fetchProxyModelCatalog(answers) \in Entries
  <2> DEFINE useful == {api \in DOMAIN answers : C!fetchModelCatalog(answers, api) # C!Nothing}
             best == C!fetchModelCatalog(answers, C!Min(useful))
  <2>1. best \in Entries  BY FetchedCatalog
  <2> HIDE DEF best
  <2>2. C!fetchProxyModelCatalog(answers) = IF useful = {} THEN C!Nothing ELSE best
    BY DEF C!fetchProxyModelCatalog, best
  <2> HIDE DEF useful
  <2> QED  BY <1>1, <2>1, <2>2
<1>3. C!fetchBuiltinModelCatalog(answers) \in Entries
  <2>1. C!fetchModelCatalog(answers, 1) \in Entries /\ C!fetchModelCatalog(answers, 2) \in Entries
    BY FetchedCatalog
  <2>2. \A m \in Models : C!Known(C!fetchModelCatalog(answers, 1)[m], C!fetchModelCatalog(answers, 2)[m])
                            \in {C!Absent, C!Listed, C!Sized}
    BY <2>1, KnownFacts DEF Entries
  <2> QED  BY <2>2 DEF C!fetchBuiltinModelCatalog, Entries
<1> QED  BY <1>2, <1>3

\* An entry put into models.json is there afterwards, and none is lost.
LEMMA UpsertFacts ==
  ASSUME NEW cat \in Catalogs, NEW p \in C!Providers, NEW m \in Models,
         NEW known \in {C!Absent, C!Listed, C!Sized}
  PROVE  LET more == C!upsertRuntimeModelsConfig(cat, p, m, known)
         IN  more \in Catalogs /\ Keeps(cat, more) /\ (known # C!Absent => more[p][m] # C!Absent)
<1> DEFINE x == C!Known(cat[p][m], known)
           row == [cat[p] EXCEPT ![m] = x]
           more == [cat EXCEPT ![p] = row]
<1>1. C!upsertRuntimeModelsConfig(cat, p, m, known) = more
  BY DEF C!upsertRuntimeModelsConfig, Catalogs
<1>2. /\ x \in {C!Absent, C!Listed, C!Sized}
      /\ x # C!Absent <=> cat[p][m] # C!Absent \/ known # C!Absent
  BY KnownFacts DEF Catalogs, Entries
<1> HIDE DEF x
<1>3. row \in Entries /\ row[m] = x /\ \A n \in Models : n # m => row[n] = cat[p][n]
  BY <1>2 DEF Catalogs, Entries
<1> HIDE DEF row
<1>4. more \in Catalogs /\ more[p] = row /\ \A q \in C!Providers : q # p => more[q] = cat[q]
  BY <1>3 DEF Catalogs
<1> HIDE DEF more
<1> QED  BY <1>1, <1>2, <1>3, <1>4 DEF Keeps

\* The entries of an endpoint are added to its provider's.
LEMMA PersistFacts ==
  ASSUME NEW cat \in Catalogs, NEW p \in C!Providers, NEW entries \in Entries
  PROVE  LET more == C!persistCatalogEntries(cat, p, entries)
         IN  more \in Catalogs /\ Keeps(cat, more)
<1> DEFINE row == [m \in Models |-> C!Known(cat[p][m], entries[m])]
           more == [cat EXCEPT ![p] = row]
<1>1. C!persistCatalogEntries(cat, p, entries) = more
  BY DEF C!persistCatalogEntries, Catalogs
<1>2. \A m \in Models : /\ C!Known(cat[p][m], entries[m]) \in {C!Absent, C!Listed, C!Sized}
                        /\ cat[p][m] # C!Absent => C!Known(cat[p][m], entries[m]) # C!Absent
  BY KnownFacts DEF Catalogs, Entries
<1>3. row \in Entries /\ \A m \in Models : cat[p][m] # C!Absent => row[m] # C!Absent
  BY <1>2 DEF Entries
<1> HIDE DEF row
<1>4. more \in Catalogs /\ more[p] = row /\ \A q \in C!Providers : q # p => more[q] = cat[q]
  BY <1>3 DEF Catalogs
<1> HIDE DEF more
<1> QED  BY <1>1, <1>3, <1>4 DEF Keeps

\* What the step of the command line says of what else it holds.
LEMMA WhereCliStands ==
  ASSUME StoreTyped
  PROVE  /\ cli.at = "configured" => cli \in CliConfigured
         /\ cli.at = "writing" => cli \in CliWriting
         /\ cli.at \notin {"configured", "writing"} => cli = C!Idle
         /\ cli = C!Idle => cli.at = "idle"
BY DEF StoreTyped, C!Idle, CliConfigured, CliWriting

\* The same of the daemon.
LEMMA WhereDaemonStands ==
  ASSUME StoreTyped
  PROVE  /\ daemon.at = "refreshing" => daemon \in DaemonRefreshing
         /\ daemon.at = "ensuring" => daemon \in DaemonEnsuring
         /\ daemon.at \notin {"refreshing", "ensuring"} => daemon = C!Idle
         /\ daemon = C!Idle => daemon.at = "idle"
BY DEF StoreTyped, C!Idle, DaemonRefreshing, DaemonEnsuring

\* A model of the configuration has a provider and a name.
LEMMA DefaultFacts ==
  ASSUME StoreTyped
  PROVE  /\ default.kind # "none" <=> default # NoDefault
         /\ default.model # C!NoModel <=> default # NoDefault
         /\ default # NoDefault => /\ default \in Defaults /\ default.model \in ModelOf
                                   /\ default.model[1] \in C!Providers /\ default.model[2] \in Models
                                   /\ default.model = <<default.model[1], default.model[2]>>
<1>1. CASE default = NoDefault  BY <1>1 DEF NoDefault
<1>2. CASE default \in Defaults
  <2>1. default.kind \in {"builtin", "custom"} /\ default.model \in C!Providers \X Models
    BY <1>2 DEF Defaults, ModelOf
  <2>2. /\ default.model[1] \in C!Providers /\ default.model[2] \in Models
        /\ default.model = <<default.model[1], default.model[2]>>
    BY <2>1
  <2>3. default.model # C!NoModel  BY <2>2 DEF C!NoModel
  <2>4. default # NoDefault  BY <2>1 DEF NoDefault
  <2> QED  BY <1>2, <2>1, <2>2, <2>3, <2>4 DEF ModelOf
<1> QED  BY <1>1, <1>2 DEF StoreTyped

\* What is found stays found while the catalog only grows.
LEMMA Grows ==
  ASSUME Keeps(catalog, catalog')
  PROVE  /\ \A p \in C!Providers, m \in Models : C!find(p, m) => C!find(p, m)'
         /\ \A p \in C!Providers : Lists(p) => Lists(p)'
<1>1. \A p \in C!Providers, m \in Models : C!find(p, m) => C!find(p, m)'
  BY DEF Keeps, C!find
<1>2. \A p \in C!Providers : Lists(p) => Lists(p)'
  BY DEF Keeps, Lists
<1> QED  BY <1>1, <1>2

\* A step that leaves the models chosen and the command line alone, and whose write to
\* models.json, if any, loses nothing unnoticed.
LEMMA Unchosen ==
  ASSUME CInv, UNCHANGED <<default, cli>>, override' \in {override, C!NoModel},
         catalog' \in Catalogs, torn => torn', ~torn' => Keeps(catalog, catalog')
  PROVE  ~torn' => OverrideFound' /\ DefaultFound'
<1> SUFFICES ASSUME ~torn' PROVE OverrideFound' /\ DefaultFound'
  OBVIOUS
<1>1. OverrideFound /\ DefaultFound /\ StoreTyped  BY DEF CInv, ChosenAreFound
<1>2. OverrideFound'
  <2>1. CASE override' = override /\ override # C!NoModel
    <3>1. override[1] \in C!Providers /\ override[2] \in Models
      BY <1>1, <2>1 DEF StoreTyped, ModelOf
    <3> QED  BY <1>1, <2>1, <3>1, Grows DEF OverrideFound
  <2>2. CASE override' = C!NoModel  BY <2>2 DEF OverrideFound
  <2> QED  BY <1>1, <2>1, <2>2 DEF OverrideFound
<1>3. DefaultFound'
  BY <1>1, DefaultFacts, Grows DEF DefaultFound, Coming, NoDefault, Has
<1> QED  BY <1>2, <1>3

\* The same for the provider of a command that still waits.
LEMMA Unasked ==
  ASSUME CInv, UNCHANGED <<default, cli, command>>,
         torn => torn', ~torn' => Keeps(catalog, catalog')
  PROVE  ~torn' => AgentListed'
<1> SUFFICES ASSUME ~torn' PROVE AgentListed'
  OBVIOUS
<1>1. AgentListed /\ StoreTyped  BY DEF CInv, ChosenAreFound
<1>2. command # C!Idle /\ command.agent # C!NoModel => command.agent \in C!Providers
  BY <1>1 DEF StoreTyped, Commands
<1> QED  BY <1>1, <1>2, Grows DEF AgentListed, Coming, NoDefault, Has, C!Idle, C!NoModel

\* Nothing is lost by not writing.
LEMMA KeepsItself == \A cat : Keeps(cat, cat)
BY DEF Keeps

\* A model is put into the configuration, and is now to be put into models.json.
LEMMA ConfigureCInv ==
  ASSUME CInv, NEW kind \in {"builtin", "custom"}, NEW p \in C!Providers, NEW m \in Models, NEW entries \in Entries,
         kind = "builtin" => p \in BuiltinProviders, C!Configure(kind, p, m, entries)
  PROVE  CInv'
<1> USE DEF CInv
<1>1. /\ cli = C!Idle /\ default' = [kind |-> kind, model |-> <<p, m>>]
      /\ cli' = [at |-> "configured", provider |-> p, model |-> m, entries |-> entries]
      /\ UNCHANGED <<override, catalog, command, refresh, daemon, commands, torn>>
  BY DEF C!Configure
<1>2. cli' \in CliConfigured /\ default' \in Defaults
  BY <1>1 DEF CliConfigured, Defaults, ModelOf
<1>3. StoreTyped'
  BY <1>1, <1>2 DEF StoreTyped
<1>4. WritesExtend'
  BY <1>1 DEF WritesExtend
<1>5. /\ default'.model[1] = p /\ default'.model[2] = m /\ default'.kind = kind
      /\ cli'.at = "configured" /\ cli'.provider = p /\ cli'.model = m
  BY <1>1
<1>6. DefaultFound'
  BY <1>5 DEF DefaultFound, Coming, C!find
<1>7. ~torn => AgentListed'
  <2>1. cli.at = "idle"  BY <1>1, WhereCliStands
  <2>2. \A q, n : ~Coming(q, n)  BY <2>1 DEF Coming
  <2> QED  BY <1>1, <2>2 DEF ChosenAreFound, AgentListed, Lists, C!Idle, C!NoModel
<1>8. ~torn => OverrideFound' /\ EnsuredFound'
  BY <1>1 DEF ChosenAreFound, OverrideFound, EnsuredFound, C!find, Has, C!NoModel
<1> QED  BY <1>1, <1>3, <1>4, <1>6, <1>7, <1>8 DEF ChosenAreFound

\* The command line reads models.json and adds to its copy.
LEMMA CliReadsCInv == ASSUME CInv, C!CliReads PROVE CInv'
<1> USE DEF CInv
<1>1. cli \in CliConfigured /\ cli.at = "configured"
  BY WhereCliStands DEF C!CliReads
<1> DEFINE p == cli.provider
           m == cli.model
           known == C!Known(C!Listed, cli.entries[m])
           cat == C!persistCatalogEntries(catalog, p, cli.entries)
           more == C!upsertRuntimeModelsConfig(cat, p, m, known)
<1>2. p \in C!Providers /\ m \in Models /\ cli.entries \in Entries /\ catalog \in Catalogs
  BY <1>1 DEF CliConfigured, StoreTyped
<1>3. cli' = [at |-> "writing", config |-> more, held |-> catalog]
      /\ UNCHANGED <<default, override, catalog, command, refresh, daemon, sets, commands, torn>>
  BY DEF C!CliReads
<1>4. known \in {C!Absent, C!Listed, C!Sized} /\ known # C!Absent
  <2>1. cli.entries[m] \in {C!Absent, C!Listed, C!Sized}  BY <1>2 DEF Entries
  <2>2. C!Listed \in {C!Absent, C!Listed, C!Sized} /\ C!Listed # C!Absent  BY DEF C!Listed, C!Absent
  <2> QED  BY <2>1, <2>2, KnownFacts
<1>5. cat \in Catalogs /\ Keeps(catalog, cat)
  BY <1>2, PersistFacts
<1> HIDE DEF known, cat
<1>6. more \in Catalogs /\ Keeps(cat, more) /\ more[p][m] # C!Absent
  BY <1>2, <1>4, <1>5, UpsertFacts
<1> HIDE DEF more
<1>7. Keeps(catalog, more)
  BY <1>5, <1>6 DEF Keeps
<1>8. cli' \in CliWriting /\ cli'.at = "writing" /\ cli'.config = more /\ cli'.held = catalog
  BY <1>2, <1>3, <1>6 DEF CliWriting
<1>9. StoreTyped'
  BY <1>3, <1>8 DEF StoreTyped
<1>10. WritesExtend'
  BY <1>3, <1>7, <1>8 DEF WritesExtend
<1>11. \A q, n : Coming(q, n) => Coming(q, n)'
  BY <1>1, <1>3, <1>6, <1>8 DEF Coming, Has
<1>12. ChosenAreFound'
  <2> SUFFICES ASSUME ~torn' PROVE ChosenAreFound'
    BY DEF ChosenAreFound
  <2>1. OverrideFound /\ DefaultFound /\ AgentListed /\ EnsuredFound
    BY <1>3 DEF ChosenAreFound
  <2>2. DefaultFound'
    BY <1>3, <1>11, <2>1 DEF DefaultFound, C!find, NoDefault
  <2>3. AgentListed'
    BY <1>3, <1>11, <2>1 DEF AgentListed, Lists, NoDefault, C!Idle, C!NoModel
  <2> QED  BY <1>3, <2>1, <2>2, <2>3 DEF ChosenAreFound, OverrideFound, EnsuredFound, C!find, Has, C!NoModel
<1> QED  BY <1>9, <1>10, <1>12

\* It writes its copy back: what was to come is there.
LEMMA CliWritesCInv == ASSUME CInv, C!CliWrites PROVE CInv'
<1> USE DEF CInv
<1>1. cli \in CliWriting /\ cli.at = "writing" /\ cli.config \in Catalogs
  BY WhereCliStands DEF C!CliWrites, CliWriting
<1>2. /\ catalog' = cli.config /\ cli' = C!Idle /\ torn' = (torn \/ catalog # cli.held)
      /\ UNCHANGED <<default, override, command, refresh, daemon, sets, commands>>
  BY DEF C!CliWrites
<1>3. cli'.at = "idle"  BY <1>2 DEF C!Idle
<1>4. StoreTyped'
  BY <1>1, <1>2 DEF StoreTyped
<1>5. WritesExtend'
  BY <1>2, <1>3 DEF WritesExtend
<1>6. ChosenAreFound'
  <2> SUFFICES ASSUME ~torn' PROVE ChosenAreFound'
    BY DEF ChosenAreFound
  <2>1. ~torn /\ Keeps(catalog, catalog')
    BY <1>1, <1>2 DEF WritesExtend, StoreTyped
  <2>2. OverrideFound /\ DefaultFound /\ AgentListed /\ EnsuredFound
    BY <2>1 DEF ChosenAreFound
  <2>3. \A q \in C!Providers, n \in Models : C!find(q, n) \/ Coming(q, n) => C!find(q, n)'
    BY <1>1, <1>2, <2>1, Grows DEF Coming, Has, C!find
  <2>4. DefaultFound'
    BY <1>2, <2>2, <2>3, DefaultFacts DEF DefaultFound, NoDefault
  <2>5. OverrideFound'
    <3>1. override # C!NoModel => override[1] \in C!Providers /\ override[2] \in Models
      BY DEF StoreTyped, ModelOf
    <3> QED  BY <1>2, <2>2, <2>3, <3>1 DEF OverrideFound, C!NoModel
  <2>6. AgentListed'
    <3> SUFFICES ASSUME command # C!Idle, command.agent # C!NoModel PROVE Lists(command.agent)'
      BY <1>2 DEF AgentListed, C!Idle, C!NoModel
    <3>1. command.agent \in C!Providers  BY DEF StoreTyped, Commands
    <3>2. CASE Lists(command.agent)  BY <1>2, <2>1, <3>1, <3>2, Grows DEF Lists
    <3>3. CASE default # NoDefault /\ default.model[1] = command.agent
      <4>1. default.model[1] \in C!Providers /\ default.model[2] \in Models
            /\ C!find(default.model[1], default.model[2])'
        BY <1>2, <2>4, <3>3, DefaultFacts, <2>2, <2>3 DEF DefaultFound
      <4> QED  BY <1>2, <3>3, <4>1 DEF Lists, C!find
    <3> QED  BY <2>2, <3>2, <3>3 DEF AgentListed
  <2>7. EnsuredFound'  BY <1>2, <2>2 DEF EnsuredFound, Has
  <2> QED  BY <2>4, <2>5, <2>6, <2>7 DEF ChosenAreFound
<1> QED  BY <1>4, <1>5, <1>6

\* It is killed: from then on the catalog may lack a model.
LEMMA CliKilledCInv == ASSUME CInv, C!CliKilled PROVE CInv'
<1>1. cli' = C!Idle /\ torn' = TRUE
      /\ UNCHANGED <<default, override, catalog, command, refresh, daemon, sets, commands>>
  BY DEF C!CliKilled
<1>2. cli'.at = "idle"  BY <1>1 DEF C!Idle
<1> QED  BY <1>1, <1>2 DEF CInv, StoreTyped, WritesExtend, ChosenAreFound, C!Idle, C!NoModel, NoDefault

\* While the daemon does not write, nothing is asked of its copy.
LEMMA DaemonIdles ==
  ASSUME StoreTyped, WritesExtend, UNCHANGED cli, daemon' = C!Idle
  PROVE  WritesExtend' /\ EnsuredFound'
<1>1. daemon'.at = "idle"  BY DEF C!Idle
<1> QED  BY <1>1 DEF WritesExtend, EnsuredFound

\* The parts of a command that waits.
LEMMA CommandFacts ==
  ASSUME StoreTyped, command # C!Idle
  PROVE  /\ command \in Commands /\ command.provider \in C!Providers /\ command.model \in Models
         /\ command.scope \in {"session", "global"}
         /\ <<command.provider, command.model>> \in ModelOf
         /\ command.provider # C!NoModel
BY LibraryAssumption DEF StoreTyped, Commands, ModelOf, C!NoModel, C!Providers

\* A command is received: its provider is that of the default, which is listed or coming.
LEMMA ReceiveCInv ==
  ASSUME CInv, NEW scope \in {"session", "global"}, NEW p \in C!Providers, NEW m \in Models,
         C!Receive(scope, p, m)
  PROVE  CInv'
<1> USE DEF CInv
<1> DEFINE agent == IF default.model = C!NoModel THEN C!NoModel ELSE default.model[1]
<1>1. /\ command' = [at |-> "received", scope |-> scope, provider |-> p, model |-> m, agent |-> agent]
      /\ daemon = C!Idle
      /\ UNCHANGED <<default, override, catalog, cli, refresh, daemon, torn>>
  BY DEF C!Receive
<1>2. agent \in C!Providers \cup {C!NoModel}
  BY DefaultFacts
<1>3. agent # C!NoModel => default # NoDefault /\ default.model[1] = agent
  BY DefaultFacts
<1> HIDE DEF agent
<1>4. command' \in Commands /\ command'.agent = agent
  BY <1>1, <1>2 DEF Commands
<1>5. StoreTyped'
  BY <1>1, <1>4 DEF StoreTyped
<1>6. WritesExtend' /\ EnsuredFound'
  BY <1>1, DaemonIdles
<1>7. ~torn => AgentListed'
  <2> SUFFICES ASSUME ~torn, agent # C!NoModel
               PROVE  \/ Lists(agent)
                      \/ Coming(default.model[1], default.model[2])
    BY <1>1, <1>3, <1>4 DEF AgentListed, Lists, Coming, NoDefault, Has, C!NoModel
  <2>1. C!find(agent, default.model[2]) \/ Coming(default.model[1], default.model[2])
    BY <1>3 DEF ChosenAreFound, DefaultFound
  <2>2. default.model[2] \in Models  BY <1>3, DefaultFacts
  <2> QED  BY <2>1, <2>2 DEF C!find, Lists
<1>8. ~torn => OverrideFound' /\ DefaultFound'
  BY <1>1 DEF ChosenAreFound, OverrideFound, DefaultFound, Coming, C!find, Has, NoDefault, C!NoModel
<1> QED  BY <1>1, <1>5, <1>6, <1>7, <1>8 DEF ChosenAreFound

\* It is refused, or the chat's model is reset, or a context window is asked for.
LEMMA ForgetsCInv ==
  ASSUME CInv, UNCHANGED <<default, catalog, cli, torn>>, daemon' = C!Idle,
         override' \in {override, C!NoModel}, command' \in {command, C!Idle},
         refresh' \in Refreshes \cup {C!Idle}
  PROVE  CInv'
<1> USE DEF CInv
<1>1. StoreTyped'
  BY DEF StoreTyped
<1>2. WritesExtend' /\ EnsuredFound'
  BY DaemonIdles
<1>3. ~torn => OverrideFound' /\ DefaultFound'
  BY Unchosen, KeepsItself DEF StoreTyped
<1>4. ~torn => AgentListed'
  <2>1. CASE command' = command  BY <2>1, Unasked, KeepsItself
  <2>2. CASE command' = C!Idle  BY <2>2 DEF AgentListed
  <2> QED  BY <2>1, <2>2
<1> QED  BY <1>1, <1>2, <1>3, <1>4 DEF ChosenAreFound

\* A model that passes for known under the provider of a command whose provider is listed
\* is found by the worker.
LEMMA KnownIsFound ==
  ASSUME CInv, command # C!Idle, C!isModelAllowed, C!isKnownModel, ~torn
  PROVE  \/ C!find(command.provider, command.model)
         \/ /\ default # NoDefault /\ default.model[1] = command.provider
            /\ Coming(default.model[1], default.model[2])
<1> USE DEF CInv
<1>1. command.agent = command.provider /\ command.agent # C!NoModel
  BY CommandFacts DEF C!isModelAllowed
<1>2. CASE Lists(command.provider)
  <2> SUFFICES ASSUME NEW m \in Models, catalog[command.provider][m] # C!Absent
               PROVE  C!find(command.provider, command.model)
    BY <1>2 DEF Lists, C!find
  <2>1. catalog[command.provider] # C!Nothing
    BY DEF C!Nothing
  <2> QED  BY <2>1 DEF C!isKnownModel, C!find
<1> QED  BY <1>1, <1>2 DEF ChosenAreFound, AgentListed

\* A command for a built-in default writes the configuration or the chat's state.
LEMMA SetBuiltinCInv == ASSUME CInv, C!SetBuiltin PROVE CInv'
<1> USE DEF CInv
<1>1. /\ command # C!Idle /\ default.kind = "builtin" /\ daemon = C!Idle
      /\ C!isModelAllowed /\ C!isKnownModel /\ command' = C!Idle
      /\ UNCHANGED <<catalog, cli, refresh, daemon, torn>>
  BY DEF C!SetBuiltin
<1>2. ~torn => C!find(command.provider, command.model)
  BY <1>1, KnownIsFound DEF Coming
<1> DEFINE chosen == <<command.provider, command.model>>
<1>3. chosen \in ModelOf /\ chosen # C!NoModel
      /\ chosen[1] = command.provider /\ chosen[2] = command.model
  BY <1>1, CommandFacts DEF C!NoModel
<1>4. \/ default' = [kind |-> "builtin", model |-> chosen] /\ override' = override
      \/ default' = default /\ override' = chosen
  BY DEF C!SetBuiltin
<1> HIDE DEF chosen
<1>5. StoreTyped'
  BY <1>1, <1>3, <1>4 DEF StoreTyped, Defaults
<1>6. WritesExtend' /\ EnsuredFound'
  BY <1>1, DaemonIdles
<1>7. ~torn => DefaultFound'
  <2>1. CASE default' = [kind |-> "builtin", model |-> chosen]
    BY <1>1, <1>2, <1>3, <2>1 DEF DefaultFound, C!find
  <2>2. CASE default' = default
    BY <1>1, <2>2 DEF ChosenAreFound, DefaultFound, Coming, C!find, Has, NoDefault
  <2> QED  BY <1>4, <2>1, <2>2
<1>8. ~torn => OverrideFound'
  BY <1>1, <1>2, <1>3, <1>4 DEF ChosenAreFound, OverrideFound, C!find, C!NoModel
<1>9. AgentListed'  BY <1>1 DEF AgentListed
<1> QED  BY <1>1, <1>5, <1>6, <1>7, <1>8, <1>9 DEF ChosenAreFound

\* A command for a custom default reads models.json and adds its model to the copy.
LEMMA EnsureCInv == ASSUME CInv, C!ensureCustomRuntimeModel PROVE CInv'
<1> USE DEF CInv
<1> DEFINE q == default.model[1]
           more == C!upsertRuntimeModelsConfig(catalog, q, command.model, C!Listed)
<1>1. /\ command # C!Idle /\ default.kind = "custom" /\ C!isModelAllowed /\ C!isKnownModel
      /\ daemon' = [at |-> "ensuring", held |-> catalog, config |-> default, write |-> more]
      /\ UNCHANGED <<default, override, catalog, cli, command, refresh, torn>>
  BY DEF C!ensureCustomRuntimeModel
<1>2. /\ default # NoDefault /\ default \in Defaults /\ default.model \in ModelOf
      /\ q \in C!Providers
  BY <1>1, DefaultFacts
<1>3. catalog \in Catalogs /\ command.provider \in C!Providers /\ command.model \in Models
  BY <1>1, CommandFacts DEF StoreTyped
<1>4. C!Listed \in {C!Absent, C!Listed, C!Sized} /\ C!Listed # C!Absent
  BY DEF C!Listed, C!Absent
<1>5. more \in Catalogs /\ Keeps(catalog, more) /\ more[q][command.model] # C!Absent
  BY <1>2, <1>3, <1>4, UpsertFacts
<1> HIDE DEF more
<1>6. default \in [kind : {"custom"}, model : ModelOf]
  BY <1>1, <1>2 DEF Defaults
<1>7. /\ daemon' \in DaemonEnsuring /\ daemon'.at = "ensuring"
      /\ daemon'.write = more /\ daemon'.held = catalog /\ daemon'.config = default
  BY <1>1, <1>3, <1>5, <1>6 DEF DaemonEnsuring
<1>8. StoreTyped'
  BY <1>1, <1>7 DEF StoreTyped
<1>9. WritesExtend'
  BY <1>1, <1>5, <1>7 DEF WritesExtend, Has, C!Idle
<1>10. ~torn => EnsuredFound'
  <2> SUFFICES ASSUME ~torn PROVE Has(more, command.provider, command.model)
    BY <1>1, <1>7 DEF EnsuredFound, Has
  <2>1. CASE C!find(command.provider, command.model)
    BY <1>3, <1>5, <2>1 DEF C!find, Has, Keeps
  <2>2. CASE q = command.provider
    BY <1>5, <2>2 DEF Has
  <2> QED  BY <1>1, <2>1, <2>2, KnownIsFound
<1>11. ~torn => OverrideFound' /\ DefaultFound' /\ AgentListed'
  BY <1>1, <1>3, Unchosen, Unasked, KeepsItself
<1> QED  BY <1>1, <1>8, <1>9, <1>10, <1>11 DEF ChosenAreFound

\* It writes its copy back, and then the configuration or the chat's state.
LEMMA SetCustomCInv == ASSUME CInv, C!SetCustom PROVE CInv'
<1> USE DEF CInv
<1>1. /\ daemon.at = "ensuring" /\ catalog' = daemon.write /\ torn' = (torn \/ catalog # daemon.held)
      /\ daemon' = C!Idle /\ command' = C!Idle /\ UNCHANGED <<cli, refresh>>
  BY DEF C!SetCustom
<1>2. /\ daemon.write \in Catalogs /\ daemon.config.model \in ModelOf
      /\ Keeps(daemon.held, daemon.write)
      /\ command # C!Idle /\ Has(daemon.write, daemon.config.model[1], command.model)
  BY <1>1, WhereDaemonStands DEF DaemonEnsuring, WritesExtend
<1> DEFINE q == daemon.config.model[1]
           asked == <<command.provider, command.model>>
           ensured == <<q, command.model>>
<1>3. /\ asked \in ModelOf /\ asked # C!NoModel
      /\ asked[1] = command.provider /\ asked[2] = command.model
  BY <1>2, CommandFacts DEF C!NoModel
<1>4. ensured \in ModelOf /\ ensured[1] = q /\ ensured[2] = command.model
  BY <1>2, CommandFacts DEF ModelOf
<1>5. \/ default' = [kind |-> "custom", model |-> ensured] /\ override' = override
      \/ default' = default /\ override' = asked
  BY DEF C!SetCustom
<1> HIDE DEF asked, ensured
<1>6. StoreTyped'
  BY <1>1, <1>2, <1>3, <1>4, <1>5 DEF StoreTyped, Defaults
<1>7. WritesExtend' /\ EnsuredFound'
  BY <1>1, DaemonIdles
<1>8. ChosenAreFound'
  <2> SUFFICES ASSUME ~torn' PROVE OverrideFound' /\ DefaultFound' /\ AgentListed'
    BY <1>7 DEF ChosenAreFound
  <2>1. ~torn /\ Keeps(catalog, catalog')
    BY <1>1, <1>2 DEF StoreTyped
  <2>2. OverrideFound /\ DefaultFound /\ EnsuredFound
    BY <2>1 DEF ChosenAreFound
  <2>3. \A p \in C!Providers, m \in Models : C!find(p, m) => C!find(p, m)'
    BY <2>1, Grows
  <2>4. OverrideFound'
    <3>1. CASE override' = override
      <4>1. override # C!NoModel => override[1] \in C!Providers /\ override[2] \in Models
        BY DEF StoreTyped, ModelOf
      <4> QED  BY <2>2, <2>3, <3>1, <4>1 DEF OverrideFound, C!NoModel
    <3>2. CASE override' = asked
      BY <1>1, <1>3, <2>2, <3>2 DEF OverrideFound, EnsuredFound, Has, C!find
    <3> QED  BY <1>5, <3>1, <3>2
  <2>5. DefaultFound'
    <3>1. CASE default' = default
      BY <1>1, <2>2, <2>3, <3>1, DefaultFacts DEF DefaultFound, Coming, NoDefault, Has
    <3>2. CASE default' = [kind |-> "custom", model |-> ensured]
      BY <1>1, <1>2, <1>4, <3>2 DEF DefaultFound, Has, C!find
    <3> QED  BY <1>5, <3>1, <3>2
  <2>6. AgentListed'  BY <1>1 DEF AgentListed
  <2> QED  BY <2>4, <2>5, <2>6
<1> QED  BY <1>6, <1>7, <1>8

\* A model whose context window is asked for has a provider and a name.
LEMMA AskForContextCInv == ASSUME CInv, C!AskForContext PROVE CInv'
<1> USE DEF CInv
<1> DEFINE e == C!resolveEffectiveModel
<1>1. /\ e # C!NoModel /\ refresh' = [at |-> "asked", provider |-> e[1], model |-> e[2]]
      /\ daemon = C!Idle /\ UNCHANGED <<default, override, catalog, cli, command, daemon, torn>>
  BY DEF C!AskForContext
<1>2. e \in ModelOf
  BY <1>1, DefaultFacts DEF C!resolveEffectiveModel, StoreTyped
<1> HIDE DEF e
<1>3. refresh' \in Refreshes
  BY <1>1, <1>2 DEF Refreshes, ModelOf
<1> QED  BY <1>1, <1>3, ForgetsCInv

\* Its endpoint has answered: the daemon adds what it said to the catalog it reads.
LEMMA RefreshCInv ==
  ASSUME CInv, NEW answers, NEW api, C!refreshContextMetadata(answers, api)
  PROVE  CInv'
<1> USE DEF CInv
<1> DEFINE known == C!fetchModelCatalog(answers, api)[refresh.model]
           more == C!upsertRuntimeModelsConfig(catalog, refresh.provider, refresh.model, known)
           copy == [at |-> "refreshing", held |-> catalog, write |-> more]
<1>1. /\ daemon = C!Idle /\ refresh # C!Idle /\ refresh' = C!Idle
      /\ daemon' = C!Idle \/ daemon' = copy
      /\ UNCHANGED <<default, override, catalog, cli, command, torn>>
  BY DEF C!refreshContextMetadata
<1>2. CASE daemon' = C!Idle  BY <1>1, <1>2, ForgetsCInv
<1>3. CASE daemon' = copy
  <2>1. refresh.provider \in C!Providers /\ refresh.model \in Models /\ catalog \in Catalogs
    BY <1>1 DEF StoreTyped, Refreshes
  <2>2. known \in {C!Absent, C!Listed, C!Sized}
    BY <2>1, FetchedCatalog DEF Entries
  <2> HIDE DEF known
  <2>3. more \in Catalogs /\ Keeps(catalog, more)
    BY <2>1, <2>2, UpsertFacts
  <2> HIDE DEF more
  <2>4. /\ daemon' \in DaemonRefreshing /\ daemon'.at = "refreshing"
        /\ daemon'.held = catalog /\ daemon'.write = more
    BY <1>3, <2>1, <2>3 DEF DaemonRefreshing
  <2>5. StoreTyped'
    BY <1>1, <2>4 DEF StoreTyped
  <2>6. WritesExtend' /\ EnsuredFound'
    BY <1>1, <2>3, <2>4 DEF WritesExtend, EnsuredFound
  <2>7. ~torn => OverrideFound' /\ DefaultFound' /\ AgentListed'
    BY <1>1, <2>1, Unchosen, Unasked, KeepsItself
  <2> QED  BY <1>1, <2>5, <2>6, <2>7 DEF ChosenAreFound
<1> QED  BY <1>1, <1>2, <1>3

\* It writes that back.
LEMMA StoreContextCInv == ASSUME CInv, C!StoreContext PROVE CInv'
<1> USE DEF CInv
<1>1. /\ daemon.at = "refreshing" /\ catalog' = daemon.write /\ torn' = (torn \/ catalog # daemon.held)
      /\ daemon' = C!Idle /\ UNCHANGED <<default, override, cli, command, refresh>>
  BY DEF C!StoreContext
<1>2. daemon.write \in Catalogs /\ Keeps(daemon.held, daemon.write)
  BY <1>1, WhereDaemonStands DEF DaemonRefreshing, WritesExtend
<1>3. torn => torn'  BY <1>1
<1>4. ~torn' => Keeps(catalog, catalog')  BY <1>1, <1>2
<1>5. StoreTyped'
  BY <1>1, <1>2 DEF StoreTyped
<1>6. WritesExtend' /\ EnsuredFound'
  BY <1>1, DaemonIdles
<1>7. ~torn' => OverrideFound' /\ DefaultFound' /\ AgentListed'
  BY <1>1, <1>2, <1>3, <1>4, Unchosen, Unasked
<1> QED  BY <1>5, <1>6, <1>7 DEF ChosenAreFound

\* Every step of the command line and of the daemon keeps the invariant.
LEMMA NextCInv == CInv /\ C!Next => CInv'
<1> SUFFICES ASSUME CInv, C!Next PROVE CInv'
  OBVIOUS
<1>1. ASSUME NEW p \in BuiltinProviders, NEW m \in Models, NEW answers \in Answers,
             C!configureBuiltInModel(p, m, answers)
      PROVE  CInv'
  BY <1>1, FetchedCatalogs, ConfigureCInv DEF C!configureBuiltInModel, C!Providers
<1>2. ASSUME NEW p \in CustomProviders, NEW m \in Models, NEW answers \in Answers,
             NEW generates \in SUBSET {1, 2}, C!configureCustomModel(p, m, answers, generates)
      PROVE  CInv'
  <2> DEFINE api == C!probeProxyProtocol(answers, generates)
             refreshed == C!fetchModelCatalog(answers, api)
             entries == IF refreshed # C!Nothing THEN refreshed ELSE C!fetchProxyModelCatalog(answers)
  <2>1. C!Configure("custom", p, m, entries)
    BY <1>2 DEF C!configureCustomModel
  <2>2. entries \in Entries
    BY FetchedCatalog, FetchedCatalogs
  <2> HIDE DEF entries
  <2>3. p \in C!Providers  BY DEF C!Providers
  <2> QED  BY <2>1, <2>2, <2>3, ConfigureCInv
<1>3. CASE C!CliReads  BY <1>3, CliReadsCInv
<1>4. CASE C!CliWrites  BY <1>4, CliWritesCInv
<1>5. CASE C!CliKilled  BY <1>5, CliKilledCInv
<1>6. ASSUME NEW scope \in {"session", "global"}, NEW p \in C!Providers, NEW m \in Models,
             C!Receive(scope, p, m)
      PROVE  CInv'
  BY <1>6, ReceiveCInv
<1>7. CASE C!Refuse
  BY <1>7, ForgetsCInv DEF C!Refuse, CInv, StoreTyped
<1>8. CASE C!SetBuiltin  BY <1>8, SetBuiltinCInv
<1>9. CASE C!ensureCustomRuntimeModel  BY <1>9, EnsureCInv
<1>10. CASE C!SetCustom  BY <1>10, SetCustomCInv
<1>11. CASE C!Reset
  BY <1>11, ForgetsCInv DEF C!Reset, CInv, StoreTyped
<1>12. CASE C!AskForContext  BY <1>12, AskForContextCInv
<1>13. ASSUME NEW answers \in Answers, NEW api \in {1, 2}, C!refreshContextMetadata(answers, api)
       PROVE  CInv'
  BY <1>13, RefreshCInv
<1>14. CASE C!StoreContext  BY <1>14, StoreContextCInv
<1> QED  BY <1>1, <1>2, <1>3, <1>4, <1>5, <1>6, <1>7, <1>8, <1>9, <1>10, <1>11, <1>12, <1>13, <1>14 DEF C!Next

\* While nothing of the models changes, the invariant stays.
LEMMA SameCInv == CInv /\ UNCHANGED modelVars => CInv'
<1> SUFFICES ASSUME CInv, UNCHANGED modelVars PROVE CInv'
  OBVIOUS
<1> USE DEF CInv, modelVars
<1>1. StoreTyped'  BY DEF StoreTyped
<1>2. WritesExtend'  BY DEF WritesExtend, Has, C!Idle
<1>3. OverrideFound <=> OverrideFound'  BY DEF OverrideFound, C!find, C!NoModel
<1>4. DefaultFound <=> DefaultFound'  BY DEF DefaultFound, C!find, Coming, Has, NoDefault
<1>5. AgentListed <=> AgentListed'  BY DEF AgentListed, Coming, Lists, Has, NoDefault, C!Idle, C!NoModel
<1>6. EnsuredFound <=> EnsuredFound'  BY DEF EnsuredFound, Has
<1> QED  BY <1>1, <1>2, <1>3, <1>4, <1>5, <1>6 DEF ChosenAreFound

-----------------------------------------------------------------------------
(* All of them. *)

\* Before anything is done nothing was written, chosen, spawned or created.
LEMMA InitLInv == Init => LInv
<1> SUFFICES ASSUME Init PROVE LInv
  OBVIOUS
<1>1. MInv
  <2> USE DEF Init, M!Init
  <2>1. Stamped  BY DEF Stamped, M!IndexKinds
  <2>2. session \in Sessions
    BY DEF M!Idle, Sessions, M!IndexKinds
  <2>3. CloneAgrees  BY <2>2 DEF CloneAgrees, M!Idle
  <2>4. SyncAgrees  BY DEF SyncAgrees, M!Idle
  <2>5. SignatureAgrees  BY DEF SignatureAgrees
  <2> QED  BY <2>1, <2>3, <2>4, <2>5 DEF MInv
<1>2. CInv
  <2> USE DEF Init, C!Init
  <2>1. catalog \in Catalogs
    BY DEF Catalogs, Entries, C!Nothing, C!Absent
  <2>2. /\ default = NoDefault /\ override = C!NoModel /\ torn = FALSE
        /\ cli = C!Idle /\ command = C!Idle /\ refresh = C!Idle /\ daemon = C!Idle
        /\ C!Idle.at = "idle"
    BY DEF NoDefault, C!Idle
  <2>3. StoreTyped  BY <2>1, <2>2 DEF StoreTyped
  <2>4. WritesExtend  BY <2>2 DEF WritesExtend
  <2>5. ChosenAreFound
    BY <2>2 DEF ChosenAreFound, OverrideFound, DefaultFound, AgentListed, EnsuredFound
  <2> QED  BY <2>3, <2>4, <2>5 DEF CInv
<1>3. RInv
  <2> USE DEF R!Init
  <2> R!Init  BY DEF Init
  <2>1. LockHeld  BY DEF LockHeld
  <2>2. AliveIsWritten  BY DEF AliveIsWritten, Alive, Unwritten
  <2>3. process \in [R!Pids -> {"none", "booting", "running", "exiting", "dead"}]
        /\ \A p \in R!Pids : process[p] = "none"
    OBVIOUS
  <2>4. spawned = 0 /\ pid = 0 /\ crossed \in BOOLEAN
    OBVIOUS
  <2>5. spawned \in 0..MaxRuntimes /\ pid \in 0..spawned
    BY <2>4, LibraryAssumption
  <2>6. /\ pc \in [Clis -> {"idle", "locking", "locked", "spawned", "killed", "waiting", "clearing", "restarting"}]
        /\ target \in [Clis -> 0..spawned] /\ \A c \in Clis : pc[c] = "idle"
    OBVIOUS
  <2> QED  BY <2>1, <2>2, <2>3, <2>4, <2>5, <2>6 DEF RInv
<1>4. AInv
  <2> USE DEF Init, A!Init
  <2>1. RegistryTyped  BY DEF RegistryTyped, A!Idle
  <2>2. Swept  BY DEF Swept, A!Idle
  <2>3. RemovalIsComplete  BY DEF RemovalIsComplete
  <2> QED  BY <2>1, <2>2, <2>3 DEF AInv
<1> QED  BY <1>1, <1>2, <1>3, <1>4 DEF LInv

\* Every step keeps the invariant of each part.
LEMMA NextLInv == LInv /\ [Next]_vars => LInv'
BY OneOrNone, NextMInv, SameMInv, NextCInv, SameCInv, NextRInv, SameRInv, NextAInv, SameAInv DEF LInv

\* The invariants of the parts hold throughout.
THEOREM Invariance == Spec => []LInv
<1>1. Init => LInv  BY InitLInv
<1>2. LInv /\ [Next]_vars => LInv'  BY NextLInv
<1> QED  BY <1>1, <1>2, PTL DEF Spec

\* (cli/handlers/runtime.ts:85) However many command lines start, stop and restart at once,
\* at most one runtime serves, and a start finds it, while no live pid was written over.
THEOREM RuntimesAreAlone == Spec => []OneRuntime
<1>1. LInv => OneRuntime
  <2> DEFINE serving == {p \in R!Pids : process[p] \in {"booting", "running"}}
  <2> SUFFICES ASSUME RInv, ~crossed, NEW p \in serving
               PROVE  serving = {p} /\ (lock = Nobody => pid = p)
    BY DEF LInv, OneRuntime
  <2>1. \A q \in serving : q \in R!Pids /\ Alive(q) /\ (q = pid \/ Unwritten(q))
    BY DEF RInv, AliveIsWritten, Alive
  <2>2. \A q \in serving : Unwritten(q) => ~(pid # 0 /\ Alive(pid))
    BY DEF RInv, AliveIsWritten
  <2>3. \A q \in serving : q # 0  BY LibraryAssumption DEF R!Pids
  <2>4. \A q \in serving : q = p
    BY <2>1, <2>2, <2>3 DEF Unwritten
  <2> QED  BY <2>1, <2>4 DEF Unwritten
<1> QED  BY <1>1, Invariance, PTL

\* (agent-lifecycle.ts:38, agent-store.ts:93) Whatever of an agent outlives its removal, the
\* daemon wrote for it after the removal had begun: a handler that still held the agent, or
\* one that had read the file before and wrote it back.
THEOREM NothingIsLeftOfTheRemoved == Spec => []RemovalIsComplete
<1>1. LInv => RemovalIsComplete  BY DEF LInv, AInv
<1> QED  BY <1>1, Invariance, PTL

\* (service.ts:290, manifest.ts:90) Dream is refused for want of a change only when nothing
\* of what was written since it completed is left to read, and asked for again only when
\* something was written.
THEOREM DreamRunsWhenDue == Spec => []DreamSettles
<1>1. LInv => DreamSettles
  <2> SUFFICES ASSUME MInv PROVE DreamSettles
    BY DEF LInv
  <2> DEFINE then == dream.signature
  <2>1. /\ changed \subseteq MemoryFiles \cup {"index", "observations"}
        /\ live \in [MemoryFiles -> 0..stamp] /\ obs \in [lines : Nat, at : 0..stamp]
        /\ index.at \in 0..stamp /\ stamp \in Nat
    BY DEF MInv, Stamped
  <2>2. ASSUME M!RequestDream(FALSE) = "no_corpus_change"
        PROVE  /\ "index" \notin changed
               /\ \A f \in changed \cap MemoryFiles : live[f] = 0 /\ then[2][f] = 0
               /\ "observations" \in changed => obs.lines = 0
    <3>1. then = <<index.at, live, obs>>
      BY <2>2 DEF M!RequestDream, M!CorpusSignature
    <3>2. then[1] = index.at /\ then[2] = live /\ then[3] = obs /\ then # M!NoSignature
      BY <3>1 DEF M!NoSignature
    <3>3. /\ IF "index" \in changed THEN then[1] < index.at ELSE then[1] = index.at
          /\ \A f \in MemoryFiles :
                IF f \in changed THEN live[f] = 0 \/ then[2][f] < live[f] ELSE then[2][f] = live[f]
          /\ IF "observations" \in changed THEN obs.lines = 0 \/ then[3].at < obs.at ELSE then[3] = obs
      BY <3>2 DEF MInv, SignatureAgrees
    <3> QED  BY <2>1, <3>2, <3>3
  <2>3. ASSUME M!RequestDream(FALSE) = "queued", changed = {} PROVE then = M!NoSignature
    <3> SUFFICES ASSUME then # M!NoSignature PROVE then = <<index.at, live, obs>>
      BY <2>3 DEF M!RequestDream, M!CorpusSignature
    <3>1. /\ then \in (0..stamp) \X [MemoryFiles -> 0..stamp] \X [lines : Nat, at : 0..stamp]
          /\ then[1] = index.at /\ then[3] = obs /\ \A f \in MemoryFiles : then[2][f] = live[f]
      BY <2>3 DEF MInv, SignatureAgrees
    <3>2. then[2] = live  BY <2>1, <3>1
    <3> QED  BY <3>1, <3>2
  <2> QED  BY <2>2, <2>3 DEF DreamSettles
<1> QED  BY <1>1, Invariance, PTL

\* (command-router.ts:423, :462, probe.ts:196) A model a chat would run on is one the worker
\* finds, unless its write is still to come or a write was lost.
THEOREM ChosenModelsExist == Spec => []CustomModelsAreFound
<1>1. LInv => CustomModelsAreFound
  <2> DEFINE m == C!resolveEffectiveModel
  <2> SUFFICES ASSUME CInv, m # C!NoModel, cli = C!Idle, ~torn PROVE C!find(m[1], m[2])
    BY DEF LInv, CustomModelsAreFound
  <2>1. StoreTyped /\ OverrideFound /\ DefaultFound
    BY DEF CInv, ChosenAreFound
  <2>2. cli.at = "idle"  BY DEF C!Idle
  <2>3. CASE override # C!NoModel
    BY <2>1, <2>3 DEF OverrideFound, C!resolveEffectiveModel
  <2>4. CASE override = C!NoModel
    <3>1. m = default.model /\ default # NoDefault
      BY <2>1, <2>4, DefaultFacts DEF C!resolveEffectiveModel
    <3> HIDE DEF m
    <3> QED  BY <2>1, <2>2, <3>1 DEF DefaultFound, Coming
  <2> QED  BY <2>3, <2>4
<1> QED  BY <1>1, Invariance, PTL

\* A sync that has made all its copies has written what the session wrote.
LEMMA CopiesDone == ASSUME MInv, session.step = "sync", session.copies = {} PROVE Written
<1>1. CarriedOver  BY DEF MInv, SyncAgrees
<1> QED  BY <1>1 DEF CarriedOver, Written, Rewritten

\* (maintenance-agent.ts:174-194, service.ts:363, :673, :734) Wherever a sync is cut short, each
\* memory file is as it was or as the session wrote it, and none is gone before all is written;
\* lines are consumed and Dream is done only when the persona is as the session left it, files
\* deleted and written again apart.
THEOREM SessionsLeaveWhatTheyWrote == Spec => SyncedAsLeft
<1> DEFINE FilesStep ==
             \A f \in MemoryFiles : live'[f] # live[f] =>
                 IF live'[f] = 0 THEN f \in session.deleted /\ Written ELSE session.clone[f] = "new"
           Done == obs'.lines < obs.lines \/ dream'.signature # dream.signature
           AsLeft ==
             /\ Written
             /\ \A f \in MemoryFiles \ Rewritten : session.clone[f] = "absent" <=> live[f] = 0
             /\ index.holds = session.index
             /\ (session.touched \cap MemoryFiles) \cup session.deleted # {} => M!hasSubstantiveContent(index.holds)
<1>1. LInv /\ [Next]_vars => FilesStep /\ (Done => AsLeft)
  <2> SUFFICES ASSUME MInv, [Next]_vars PROVE FilesStep /\ (Done => AsLeft)
    BY DEF LInv
  <2>0. /\ session \in Sessions /\ stamp \in Nat /\ live \in [MemoryFiles -> 0..stamp] /\ obs.lines \in Nat
        /\ dream = [signature |-> dream.signature, recent |-> dream.recent]
    BY DEF MInv, CloneAgrees, Stamped
  <2>1. ASSUME NEW path, M!CopyBack(path) PROVE FilesStep /\ ~Done
    <3>1. /\ path \in session.copies /\ UNCHANGED <<obs, dream>>
          /\ IF path = "index" THEN UNCHANGED live ELSE live' = [live EXCEPT ![path] = stamp]
      BY <2>1 DEF M!CopyBack
    <3>2. CarriedOver  BY <2>0, <3>1 DEF MInv, SyncAgrees, Sessions
    <3>3. path \in session.touched /\ (path # "index" => session.clone[path] # "absent") /\ stamp # 0
      BY <3>1, <3>2 DEF CarriedOver
    <3>4. ASSUME NEW f \in MemoryFiles, live'[f] # live[f] PROVE live'[f] # 0 /\ session.clone[f] = "new"
      <4>1. f = path /\ live'[f] = stamp /\ path # "index"  BY <2>0, <3>1, <3>4
      <4>2. session.clone[f] # "copied"  BY <3>2, <3>3, <4>1 DEF MInv, CloneAgrees, CarriedOver
      <4> QED  BY <2>0, <3>3, <4>1, <4>2 DEF Sessions
    <3> QED  BY <2>0, <3>1, <3>4
  <2>2. ASSUME NEW f \in MemoryFiles, M!RemoveDeleted(f) PROVE FilesStep /\ ~Done
    <3>1. /\ f \in session.removals /\ session.copies = {} /\ UNCHANGED <<obs, dream>>
          /\ live' = [live EXCEPT ![f] = 0]
      BY <2>2 DEF M!RemoveDeleted
    <3>2. session.step = "sync" /\ CarriedOver  BY <2>0, <3>1 DEF MInv, SyncAgrees, Sessions
    <3>3. Written /\ f \in session.deleted  BY <3>1, <3>2, CopiesDone DEF CarriedOver
    <3>4. \A g \in MemoryFiles : live'[g] # live[g] => g = f /\ live'[g] = 0  BY <2>0, <3>1
    <3> QED  BY <2>0, <3>1, <3>3, <3>4
  <2>3. ASSUME M!Settle PROVE FilesStep /\ AsLeft
    <3>1. live' = live /\ session.step = "sync" /\ session.copies = {} /\ session.removals = {}
      BY <2>3 DEF M!Settle
    <3>2. Written /\ CarriedOver  BY <3>1, CopiesDone DEF MInv, SyncAgrees
    <3>3. \A f \in MemoryFiles \ Rewritten : session.clone[f] = "absent" <=> live[f] = 0
      <4> SUFFICES ASSUME NEW f \in MemoryFiles, f \notin Rewritten PROVE session.clone[f] = "absent" <=> live[f] = 0
        OBVIOUS
      <4>1. CASE session.clone[f] = "absent"  BY <3>1, <3>2, <4>1 DEF CarriedOver
      <4>2. CASE session.clone[f] = "copied"  BY <3>2, <4>2 DEF MInv, CloneAgrees, CarriedOver
      <4>3. CASE session.clone[f] = "new"  BY <3>2, <4>3 DEF Written, CarriedOver
      <4> QED  BY <2>0, <4>1, <4>2, <4>3 DEF Sessions
    <3>4. index.holds = session.index
      BY <3>1, <3>2 DEF MInv, CloneAgrees, CarriedOver
    <3> QED  BY <3>1, <3>2, <3>3, <3>4 DEF CarriedOver, M!ensureSubstantiveIndexAfterMaintenance
  <2>4. ASSUME M!Record PROVE FilesStep /\ ~Done
    BY <2>0, <2>4 DEF M!Record
  <2>5. ASSUME M!DreamComesDue PROVE FilesStep /\ ~Done
    <3>1. live' = live /\ obs' = obs /\ dream' = [dream EXCEPT !.recent = FALSE]
      BY <2>5 DEF M!DreamComesDue
    <3>2. dream'.signature = dream.signature
      <4> DEFINE g == dream.signature
                 r == dream.recent
      <4>1. dream = [signature |-> g, recent |-> r]  BY <2>0
      <4> HIDE DEF g, r
      <4>2. dream' = [[signature |-> g, recent |-> r] EXCEPT !.recent = FALSE]  BY <3>1, <4>1
      <4>3. dream'.signature = g  BY <4>2
      <4> QED  BY <4>3 DEF g
    <3> QED  BY <2>0, <3>1, <3>2
  <2>6. CASE UNCHANGED <<live, obs, dream>>
    BY <2>0, <2>6
  <2>7. M!Next \/ UNCHANGED maintenanceVars
    BY OneOrNone
  <2> HIDE DEF FilesStep, Done, AsLeft
  <2> QED  BY <2>1, <2>2, <2>3, <2>4, <2>5, <2>6, <2>7
           DEF M!Next, M!QueueDream, M!BeginFormation, M!BeginDream, M!Edit, M!Write, M!Delete, M!EditIndex,
               M!Finalize, M!Uses, M!syncMaintenanceClone, M!Fail, M!Crash, maintenanceVars
<1>2. LInv /\ [Next]_vars => [FilesStep /\ (Done => AsLeft)]_vars
  BY <1>1
<1> QED  BY <1>2, Invariance, PTL DEF Spec, SyncedAsLeft

-----------------------------------------------------------------------------
(* Folds: the library's induction over the numbers, for a set. *)

LEMMA Least == ASSUME NEW T \in SUBSET Nat, T # {} PROVE \E x \in T : \A y \in T : x <= y
<1> DEFINE order == OpToRel(<, Nat)
<1>1. IsWellFoundedOn(order, Nat)  BY NatLessThanWellFounded
<1>2. \A x, y \in Nat : x < y => <<x, y>> \in order  BY DEF OpToRel
<1> HIDE DEF order
<1>3. PICK x \in T : \A y \in T : ~(<<y, x>> \in order)  BY <1>1, WFMin
<1>4. ASSUME NEW y \in T PROVE x <= y
  <2>1. x \in Nat /\ y \in Nat /\ ~(y < x)  BY <1>2, <1>3
  <2> QED BY <2>1
<1> QED BY <1>4

LEMMA Induction == ASSUME NEW T \in SUBSET Nat, 0 \in T, \A n \in T : n + 1 \in T PROVE T = Nat
<1> SUFFICES ASSUME T # Nat PROVE FALSE
  OBVIOUS
<1>1. PICK x \in Nat \ T : \A y \in Nat \ T : x <= y  BY Least
<1>2. x # 0 /\ x - 1 \in Nat /\ x - 1 \notin Nat \ T  BY <1>1
<1> QED BY <1>1, <1>2

LEMMA MaxFacts ==
  ASSUME NEW n \in Nat, NEW t \in SUBSET (1..n), t # {}
  PROVE  X!Max(t) \in t /\ (\A y \in t : y <= X!Max(t)) /\ Max(t) = X!Max(t)
<1> DEFINE U == {n - x : x \in t}
<1>1. U \in SUBSET Nat /\ U # {}
  <2>1. \A x \in 1..n : n - x \in Nat  OBVIOUS
  <2> QED BY <2>1
<1>2. PICK u \in U : \A y \in U : u <= y  BY <1>1, Least
<1>3. PICK x \in t : u = n - x  BY <1>2
<1>4. ASSUME NEW y \in t PROVE x >= y
  <2>1. n - y \in U  OBVIOUS
  <2>2. n - x <= n - y  BY <1>2, <1>3, <2>1
  <2> HIDE DEF U
  <2>3. x \in 1..n /\ y \in 1..n  OBVIOUS
  <2> QED BY <2>2, <2>3
<1>5. X!Max(t) \in t /\ \A y \in t : X!Max(t) >= y  BY <1>3, <1>4 DEF X!Max
<1>6. Max(t) = X!Max(t)  BY DEF X!Max, Max
<1> QED BY <1>5, <1>6

\* g folds F over the positions up to n, from v on.
Folds(g, n, v, F) ==
  \A t \in SUBSET (1..n) : g[t] = IF t = {} THEN v ELSE F[<<X!Max(t), g[t \ {X!Max(t)}]>>]

Foldable(n, V, v, F) == \E g \in [SUBSET (1..n) -> V] : Folds(g, n, v, F)

LEMMA FoldExists ==
  ASSUME NEW n \in Nat, NEW V, NEW v \in V, NEW F \in [(1..n) \X V -> V]
  PROVE  Foldable(n, V, v, F)
<1> DEFINE T == {k \in Nat : k <= n => Foldable(k, V, v, F)}
<1>1. 0 \in T
  <2> DEFINE g == [t \in SUBSET (1..0) |-> v]
  <2>1. SUBSET (1..0) = {{}}  OBVIOUS
  <2>2. g \in [SUBSET (1..0) -> V] /\ Folds(g, 0, v, F)  BY <2>1 DEF Folds
  <2> HIDE DEF g
  <2> QED BY <2>2 DEF Foldable
<1>2. ASSUME NEW k \in T PROVE k + 1 \in T
  <2> SUFFICES ASSUME k + 1 <= n PROVE Foldable(k + 1, V, v, F)
    OBVIOUS
  <2>2. k \in Nat /\ k + 1 \in 1..n /\ k + 1 \in Nat /\ Foldable(k, V, v, F)  OBVIOUS
  <2>1. PICK g \in [SUBSET (1..k) -> V] : Folds(g, k, v, F)  BY <2>2 DEF Foldable
  <2> HIDE DEF T
  <2> DEFINE h == [t \in SUBSET (1..(k + 1)) |-> IF k + 1 \in t THEN F[<<k + 1, g[t \ {k + 1}]>>] ELSE g[t]]
  <2>3. \A t \in SUBSET (1..(k + 1)) : k + 1 \in t => X!Max(t) = k + 1
    <3> SUFFICES ASSUME NEW t \in SUBSET (1..(k + 1)), k + 1 \in t PROVE X!Max(t) = k + 1
      OBVIOUS
    <3>1. X!Max(t) \in t /\ k + 1 <= X!Max(t)  BY <2>2, MaxFacts
    <3>2. X!Max(t) \in 1..(k + 1)  BY <3>1
    <3> QED BY <2>2, <3>1, <3>2
  <2>4. \A t \in SUBSET (1..(k + 1)) : t \ {k + 1} \in SUBSET (1..k) /\ (k + 1 \notin t => t \in SUBSET (1..k))
    BY <2>2
  <2>5. h \in [SUBSET (1..(k + 1)) -> V]
    <3>1. ASSUME NEW t \in SUBSET (1..(k + 1)) PROVE h[t] \in V
      <4>1. g[t \ {k + 1}] \in V /\ (k + 1 \notin t => g[t] \in V)  BY <2>4
      <4>2. F[<<k + 1, g[t \ {k + 1}]>>] \in V  BY <2>2, <4>1
      <4> QED BY <4>1, <4>2
    <3> QED BY <3>1
  <2>6. ASSUME NEW t \in SUBSET (1..(k + 1))
        PROVE  h[t] = IF t = {} THEN v ELSE F[<<X!Max(t), h[t \ {X!Max(t)}]>>]
    <3>1. CASE k + 1 \in t
      <4>1. h[t] = F[<<k + 1, g[t \ {k + 1}]>>]  BY <3>1
      <4>2. t \ {k + 1} \in SUBSET (1..(k + 1)) /\ k + 1 \notin t \ {k + 1}  OBVIOUS
      <4>3. h[t \ {k + 1}] = g[t \ {k + 1}]  BY <4>2
      <4> QED BY <2>3, <3>1, <4>1, <4>3
    <3>2. CASE k + 1 \notin t
      <4>1. t \in SUBSET (1..k) /\ h[t] = g[t]  BY <2>4, <3>2
      <4>2. g[t] = IF t = {} THEN v ELSE F[<<X!Max(t), g[t \ {X!Max(t)}]>>]  BY <2>1, <4>1 DEF Folds
      <4>3. t \ {X!Max(t)} \in SUBSET (1..(k + 1)) /\ k + 1 \notin t \ {X!Max(t)}  BY <3>2
      <4>4. h[t \ {X!Max(t)}] = g[t \ {X!Max(t)}]  BY <4>3
      <4> QED BY <4>1, <4>2, <4>4
    <3> QED BY <3>1, <3>2
  <2> HIDE DEF h
  <2>7. Folds(h, k + 1, v, F)  BY <2>6 DEF Folds
  <2> QED BY <2>5, <2>7 DEF Foldable
<1>3. T = Nat
  <2> HIDE DEF T
  <2>1. T \in SUBSET Nat  BY DEF T
  <2> QED BY <1>1, <1>2, <2>1, Induction
<1>4. n \in T  BY <1>3
<1> QED BY <1>4

-----------------------------------------------------------------------------
(* ModelContext: sums of tokens. *)

\* f counts s from its start.
Counts(f, s) ==
  /\ f \in [0..Len(s) -> Nat] /\ f[0] = 0
  /\ \A i \in 1..Len(s) : f[i] = f[i - 1] + s[i]

LEMMA UpTo ==
  ASSUME NEW i \in Nat, i > 0
  PROVE  1..i # {} /\ X!Max(1..i) = i /\ (1..i) \ {i} = 1..(i - 1)
<1>1. 1..i # {} /\ (1..i) \ {i} = 1..(i - 1)  OBVIOUS
<1>2. X!Max(1..i) \in 1..i /\ i <= X!Max(1..i)
  <2>1. 1..i \in SUBSET (1..i) /\ i \in 1..i  OBVIOUS
  <2> QED BY <1>1, <2>1, MaxFacts
<1> QED BY <1>1, <1>2

LEMMA SumCounts ==
  ASSUME NEW s \in Seq(Nat)
  PROVE  \E f : Counts(f, s) /\ X!sum(s) = f[Len(s)]
<1> DEFINE n == Len(s)
           Iter(g) == g = [t \in SUBSET (1..n) |-> IF t = {} THEN 0 ELSE g[t \ {X!Max(t)}] + s[X!Max(t)]]
           F == [p \in (1..n) \X Nat |-> p[2] + s[p[1]]]
           it == CHOOSE g : Iter(g)
           f == [i \in 0..n |-> it[1..i]]
           T == {i \in Nat : i <= n => it[1..i] \in Nat}
<1>1. n \in Nat /\ DOMAIN s = 1..n /\ \A i \in 1..n : s[i] \in Nat  OBVIOUS
<1>2. X!sum(s) = it[1..n]  BY <1>1 DEF X!sum, X!FoldLeft, X!MapThenFoldSet
<1> HIDE DEF n
<1>3. F \in [(1..n) \X Nat -> Nat]  BY <1>1
<1>4. PICK g \in [SUBSET (1..n) -> Nat] : Folds(g, n, 0, F)
  BY <1>1, <1>3, FoldExists DEF Foldable
<1>5. ASSUME NEW t \in SUBSET (1..n) PROVE g[t] = IF t = {} THEN 0 ELSE g[t \ {X!Max(t)}] + s[X!Max(t)]
  <2>1. CASE t = {}  BY <1>4, <2>1 DEF Folds
  <2>2. CASE t # {}
    <3>1. X!Max(t) \in 1..n  BY <1>1, <2>2, MaxFacts
    <3>2. t \ {X!Max(t)} \in SUBSET (1..n)  OBVIOUS
    <3>3. g[t] = F[<<X!Max(t), g[t \ {X!Max(t)}]>>]  BY <1>4, <2>2 DEF Folds
    <3> QED BY <2>2, <3>1, <3>2, <3>3
  <2> QED BY <2>1, <2>2
<1>6. Iter(g)  BY <1>5
<1>7. Iter(it)  BY <1>6
<1> HIDE DEF it
<1>8. it[{}] = 0 /\ \A i \in 1..n : it[1..i] = it[1..(i - 1)] + s[i]
  <2>1. {} \in SUBSET (1..n)  OBVIOUS
  <2>2. ASSUME NEW i \in 1..n PROVE it[1..i] = it[1..(i - 1)] + s[i]
    <3>1. i \in Nat /\ i > 0 /\ 1..i \in SUBSET (1..n)  BY <1>1
    <3>2. 1..i # {} /\ X!Max(1..i) = i /\ (1..i) \ {i} = 1..(i - 1)  BY <3>1, UpTo
    <3> QED BY <1>7, <3>1, <3>2
  <2> QED BY <1>7, <2>1, <2>2
<1>9. T = Nat
  <2>1. 0 \in T
    <3>1. 1..0 = {}  OBVIOUS
    <3> QED BY <1>8, <3>1
  <2>2. ASSUME NEW i \in T PROVE i + 1 \in T
    <3> SUFFICES ASSUME i + 1 <= n PROVE it[1..(i + 1)] \in Nat
      OBVIOUS
    <3>1. i \in Nat /\ i + 1 \in 1..n /\ (i + 1) - 1 = i /\ it[1..i] \in Nat  BY <1>1
    <3>2. it[1..(i + 1)] = it[1..i] + s[i + 1]  BY <1>8, <3>1
    <3> QED BY <1>1, <3>1, <3>2
  <2> HIDE DEF T
  <2>3. T \in SUBSET Nat  BY DEF T
  <2> QED BY <2>1, <2>2, <2>3, Induction
<1>10. Counts(f, s)
  <2>1. f \in [0..n -> Nat]  BY <1>9
  <2>2. f[0] = 0
    <3>1. 1..0 = {}  OBVIOUS
    <3> QED BY <1>1, <1>8, <3>1
  <2>3. ASSUME NEW i \in 1..n PROVE f[i] = f[i - 1] + s[i]
    <3>1. i \in 0..n /\ i - 1 \in 0..n  BY <1>1
    <3> QED BY <1>8, <3>1
  <2> HIDE DEF f
  <2> QED BY <2>1, <2>2, <2>3 DEF Counts, n
<1>11. f[n] = it[1..n]  BY <1>1
<1> HIDE DEF f
<1> QED BY <1>2, <1>10, <1>11 DEF n

LEMMA CountsSame ==
  ASSUME NEW s \in Seq(Nat), NEW f, Counts(f, s), NEW g, Counts(g, s)
  PROVE  f[Len(s)] = g[Len(s)]
<1> DEFINE n == Len(s)
           T == {i \in Nat : i <= n => f[i] = g[i]}
<1>1. n \in Nat  OBVIOUS
<1>2. f[0] = g[0] /\ \A i \in 1..n : f[i] = f[i - 1] + s[i] /\ g[i] = g[i - 1] + s[i]  BY DEF Counts
<1> HIDE DEF n
<1>3. 0 \in T  BY <1>2
<1>4. ASSUME NEW i \in T PROVE i + 1 \in T
  <2> SUFFICES ASSUME i + 1 <= n PROVE f[i + 1] = g[i + 1]
    OBVIOUS
  <2>1. i \in Nat /\ i + 1 \in 1..n /\ (i + 1) - 1 = i /\ f[i] = g[i]  BY <1>1
  <2> QED BY <1>2, <2>1
<1> HIDE DEF T
<1>5. T = Nat
  <2>1. T \in SUBSET Nat  BY DEF T
  <2> QED BY <1>3, <1>4, <2>1, Induction
<1>6. f[n] = g[n]  BY <1>1, <1>5 DEF T
<1> QED BY <1>6 DEF n

LEMMA SumIs ==
  ASSUME NEW s \in Seq(Nat), NEW f, Counts(f, s)
  PROVE  X!sum(s) = f[Len(s)] /\ X!sum(s) \in Nat
<1>1. PICK g : Counts(g, s) /\ X!sum(s) = g[Len(s)]  BY SumCounts
<1>2. f[Len(s)] = g[Len(s)]  BY <1>1, CountsSame
<1>3. f[Len(s)] \in Nat
  <2>1. Len(s) \in Nat  OBVIOUS
  <2> QED BY <2>1 DEF Counts
<1> QED BY <1>1, <1>2, <1>3

LEMMA CountsRise ==
  ASSUME NEW s \in Seq(Nat), NEW f, Counts(f, s), NEW i \in 0..Len(s), NEW j \in 0..Len(s), i <= j
  PROVE  f[i] <= f[j] /\ f[i] \in Nat /\ f[j] \in Nat
<1> DEFINE n == Len(s)
           T == {k \in Nat : k <= n => (i <= k => f[i] <= f[k])}
<1>1. n \in Nat /\ \A k \in 1..n : s[k] \in Nat  OBVIOUS
<1>2. f \in [0..n -> Nat] /\ \A k \in 1..n : f[k] = f[k - 1] + s[k]  BY DEF Counts
<1>0. i \in 0..n /\ j \in 0..n  OBVIOUS
<1> HIDE DEF n
<1>3. 0 \in T
  <2>1. i <= 0 => i = 0  BY <1>0, <1>1
  <2> QED BY <1>0, <1>2, <2>1
<1>4. ASSUME NEW k \in T PROVE k + 1 \in T
  <2> SUFFICES ASSUME k + 1 <= n, i <= k + 1 PROVE f[i] <= f[k + 1]
    OBVIOUS
  <2>1. k \in Nat /\ k + 1 \in 1..n /\ (k + 1) - 1 = k /\ k \in 0..n /\ k + 1 \in 0..n  BY <1>1
  <2>2. f[k + 1] = f[k] + s[k + 1] /\ f[k] \in Nat /\ s[k + 1] \in Nat /\ f[i] \in Nat  BY <1>0, <1>1, <1>2, <2>1
  <2>3. CASE i <= k
    <3>1. f[i] <= f[k]  BY <1>1, <2>1, <2>3
    <3> QED BY <2>2, <3>1
  <2>4. CASE ~(i <= k)
    <3>1. i = k + 1  BY <1>0, <2>1, <2>4
    <3> QED BY <2>2, <3>1
  <2> QED BY <2>3, <2>4
<1> HIDE DEF T
<1>5. T = Nat
  <2>1. T \in SUBSET Nat  BY DEF T
  <2> QED BY <1>3, <1>4, <2>1, Induction
<1>6. j \in Nat /\ j <= n  BY <1>0
<1>7. f[i] <= f[j]  BY <1>5, <1>6 DEF T
<1> QED BY <1>0, <1>2, <1>7

\* What of s is kept when n elements are.
PartOf(kind, s, n) == IF kind = "tail" THEN X!last(s, n) ELSE SubSeq(s, 1, n)

\* q is s from d + 1 to d + n.
Stretch(q, s, d, n) == Len(q) = n /\ \A k \in 1..n : q[k] = s[d + k]

LEMMA StretchOf ==
  ASSUME NEW s \in Seq(Nat), NEW d \in Nat, NEW n \in Nat, d + n <= Len(s)
  PROVE  SubSeq(s, d + 1, d + n) \in Seq(Nat) /\ Stretch(SubSeq(s, d + 1, d + n), s, d, n)
<1> DEFINE q == SubSeq(s, d + 1, d + n)
<1>1. \A i \in (d + 1)..(d + n) : s[i] \in Nat
  <2>1. \A i \in (d + 1)..(d + n) : i \in 1..Len(s)  OBVIOUS
  <2> QED BY <2>1
<1>2. /\ q \in Seq(Nat)
      /\ Len(q) = IF d + 1 <= d + n THEN d + n - (d + 1) + 1 ELSE 0
      /\ \A i \in 1..(d + n - (d + 1) + 1) : q[i] = s[d + 1 + i - 1]
  BY <1>1, SubSeqProperties
<1> HIDE DEF q
<1>3. /\ (IF d + 1 <= d + n THEN d + n - (d + 1) + 1 ELSE 0) = n
      /\ d + n - (d + 1) + 1 = n
      /\ \A i \in 1..n : d + 1 + i - 1 = d + i
  OBVIOUS
<1>4. Len(q) = n  BY <1>2, <1>3
<1>5. \A i \in 1..n : q[i] = s[d + i]  BY <1>2, <1>3
<1> QED BY <1>2, <1>4, <1>5 DEF Stretch, q

LEMMA SumOfStretch ==
  ASSUME NEW s \in Seq(Nat), NEW f, Counts(f, s), NEW d \in Nat, NEW n \in Nat, d + n <= Len(s),
         NEW q \in Seq(Nat), Stretch(q, s, d, n)
  PROVE  X!sum(q) = f[d + n] - f[d] /\ X!sum(q) \in Nat
<1> DEFINE g == [i \in 0..n |-> f[d + i] - f[d]]
           l == Len(s)
<1>1. l \in Nat /\ f \in [0..l -> Nat] /\ \A i \in 1..l : f[i] = f[i - 1] + s[i]  BY DEF Counts
<1>2. Len(q) = n /\ \A k \in 1..n : q[k] = s[d + k]  BY DEF Stretch
<1>3. ASSUME NEW i \in 0..n PROVE f[d + i] - f[d] \in Nat
  <2>1. d \in 0..Len(s) /\ d + i \in 0..Len(s) /\ d <= d + i  OBVIOUS
  <2>2. f[d] <= f[d + i] /\ f[d] \in Nat /\ f[d + i] \in Nat  BY <2>1, CountsRise
  <2> QED BY <2>2
<1>0. d + n <= l  OBVIOUS
<1> HIDE DEF l
<1>4. Counts(g, q)
  <2>1. g \in [0..n -> Nat]  BY <1>3
  <2>2. g[0] = 0
    <3>1. d + 0 = d /\ d \in 0..l  BY <1>0, <1>1
    <3>2. f[d] \in Nat  BY <1>1, <3>1
    <3> QED BY <3>1, <3>2
  <2>3. ASSUME NEW i \in 1..n PROVE g[i] = g[i - 1] + q[i]
    <3>1. i \in 0..n /\ i - 1 \in 0..n /\ d + i \in 1..l /\ (d + i) - 1 = d + (i - 1) /\ d + (i - 1) \in 0..l /\ d \in 0..l
      BY <1>0, <1>1
    <3>2. f[d + i] = f[d + (i - 1)] + s[d + i] /\ q[i] = s[d + i]  BY <1>1, <1>2, <3>1
    <3>3. q[i] \in Nat  BY <1>2
    <3>4. f[d] \in Nat /\ f[d + (i - 1)] \in Nat  BY <1>1, <3>1
    <3>5. g[i] = f[d + i] - f[d] /\ g[i - 1] = f[d + (i - 1)] - f[d]  BY <3>1
    <3> QED BY <3>2, <3>3, <3>4, <3>5
  <2> HIDE DEF g
  <2> QED BY <1>2, <2>1, <2>2, <2>3 DEF Counts
<1>5. X!sum(q) = g[Len(q)] /\ X!sum(q) \in Nat  BY <1>4, SumIs
<1> QED BY <1>2, <1>5

\* (observations.ts:21) A part of n elements is a stretch of the text; all of it is the text.
LEMMA PartFacts ==
  ASSUME NEW s \in Seq(Nat), NEW kind, NEW n \in 0..Len(s)
  PROVE  /\ PartOf(kind, s, n) \in Seq(Nat) /\ (n = Len(s) => PartOf(kind, s, n) = s)
         /\ Stretch(PartOf(kind, s, n), s, IF kind = "tail" THEN Len(s) - n ELSE 0, n)
<1> DEFINE l == Len(s)
<1>1. l \in Nat /\ n \in Nat /\ n <= l  OBVIOUS
<1>2. Stretch(s, s, 0, l)
  <2>1. \A k \in 1..l : 0 + k = k  OBVIOUS
  <2> QED BY <2>1 DEF Stretch
<1>3. SubSeq(s, 1, n) \in Seq(Nat) /\ Stretch(SubSeq(s, 1, n), s, 0, n)
  <2>1. 0 + n <= Len(s) /\ 0 + 1 = 1 /\ 0 + n = n  OBVIOUS
  <2>2. SubSeq(s, 0 + 1, 0 + n) \in Seq(Nat) /\ Stretch(SubSeq(s, 0 + 1, 0 + n), s, 0, n)  BY <2>1, StretchOf
  <2> QED BY <2>1, <2>2
<1>4. n = l => SubSeq(s, 1, n) = s  OBVIOUS
<1>5. CASE kind # "tail"  BY <1>3, <1>4, <1>5 DEF PartOf
<1>6. CASE kind = "tail"
  <2>1. CASE n = l
    <3>1. PartOf(kind, s, n) = s /\ l - n = 0  BY <1>1, <1>6, <2>1 DEF PartOf, X!last
    <3> QED BY <1>2, <1>6, <2>1, <3>1
  <2>2. CASE n # l
    <3>1. PartOf(kind, s, n) = SubSeq(s, l - n + 1, l)  BY <1>1, <1>6, <2>2 DEF PartOf, X!last
    <3>2. l - n \in Nat /\ (l - n) + n = l  BY <1>1
    <3>3. SubSeq(s, (l - n) + 1, (l - n) + n) \in Seq(Nat) /\ Stretch(SubSeq(s, (l - n) + 1, (l - n) + n), s, l - n, n)
      BY <1>1, <3>2, StretchOf
    <3> QED BY <1>6, <2>2, <3>1, <3>2, <3>3
  <2> QED BY <2>1, <2>2
<1> QED BY <1>5, <1>6

\* (observations.ts:10) What makes a binary search right: a longer part is not cheaper.
LEMMA PartsGrow ==
  ASSUME NEW s \in Seq(Nat), NEW kind, NEW m \in 0..Len(s), NEW n \in 0..Len(s), m <= n
  PROVE  /\ {X!sum(PartOf(kind, s, m)), X!sum(PartOf(kind, s, n))} \subseteq Nat
         /\ X!sum(PartOf(kind, s, m)) <= X!sum(PartOf(kind, s, n))
         /\ m = 0 => X!sum(PartOf(kind, s, m)) = 0
<1> DEFINE l == Len(s)
           d(k) == IF kind = "tail" THEN l - k ELSE 0
<1>1. PICK f : Counts(f, s)  BY SumCounts
<1>2. l \in Nat /\ m \in Nat /\ n \in Nat /\ m <= l /\ n <= l  OBVIOUS
<1>3. ASSUME NEW k \in 0..l PROVE /\ X!sum(PartOf(kind, s, k)) = f[d(k) + k] - f[d(k)] /\ X!sum(PartOf(kind, s, k)) \in Nat
                                  /\ d(k) \in 0..l /\ d(k) + k \in 0..l /\ d(k) <= d(k) + k
  <2>0. k \in Nat  BY <1>2
  <2>1. PartOf(kind, s, k) \in Seq(Nat) /\ Stretch(PartOf(kind, s, k), s, d(k), k)  BY PartFacts
  <2>2. d(k) \in Nat /\ d(k) + k <= Len(s)  BY <1>2
  <2>4. d(k) \in 0..l /\ d(k) + k \in 0..l /\ d(k) <= d(k) + k  BY <1>2, <2>2
  <2> DEFINE q == PartOf(kind, s, k)
             e == d(k)
  <2> HIDE DEF q, e
  <2>3. X!sum(q) = f[e + k] - f[e] /\ X!sum(q) \in Nat
    <3>1. q \in Seq(Nat) /\ Stretch(q, s, e, k) /\ e \in Nat /\ e + k <= Len(s)  BY <2>1, <2>2 DEF q, e
    <3> QED BY <1>1, <2>0, <3>1, SumOfStretch
  <2> QED BY <2>3, <2>4 DEF q, e
<1>4. d(n) <= d(m) /\ d(m) + m <= d(n) + n  BY <1>2
<1>0. m \in 0..l /\ n \in 0..l  OBVIOUS
<1> HIDE DEF d
<1>5. /\ f[d(n)] <= f[d(m)] /\ f[d(m) + m] <= f[d(n) + n]
      /\ f[d(n)] \in Nat /\ f[d(m)] \in Nat /\ f[d(m) + m] \in Nat /\ f[d(n) + n] \in Nat
  <2>1. d(n) \in 0..Len(s) /\ d(m) \in 0..Len(s) /\ d(m) + m \in 0..Len(s) /\ d(n) + n \in 0..Len(s)  BY <1>0, <1>3
  <2>2. f[d(n)] <= f[d(m)] /\ f[d(n)] \in Nat /\ f[d(m)] \in Nat  BY <1>1, <1>4, <2>1, CountsRise
  <2>3. f[d(m) + m] <= f[d(n) + n] /\ f[d(m) + m] \in Nat /\ f[d(n) + n] \in Nat  BY <1>1, <1>4, <2>1, CountsRise
  <2> QED BY <2>2, <2>3
<1>6. /\ X!sum(PartOf(kind, s, m)) = f[d(m) + m] - f[d(m)] /\ X!sum(PartOf(kind, s, m)) \in Nat
      /\ X!sum(PartOf(kind, s, n)) = f[d(n) + n] - f[d(n)] /\ X!sum(PartOf(kind, s, n)) \in Nat
  BY <1>0, <1>3
<1>7. X!sum(PartOf(kind, s, m)) <= X!sum(PartOf(kind, s, n))  BY <1>5, <1>6
<1>8. ASSUME m = 0 PROVE X!sum(PartOf(kind, s, m)) = 0
  <2>1. d(m) + m = d(m)  BY <1>0, <1>3, <1>8
  <2> QED BY <1>5, <1>6, <2>1
<1> QED BY <1>6, <1>7, <1>8

LEMMA SumPointwise ==
  ASSUME NEW s \in Seq(Nat), NEW q \in Seq(Nat), Len(s) = Len(q), \A i \in 1..Len(s) : s[i] <= q[i]
  PROVE  X!sum(s) <= X!sum(q) /\ X!sum(s) \in Nat /\ X!sum(q) \in Nat
<1> DEFINE n == Len(s)
<1>1. PICK f : Counts(f, s) /\ X!sum(s) = f[Len(s)]  BY SumCounts
<1>2. PICK g : Counts(g, q) /\ X!sum(q) = g[Len(q)]  BY SumCounts
<1>3. /\ n \in Nat /\ \A i \in 1..n : s[i] \in Nat /\ q[i] \in Nat /\ s[i] <= q[i]
      /\ f \in [0..n -> Nat] /\ g \in [0..n -> Nat] /\ f[0] = 0 /\ g[0] = 0
      /\ \A i \in 1..n : f[i] = f[i - 1] + s[i] /\ g[i] = g[i - 1] + q[i]
  BY <1>1, <1>2 DEF Counts
<1> DEFINE T == {i \in Nat : i <= n => f[i] <= g[i]}
<1>4. X!sum(s) = f[n] /\ X!sum(q) = g[n]  BY <1>1, <1>2
<1> HIDE DEF n
<1>5. 0 \in T  BY <1>3
<1>6. ASSUME NEW i \in T PROVE i + 1 \in T
  <2> SUFFICES ASSUME i + 1 <= n PROVE f[i + 1] <= g[i + 1]
    OBVIOUS
  <2>1. i \in Nat /\ i + 1 \in 1..n /\ (i + 1) - 1 = i /\ i \in 0..n /\ f[i] <= g[i]  BY <1>3
  <2>2. /\ f[i + 1] = f[i] + s[i + 1] /\ g[i + 1] = g[i] + q[i + 1] /\ s[i + 1] <= q[i + 1]
        /\ f[i] \in Nat /\ g[i] \in Nat /\ s[i + 1] \in Nat /\ q[i + 1] \in Nat
    BY <1>3, <2>1
  <2> QED BY <2>1, <2>2
<1> HIDE DEF T
<1>7. T = Nat
  <2>1. T \in SUBSET Nat  BY DEF T
  <2> QED BY <1>5, <1>6, <2>1, Induction
<1>8. f[n] <= g[n]
  <2>1. n \in T  BY <1>3, <1>7
  <2>2. n <= n  BY <1>3
  <2> QED BY <2>1, <2>2 DEF T
<1>9. n \in 0..n  BY <1>3
<1> QED BY <1>3, <1>4, <1>8, <1>9

LEMMA SumEmpty == X!sum(<<>>) = 0
<1> DEFINE f == [i \in 0..0 |-> 0]
           s == <<>>
<1>1. s \in Seq(Nat) /\ Len(s) = 0  OBVIOUS
<1>2. Counts(f, s)  BY <1>1 DEF Counts
<1> HIDE DEF f
<1>3. X!sum(s) = f[Len(s)]  BY <1>1, <1>2, SumIs
<1> QED BY <1>1, <1>3 DEF f

-----------------------------------------------------------------------------
(* ModelContext: the timeline of a log. *)

\* it follows F from v on as long as it stays in V.
Follows(it, n, V, v, F) ==
  /\ it[{}] = v
  /\ \A i \in 1..n : it[1..(i - 1)] \in V => it[1..i] = F[<<i, it[1..(i - 1)]>>]

LEMMA FoldStays ==
  ASSUME NEW n \in Nat, NEW V, NEW v \in V, NEW F \in [(1..n) \X V -> V], NEW it, Follows(it, n, V, v, F)
  PROVE  it[1..n] \in V
<1> DEFINE T == {i \in Nat : i <= n => it[1..i] \in V}
<1>1. 0 \in T
  <2>1. 1..0 = {}  OBVIOUS
  <2> QED BY <2>1 DEF Follows
<1>2. ASSUME NEW i \in T PROVE i + 1 \in T
  <2> SUFFICES ASSUME i + 1 <= n PROVE it[1..(i + 1)] \in V
    OBVIOUS
  <2>1. i \in Nat /\ i + 1 \in 1..n /\ (i + 1) - 1 = i /\ it[1..i] \in V  OBVIOUS
  <2>2. it[1..(i + 1)] = F[<<i + 1, it[1..i]>>]  BY <2>1 DEF Follows
  <2> QED BY <2>1, <2>2
<1> HIDE DEF T
<1>3. T = Nat
  <2>1. T \in SUBSET Nat  BY DEF T
  <2> QED BY <1>1, <1>2, <2>1, Induction
<1> QED BY <1>3 DEF T

\* (session-log.ts:226) The turns of a timeline are counts of tokens.
LEMMA TimelineTyped ==
  ASSUME NEW log \in Seq([type : STRING, tokens : Nat]), NEW fallback \in Seq(Nat)
  PROVE  X!buildFormationTimeline(log, fallback) \in Seq(Nat)
<1> DEFINE n == Len(log)
           m == Len(fallback)
           skipped(e) == e.tokens = 0 \/ e.type \in {"deleted", "command"}
           seen == {e.tokens : e \in {d \in X!ToSet(log) : d.type = "bot"}}
           known(turns, r) == r = 0 \/ r \in seen \/ r \in X!ToSet(turns)
           Told(g) == g = [t \in SUBSET (1..n) |-> IF t = {} THEN <<>>
                             ELSE IF skipped(log[X!Max(t)]) THEN g[t \ {X!Max(t)}]
                                  ELSE Append(g[t \ {X!Max(t)}], log[X!Max(t)].tokens)]
           Missed(g) == g = [t \in SUBSET (1..m) |-> IF t = {} THEN <<>>
                             ELSE IF known(g[t \ {X!Max(t)}], fallback[X!Max(t)]) THEN g[t \ {X!Max(t)}]
                                  ELSE Append(g[t \ {X!Max(t)}], fallback[X!Max(t)])]
           told == CHOOSE g : Told(g)
           missed == CHOOSE g : Missed(g)
           F == [p \in (1..n) \X Seq(Nat) |-> IF skipped(log[p[1]]) THEN p[2] ELSE Append(p[2], log[p[1]].tokens)]
           G == [p \in (1..m) \X Seq(Nat) |-> IF known(p[2], fallback[p[1]]) THEN p[2] ELSE Append(p[2], fallback[p[1]])]
<1>1. n \in Nat /\ m \in Nat /\ DOMAIN log = 1..n /\ DOMAIN fallback = 1..m  OBVIOUS
<1>2. X!buildFormationTimeline(log, fallback) = told[1..n] \o missed[1..m]
  BY <1>1 DEF X!buildFormationTimeline, X!FoldLeft, X!MapThenFoldSet
<1>3. (\A i \in 1..n : log[i].tokens \in Nat) /\ \A i \in 1..m : fallback[i] \in Nat
  <2>1. ASSUME NEW i \in 1..n PROVE log[i].tokens \in Nat
    <3> DEFINE e == log[i]
               SessionMessage == [type : STRING, tokens : Nat]
    <3>0. log \in Seq(SessionMessage)  OBVIOUS
    <3> HIDE DEF SessionMessage
    <3>1. e \in SessionMessage  BY <2>1, <3>0
    <3> USE DEF SessionMessage
    <3> HIDE DEF e
    <3>2. e.tokens \in Nat  BY <3>1
    <3> QED BY <3>2 DEF e
  <2>2. ASSUME NEW i \in 1..m PROVE fallback[i] \in Nat  OBVIOUS
  <2> QED BY <2>1, <2>2
<1>4. <<>> \in Seq(Nat)  OBVIOUS
<1> HIDE DEF n, m, seen, skipped, known
<1>5. told[1..n] \in Seq(Nat)
  <2>1. F \in [(1..n) \X Seq(Nat) -> Seq(Nat)]  BY <1>3
  <2>2. PICK g \in [SUBSET (1..n) -> Seq(Nat)] : Folds(g, n, <<>>, F)
    BY <1>1, <1>4, <2>1, FoldExists DEF Foldable
  <2>3. Told(g)
    <3> SUFFICES ASSUME NEW t \in SUBSET (1..n)
                 PROVE  g[t] = IF t = {} THEN <<>> ELSE IF skipped(log[X!Max(t)]) THEN g[t \ {X!Max(t)}]
                                                        ELSE Append(g[t \ {X!Max(t)}], log[X!Max(t)].tokens)
      OBVIOUS
    <3>1. CASE t = {}  BY <2>2, <3>1 DEF Folds
    <3>2. CASE t # {}
      <4>1. X!Max(t) \in 1..n /\ g[t \ {X!Max(t)}] \in Seq(Nat)  BY <1>1, <3>2, MaxFacts
      <4>2. g[t] = F[<<X!Max(t), g[t \ {X!Max(t)}]>>]  BY <2>2, <3>2 DEF Folds
      <4> QED BY <3>2, <4>1, <4>2
    <3> QED BY <3>1, <3>2
  <2>4. Told(told)  BY <2>3
  <2> HIDE DEF told
  <2>5. Follows(told, n, Seq(Nat), <<>>, F)
    <3>1. told[{}] = <<>>  BY <2>4
    <3>2. ASSUME NEW i \in 1..n, told[1..(i - 1)] \in Seq(Nat) PROVE told[1..i] = F[<<i, told[1..(i - 1)]>>]
      <4>1. i \in Nat /\ i > 0 /\ 1..i \in SUBSET (1..n)  BY <1>1
      <4>2. 1..i # {} /\ X!Max(1..i) = i /\ (1..i) \ {i} = 1..(i - 1)  BY <4>1, UpTo
      <4>3. told[1..i] = IF skipped(log[i]) THEN told[1..(i - 1)] ELSE Append(told[1..(i - 1)], log[i].tokens)
        BY <2>4, <4>1, <4>2
      <4> QED BY <3>2, <4>3
    <3> HIDE DEF F
    <3> QED BY <3>1, <3>2 DEF Follows
  <2> HIDE DEF F
  <2> QED BY <1>1, <1>4, <2>1, <2>5, FoldStays
<1>6. missed[1..m] \in Seq(Nat)
  <2>1. G \in [(1..m) \X Seq(Nat) -> Seq(Nat)]  BY <1>3
  <2>2. PICK g \in [SUBSET (1..m) -> Seq(Nat)] : Folds(g, m, <<>>, G)
    BY <1>1, <1>4, <2>1, FoldExists DEF Foldable
  <2>3. Missed(g)
    <3> SUFFICES ASSUME NEW t \in SUBSET (1..m)
                 PROVE  g[t] = IF t = {} THEN <<>>
                               ELSE IF known(g[t \ {X!Max(t)}], fallback[X!Max(t)]) THEN g[t \ {X!Max(t)}]
                                    ELSE Append(g[t \ {X!Max(t)}], fallback[X!Max(t)])
      OBVIOUS
    <3>1. CASE t = {}  BY <2>2, <3>1 DEF Folds
    <3>2. CASE t # {}
      <4>1. X!Max(t) \in 1..m /\ g[t \ {X!Max(t)}] \in Seq(Nat)  BY <1>1, <3>2, MaxFacts
      <4>2. g[t] = G[<<X!Max(t), g[t \ {X!Max(t)}]>>]  BY <2>2, <3>2 DEF Folds
      <4> QED BY <3>2, <4>1, <4>2
    <3> QED BY <3>1, <3>2
  <2>4. Missed(missed)  BY <2>3
  <2> HIDE DEF missed
  <2>5. Follows(missed, m, Seq(Nat), <<>>, G)
    <3>1. missed[{}] = <<>>  BY <2>4
    <3>2. ASSUME NEW i \in 1..m, missed[1..(i - 1)] \in Seq(Nat) PROVE missed[1..i] = G[<<i, missed[1..(i - 1)]>>]
      <4>1. i \in Nat /\ i > 0 /\ 1..i \in SUBSET (1..m)  BY <1>1
      <4>2. 1..i # {} /\ X!Max(1..i) = i /\ (1..i) \ {i} = 1..(i - 1)  BY <4>1, UpTo
      <4>3. missed[1..i] = IF known(missed[1..(i - 1)], fallback[i]) THEN missed[1..(i - 1)]
                           ELSE Append(missed[1..(i - 1)], fallback[i])
        BY <2>4, <4>1, <4>2
      <4> QED BY <3>2, <4>3
    <3> HIDE DEF G
    <3> QED BY <3>1, <3>2 DEF Follows
  <2> HIDE DEF G
  <2> QED BY <1>1, <1>4, <2>1, <2>5, FoldStays
<1> HIDE DEF told, missed
<1> QED BY <1>2, <1>5, <1>6
-----------------------------------------------------------------------------
(* ModelContext: what a cut leaves. *)

Fitting(kind, lines) == {n \in 1..Len(lines) : X!sum(PartOf(kind, lines, n)) <= Budget}

\* What is kept of lines, when every count succeeded or not.
Right(kind, lines, kept, sure) ==
  /\ kept # lines \/ (sure /\ kind = "prefix") => X!sum(kept) <= Budget
  /\ sure /\ Fitting(kind, lines) # {} => kept = PartOf(kind, lines, Max(Fitting(kind, lines)))

LEMMA FittingFacts ==
  ASSUME NEW kind, NEW lines \in Seq(Nat), Fitting(kind, lines) # {}
  PROVE  /\ Max(Fitting(kind, lines)) \in Fitting(kind, lines) /\ Max(Fitting(kind, lines)) \in 1..Len(lines)
         /\ \A n \in Fitting(kind, lines) : n <= Max(Fitting(kind, lines))
<1>1. Fitting(kind, lines) \in SUBSET (1..Len(lines)) /\ Len(lines) \in Nat  BY DEF Fitting
<1>2. /\ X!Max(Fitting(kind, lines)) \in Fitting(kind, lines)
      /\ \A n \in Fitting(kind, lines) : n <= X!Max(Fitting(kind, lines))
      /\ Max(Fitting(kind, lines)) = X!Max(Fitting(kind, lines))
  BY <1>1, MaxFacts
<1> QED BY <1>1, <1>2

\* (observations.ts:11, :35) The whole, when it fits or could not be counted.
LEMMA WholeIsRight ==
  ASSUME NEW kind \in {"prefix", "tail"}, NEW lines \in Seq(Nat), NEW sure \in BOOLEAN, ~sure \/ X!sum(lines) <= Budget,
         Budget \in Nat
  PROVE  Right(kind, lines, lines, sure)
<1> DEFINE l == Len(lines)
<1>1. l \in Nat /\ l \in 0..Len(lines)  OBVIOUS
<1>2. PartOf(kind, lines, l) = lines  BY <1>1, PartFacts
<1>3. X!sum(PartOf(kind, lines, l)) \in Nat  BY <1>1, PartsGrow
<1>4. CASE ~sure  BY <1>4 DEF Right
<1>5. CASE sure
  <2>1. X!sum(lines) <= Budget /\ ~(X!sum(lines) > Budget)  BY <1>2, <1>3, <1>5
  <2>2. ASSUME Fitting(kind, lines) # {} PROVE lines = PartOf(kind, lines, Max(Fitting(kind, lines)))
    <3>1. Max(Fitting(kind, lines)) \in 1..l /\ \A n \in Fitting(kind, lines) : n <= Max(Fitting(kind, lines))
      BY <2>2, FittingFacts
    <3>2. l \in 1..l  BY <1>1, <3>1
    <3>3. l \in Fitting(kind, lines)  BY <1>2, <2>1, <3>2 DEF Fitting
    <3>4. Max(Fitting(kind, lines)) = l  BY <1>1, <3>1, <3>3
    <3> QED BY <1>2, <3>4
  <2> QED BY <2>1, <2>2 DEF Right
<1> QED BY <1>4, <1>5

\* (observations.ts:20, :44) Where the search ends.
LEMMA FoundIsRight ==
  ASSUME Budget \in Nat, NEW kind \in {"prefix", "tail"}, NEW lines \in Seq(Nat), NEW sure \in BOOLEAN, NEW low \in 0..Len(lines),
         low > 0 => X!sum(PartOf(kind, lines, low)) <= Budget,
         sure /\ low < Len(lines) => X!sum(PartOf(kind, lines, low + 1)) > Budget
  PROVE  Right(kind, lines, IF kind = "tail" /\ low = 0 THEN lines ELSE PartOf(kind, lines, low), sure)
<1> DEFINE l == Len(lines)
           cost(n) == X!sum(PartOf(kind, lines, n))
           kept == IF kind = "tail" /\ low = 0 THEN lines ELSE PartOf(kind, lines, low)
<1>1. l \in Nat /\ low \in Nat /\ low <= l /\ Budget \in Nat  OBVIOUS
<1>2. ASSUME NEW m \in 0..l, NEW n \in 0..l, m <= n PROVE cost(m) <= cost(n) /\ cost(m) \in Nat /\ cost(n) \in Nat
  BY <1>2, PartsGrow
<1>3. ASSUME NEW n \in Fitting(kind, lines), sure PROVE n <= low
  <2> SUFFICES ASSUME ~(n <= low) PROVE FALSE
    OBVIOUS
  <2>1. n \in 1..l /\ cost(n) <= Budget  BY DEF Fitting
  <2>2. low < l /\ low + 1 \in 0..l /\ n \in 0..l /\ low + 1 <= n  BY <1>1, <2>1
  <2>3. cost(low + 1) > Budget  BY <1>3, <2>2
  <2>4. cost(low + 1) <= cost(n) /\ cost(low + 1) \in Nat /\ cost(n) \in Nat  BY <1>2, <2>2
  <2> HIDE DEF cost
  <2> QED BY <1>1, <2>1, <2>3, <2>4
<1>4. ASSUME kept # lines \/ (sure /\ kind = "prefix") PROVE X!sum(kept) <= Budget
  <2>1. CASE low > 0
    BY <2>1
  <2>2. CASE low = 0
    <3>1. kind # "tail" /\ kept = PartOf(kind, lines, 0)  BY <1>4, <2>2
    <3>2. X!sum(PartOf(kind, lines, 0)) = 0
      <4>1. 0 \in 0..Len(lines) /\ 0 <= 0  BY <1>1
      <4> QED BY <4>1, PartsGrow
    <3> HIDE DEF kept
    <3> QED BY <1>1, <3>1, <3>2
  <2> QED BY <1>1, <2>1, <2>2
<1>5. ASSUME sure, Fitting(kind, lines) # {} PROVE kept = PartOf(kind, lines, Max(Fitting(kind, lines)))
  <2> DEFINE top == Max(Fitting(kind, lines))
  <2>1. top \in Fitting(kind, lines) /\ top \in 1..l /\ \A n \in Fitting(kind, lines) : n <= top
    BY <1>5, FittingFacts
  <2> HIDE DEF top
  <2>2. top <= low  BY <1>3, <1>5, <2>1
  <2>3. low > 0 /\ low \in 1..l  BY <1>1, <2>1, <2>2
  <2>4. low \in Fitting(kind, lines)  BY <2>3 DEF Fitting
  <2>5. top = low  BY <1>1, <2>1, <2>2, <2>4
  <2> QED BY <2>3, <2>5 DEF top
<1> QED BY <1>4, <1>5 DEF Right

\* (service.ts:127) The sections chosen come to a count of tokens.
LEMMA ChosenTyped ==
  ASSUME work.file \in [front : Nat, sections : Seq([tokens : Nat, heading : BOOLEAN])], NEW set
  PROVE  X!Chosen(set) \in Seq(Nat)
<1> DEFINE sections == work.file.sections
           n == Len(sections)
           start == <<work.file.front>>
           order == [i \in DOMAIN sections |-> i]
           Lines(g) == g = [t \in SUBSET (1..n) |-> IF t = {} THEN start
                              ELSE IF order[X!Max(t)] \in set
                                   THEN Append(g[t \ {X!Max(t)}], sections[order[X!Max(t)]].tokens)
                                   ELSE g[t \ {X!Max(t)}]]
           lines == CHOOSE g : Lines(g)
           F == [p \in (1..n) \X Seq(Nat) |-> IF p[1] \in set THEN Append(p[2], sections[p[1]].tokens) ELSE p[2]]
<1> DEFINE Section == [tokens : Nat, heading : BOOLEAN]
<1>0. work.file.front \in Nat /\ sections \in Seq(Section)  OBVIOUS
<1> HIDE DEF Section
<1>1. n \in Nat /\ DOMAIN sections = 1..n /\ DOMAIN order = 1..n  BY <1>0
<1>2. X!Chosen(set) = lines[1..n]
  BY <1>1 DEF X!Chosen, X!FoldLeftDomain, X!FoldLeft, X!MapThenFoldSet
<1>3. ASSUME NEW i \in 1..n PROVE order[i] = i /\ sections[i].tokens \in Nat
  <2> DEFINE e == sections[i]
  <2>1. e \in Section  BY <1>0, <1>3
  <2> HIDE DEF e
  <2>2. e.tokens \in Nat  BY <2>1 DEF Section
  <2>3. order[i] = i  BY <1>1
  <2> QED BY <2>2, <2>3 DEF e
<1>4. start \in Seq(Nat)  BY <1>0
<1> HIDE DEF n, start, order, sections
<1>5. F \in [(1..n) \X Seq(Nat) -> Seq(Nat)]  BY <1>3
<1>6. PICK g \in [SUBSET (1..n) -> Seq(Nat)] : Folds(g, n, start, F)
  BY <1>1, <1>4, <1>5, FoldExists DEF Foldable
<1>7. Lines(g)
  <2> SUFFICES ASSUME NEW t \in SUBSET (1..n)
               PROVE  g[t] = IF t = {} THEN start
                             ELSE IF order[X!Max(t)] \in set
                                  THEN Append(g[t \ {X!Max(t)}], sections[order[X!Max(t)]].tokens)
                                  ELSE g[t \ {X!Max(t)}]
    OBVIOUS
  <2>1. CASE t = {}  BY <1>6, <2>1 DEF Folds
  <2>2. CASE t # {}
    <3>1. X!Max(t) \in 1..n /\ g[t \ {X!Max(t)}] \in Seq(Nat)  BY <1>1, <2>2, MaxFacts
    <3>2. g[t] = F[<<X!Max(t), g[t \ {X!Max(t)}]>>]  BY <1>6, <2>2 DEF Folds
    <3>3. order[X!Max(t)] = X!Max(t)  BY <1>3, <3>1
    <3> QED BY <2>2, <3>1, <3>2, <3>3
  <2> QED BY <2>1, <2>2
<1>8. Lines(lines)  BY <1>7
<1> HIDE DEF lines
<1>9. Follows(lines, n, Seq(Nat), start, F)
  <2>1. lines[{}] = start  BY <1>8
  <2>2. ASSUME NEW i \in 1..n, lines[1..(i - 1)] \in Seq(Nat) PROVE lines[1..i] = F[<<i, lines[1..(i - 1)]>>]
    <3>1. i \in Nat /\ i > 0 /\ 1..i \in SUBSET (1..n)  BY <1>1
    <3>2. 1..i # {} /\ X!Max(1..i) = i /\ (1..i) \ {i} = 1..(i - 1)  BY <3>1, UpTo
    <3>3. order[i] = i  BY <1>3
    <3>4. lines[1..i] = IF i \in set THEN Append(lines[1..(i - 1)], sections[i].tokens) ELSE lines[1..(i - 1)]
      <4>1. lines[1..i] = IF order[i] \in set THEN Append(lines[1..(i - 1)], sections[order[i]].tokens)
                          ELSE lines[1..(i - 1)]
        BY <1>8, <3>1, <3>2
      <4> QED BY <3>3, <4>1
    <3> QED BY <2>2, <3>4
  <2> HIDE DEF F
  <2> QED BY <2>1, <2>2 DEF Follows
<1> HIDE DEF F
<1>10. lines[1..n] \in Seq(Nat)  BY <1>1, <1>4, <1>5, <1>9, FoldStays
<1> QED BY <1>2, <1>10

-----------------------------------------------------------------------------
(* ModelContext: the inductive invariant. *)

\* What is being cut, with its fields.
WorkTyped ==
  \/ work = X!Idle
  \/ /\ work.step \in {"total", "search", "sections"} /\ work.kind \in {"prefix", "tail", "memory"}
     /\ {"step", "kind", "lines", "low", "high", "sure"} \subseteq DOMAIN work
     /\ work.lines \in Seq(Nat) /\ work.sure \in BOOLEAN
     /\ work.low \in 0..Len(work.lines) /\ work.high \in 0..Len(work.lines) /\ work.low <= work.high
     /\ work.step = "total" => work.low = 0 /\ work.high = Len(work.lines)
     /\ work.kind = "memory" => {"file", "ranked", "chosen", "best"} \subseteq DOMAIN work /\ work.file \in Files

\* The search goes on between a part that fits and the shortest known not to.
Searching ==
  work.step = "search" =>
      /\ work.low > 0 => X!sum(PartOf(work.kind, work.lines, work.low)) <= Budget
      /\ work.sure /\ work.high < Len(work.lines) => X!sum(PartOf(work.kind, work.lines, work.high + 1)) > Budget

\* The best of a memory file so far.
Choosing ==
  work.step = "sections" => work.kind = "memory" /\ (work.sure => X!sum(work.best) <= Budget)

\* What the last cut left; of a session, before and after.
Shaped(before, after) ==
  LET shaped == {i \in DOMAIN before : after[i] # before[i]}
      empty == {i \in X!oversized(before) : after[i].blocks[1] = 0}
      cleared == shaped \cap empty
      over(h) == X!toolResultChars(h, X!open(before)) > X!TOOL_RESULT_BUDGET
      without(i) == [j \in DOMAIN before |-> IF j \in cleared /\ j >= i THEN before[j] ELSE after[j]]
  IN  /\ \A i \in shaped : Cardinality({j \in X!assistants(before) : j > i}) >= 3
      /\ over(after) => empty = X!oversized(before)
      /\ \A i \in cleared :
            /\ {j \in X!oversized(before) : j < i} \subseteq empty
            /\ over(without(i))

CutRight ==
  /\ cut.kind \in {"prefix", "tail"} => Right(cut.kind, cut.lines, cut.kept, cut.sure)
  /\ cut.kind = "memory" /\ cut.sure => X!sum(cut.kept) <= Budget
  /\ cut.kind = "history" => Shaped(cut.before, cut.after)

XInv == WorkTyped /\ Searching /\ Choosing /\ CutRight

LEMMA InitXInv == Init => XInv
<1> SUFFICES ASSUME Init PROVE XInv  OBVIOUS
<1>1. work = X!Idle /\ cut = X!None  BY DEF Init, X!Init
<1>2. work.step = "idle" /\ cut.kind = "none"  BY <1>1 DEF X!Idle, X!None
<1> QED BY <1>1, <1>2 DEF XInv, WorkTyped, Searching, Choosing, CutRight

\* (observations.ts:10, :34) A text or the end of one.
LEMMA BeginXInv ==
  ASSUME XInv, NEW kind \in {"prefix", "tail"}, NEW lines \in Seq(Nat), X!Begin(kind, lines)
  PROVE  XInv'
<1>1. /\ work' = [step |-> "total", kind |-> kind, lines |-> lines, low |-> 0, high |-> Len(lines), sure |-> TRUE]
      /\ cut' = cut
  BY DEF X!Begin
<1>2. Len(lines) \in Nat  OBVIOUS
<1>3. WorkTyped'  BY <1>1, <1>2 DEF WorkTyped
<1>4. CutRight'  BY <1>1 DEF XInv, CutRight
<1>5. Searching' /\ Choosing'  BY <1>1 DEF Searching, Choosing
<1> QED BY <1>3, <1>4, <1>5 DEF XInv

\* The end of a text is one.
LEMMA LastTyped ==
  ASSUME NEW s \in Seq(Nat), NEW n \in Nat
  PROVE  X!last(s, n) \in Seq(Nat)
<1>1. CASE n >= Len(s)  BY <1>1 DEF X!last
<1>2. CASE ~(n >= Len(s))
  <2>1. n \in 0..Len(s)  BY <1>2
  <2>2. PartOf("tail", s, n) \in Seq(Nat)  BY <2>1, PartFacts
  <2> QED BY <2>2 DEF PartOf
<1> QED BY <1>1, <1>2

\* (service.ts:380, session-log.ts:196) Texts, scenes and timelines.
LEMMA TextsXInv ==
  ASSUME XInv, \/ \E text \in Texts : X!trimIndex(text) \/ X!takeTailLinesWithinBudget(text)
               \/ \E entry \in Logs : X!takeTailTurnsWithinBudget(entry)
  PROVE  XInv'
<1>1. ASSUME NEW text \in Texts, X!trimIndex(text) PROVE XInv'
  <2>1. text \in Seq(Nat)  BY ContextAssumption
  <2> QED BY <1>1, <2>1, BeginXInv DEF X!trimIndex
<1>2. ASSUME NEW text \in Texts, X!takeTailLinesWithinBudget(text) PROVE XInv'
  <2>1. text \in Seq(Nat) /\ MaxEvents \in Nat  BY ContextAssumption
  <2>2. X!last(text, MaxEvents) \in Seq(Nat)  BY <2>1, LastTyped
  <2> QED BY <1>2, <2>2, BeginXInv DEF X!takeTailLinesWithinBudget
<1>3. ASSUME NEW entry \in Logs, X!takeTailTurnsWithinBudget(entry) PROVE XInv'
  <2>1. entry \in [log : Seq([type : STRING, tokens : Nat]), fallback : Seq(Nat)] /\ MaxEvents \in Nat
    BY ContextAssumption
  <2>2. entry.log \in Seq([type : STRING, tokens : Nat]) /\ entry.fallback \in Seq(Nat)  BY <2>1
  <2>3. X!buildFormationTimeline(entry.log, entry.fallback) \in Seq(Nat)  BY <2>2, TimelineTyped
  <2>4. X!last(X!buildFormationTimeline(entry.log, entry.fallback), MaxEvents) \in Seq(Nat)  BY <2>1, <2>3, LastTyped
  <2> QED BY <1>3, <2>4, BeginXInv DEF X!takeTailTurnsWithinBudget
<1> QED BY <1>1, <1>2, <1>3

\* A cut that ends: what was being cut is done with.
LEMMA EndsXInv ==
  ASSUME work' = X!Idle, CutRight'
  PROVE  XInv'
<1>1. work'.step = "idle"  BY DEF X!Idle
<1> QED BY <1>1 DEF XInv, WorkTyped, Searching, Choosing

\* (observations.ts:11, :35) The whole is counted.
LEMMA TotalXInv ==
  ASSUME XInv, NEW available \in BOOLEAN, X!countTotal(available)
  PROVE  XInv'
<1> DEFINE lines == work.lines
<1>1. work.step = "total" /\ work.kind # "memory"  BY DEF X!countTotal
<1>2. /\ WorkTyped /\ work.kind \in {"prefix", "tail"} /\ lines \in Seq(Nat)
      /\ {"step", "kind", "lines", "low", "high", "sure"} \subseteq DOMAIN work
      /\ work.low = 0 /\ work.high = Len(lines)
  BY <1>1 DEF XInv, WorkTyped, X!Idle
<1>3. Budget \in Nat /\ X!sum(lines) \in Nat
  <2>1. Budget \in Nat  BY ContextAssumption
  <2>2. PICK f : Counts(f, lines)  BY <1>2, SumCounts
  <2> QED BY <1>2, <2>1, <2>2, SumIs
<1>4. CASE ~available \/ X!sum(lines) <= Budget
  <2>1. work' = X!Idle /\ cut' = [kind |-> work.kind, lines |-> lines, kept |-> lines, sure |-> available]
    BY <1>4 DEF X!countTotal, X!Ends
  <2>2. Right(work.kind, lines, lines, available)  BY <1>2, <1>3, <1>4, WholeIsRight
  <2>3. CutRight'  BY <1>2, <2>1, <2>2 DEF CutRight
  <2> QED BY <2>1, <2>3, EndsXInv
<1>5. CASE ~(~available \/ X!sum(lines) <= Budget)
  <2>1. work' = [work EXCEPT !.step = "search"] /\ cut' = cut  BY <1>5 DEF X!countTotal
  <2>2. /\ work'.step = "search" /\ work'.kind = work.kind /\ work'.lines = lines /\ work'.low = work.low
        /\ work'.high = work.high /\ work'.sure = work.sure /\ DOMAIN work' = DOMAIN work
    BY <1>2, <2>1
  <2>3. WorkTyped'  BY <1>1, <1>2, <2>2 DEF WorkTyped, X!Idle
  <2>4. Searching'
    <3>1. ~(work'.low > 0) /\ ~(work'.high < Len(work'.lines))  BY <1>2, <2>2
    <3> QED BY <3>1 DEF Searching
  <2>5. Choosing'  BY <2>2 DEF Choosing
  <2>6. CutRight'  BY <2>1 DEF XInv, CutRight
  <2> QED BY <2>3, <2>4, <2>5, <2>6 DEF XInv
<1> QED BY <1>4, <1>5

LEMMA Halves ==
  ASSUME NEW low \in Nat, NEW high \in Nat, low < high
  PROVE  (low + high + 1) \div 2 \in Nat /\ low < (low + high + 1) \div 2 /\ (low + high + 1) \div 2 <= high
OBVIOUS

\* (observations.ts:20) A part between the two is counted.
LEMMA CandidateXInv ==
  ASSUME XInv, NEW available \in BOOLEAN, X!countCandidate(available)
  PROVE  XInv'
<1> DEFINE lines == work.lines
           l == Len(lines)
           part1 == PartOf(work.kind, lines, X!mid)
           fits == available /\ X!sum(part1) <= Budget
<1>1. work.step = "search" /\ work.low < work.high /\ cut' = cut  BY DEF X!countCandidate
<1>2. /\ WorkTyped /\ Searching /\ work.kind \in {"prefix", "tail", "memory"} /\ lines \in Seq(Nat) /\ work.sure \in BOOLEAN
      /\ {"step", "kind", "lines", "low", "high", "sure"} \subseteq DOMAIN work
      /\ work.low \in 0..l /\ work.high \in 0..l
      /\ work.kind = "memory" => {"file", "ranked", "chosen", "best"} \subseteq DOMAIN work /\ work.file \in Files
  BY <1>1 DEF XInv, WorkTyped, X!Idle
<1>3. X!mid \in Nat /\ work.low < X!mid /\ X!mid <= work.high
  <2>1. work.low \in Nat /\ work.high \in Nat  BY <1>2
  <2> QED BY <1>1, <2>1, Halves DEF X!mid
<1>4. X!mid \in 0..l /\ X!mid - 1 \in 0..l /\ work.low <= X!mid - 1 /\ X!mid <= work.high /\ (X!mid - 1) + 1 = X!mid
      /\ l \in Nat
  <2>1. l \in Nat /\ work.low \in Nat /\ work.high \in Nat /\ work.high <= l  BY <1>2
  <2> HIDE DEF l
  <2> QED BY <1>3, <2>1
<1>5. X!Candidate = part1
  BY DEF X!Candidate, PartOf
<1>6. X!sum(part1) \in Nat /\ Budget \in Nat
  <2>1. X!sum(part1) \in Nat  BY <1>2, <1>4, PartsGrow
  <2> QED BY <2>1, ContextAssumption
<1>7. /\ fits => work' = [work EXCEPT !.low = X!mid, !.sure = @ /\ available]
      /\ ~fits => work' = [work EXCEPT !.high = X!mid - 1, !.sure = @ /\ available]
  BY <1>5 DEF X!countCandidate
<1> HIDE DEF part1
<1>8. /\ work'.step = "search" /\ work'.kind = work.kind /\ work'.lines = lines
      /\ DOMAIN work' = DOMAIN work /\ (work'.sure <=> work.sure /\ available) /\ work'.sure \in BOOLEAN
      /\ work'.low = (IF fits THEN X!mid ELSE work.low) /\ work'.high = (IF fits THEN work.high ELSE X!mid - 1)
      /\ work.kind = "memory" => work'.file = work.file
  <2> HIDE DEF lines
  <2>1. CASE fits
    <3>1. work' = [work EXCEPT !.low = X!mid, !.sure = @ /\ available]  BY <1>7, <2>1
    <3> QED BY <1>1, <1>2, <2>1, <3>1 DEF lines
  <2>2. CASE ~fits
    <3>1. work' = [work EXCEPT !.high = X!mid - 1, !.sure = @ /\ available]  BY <1>7, <2>2
    <3> QED BY <1>1, <1>2, <2>2, <3>1 DEF lines
  <2> QED BY <2>1, <2>2
<1>9. WorkTyped'
  <2>1. work'.low \in 0..l /\ work'.high \in 0..l /\ work'.low <= work'.high
    <3>1. CASE fits  BY <1>2, <1>4, <1>8, <3>1
    <3>2. CASE ~fits  BY <1>2, <1>4, <1>8, <3>2
    <3> QED BY <3>1, <3>2
  <2> HIDE DEF fits
  <2> QED BY <1>2, <1>8, <2>1 DEF WorkTyped, X!Idle
<1>10. Searching'
  <2>1. CASE fits
    <3>1. work'.low = X!mid /\ X!sum(PartOf(work'.kind, work'.lines, work'.low)) <= Budget
      BY <1>8, <2>1 DEF part1
    <3>2. work'.high = work.high /\ (work'.sure => work.sure)  BY <1>8, <2>1
    <3>3. work.sure /\ work.high < l => X!sum(PartOf(work.kind, lines, work.high + 1)) > Budget  BY <1>1, <1>2 DEF Searching
    <3> QED BY <1>8, <3>1, <3>2, <3>3 DEF Searching
  <2>2. CASE ~fits
    <3>1. work'.low = work.low /\ work'.high = X!mid - 1  BY <1>8, <2>2
    <3>2. work.low > 0 => X!sum(PartOf(work.kind, lines, work.low)) <= Budget  BY <1>1, <1>2 DEF Searching
    <3>3. work'.sure => X!sum(part1) > Budget  BY <1>6, <1>8, <2>2
    <3>4. work'.sure => X!sum(PartOf(work'.kind, work'.lines, work'.high + 1)) > Budget
      BY <1>4, <1>8, <3>1, <3>3 DEF part1
    <3> QED BY <1>8, <3>1, <3>2, <3>4 DEF Searching
  <2> QED BY <2>1, <2>2
<1>11. Choosing'  BY <1>8 DEF Choosing
<1>12. CutRight'  BY <1>1 DEF XInv, CutRight
<1> QED BY <1>9, <1>10, <1>11, <1>12 DEF XInv

\* (session-log.ts:213, service.ts:123) The search ends.
LEMMA FoundXInv ==
  ASSUME XInv, X!Found
  PROVE  XInv'
<1> DEFINE lines == work.lines
           l == Len(lines)
<1>1. work.step = "search" /\ work.low = work.high  BY DEF X!Found
<1>2. /\ work.kind \in {"prefix", "tail", "memory"} /\ lines \in Seq(Nat) /\ work.sure \in BOOLEAN
      /\ {"step", "kind", "lines", "low", "high", "sure"} \subseteq DOMAIN work
      /\ work.low \in 0..l /\ work.high \in 0..l
      /\ work.kind = "memory" => {"file", "ranked", "chosen", "best"} \subseteq DOMAIN work /\ work.file \in Files
      /\ work.low > 0 => X!sum(PartOf(work.kind, lines, work.low)) <= Budget
      /\ work.sure /\ work.low < l => X!sum(PartOf(work.kind, lines, work.low + 1)) > Budget
  BY <1>1 DEF XInv, WorkTyped, X!Idle, Searching
<1>3. Budget \in Nat  BY ContextAssumption
<1>4. CASE work.kind = "memory"
  <2> DEFINE best == SubSeq(lines, 1, work.low)
  <2>1. work' = [work EXCEPT !.step = "sections", !.best = best] /\ cut' = cut  BY <1>4 DEF X!Found
  <2>2. best = PartOf(work.kind, lines, work.low)  BY <1>4 DEF PartOf
  <2>3. X!sum(best) <= Budget
    <3>1. CASE work.low > 0  BY <1>2, <2>2, <3>1
    <3>2. CASE ~(work.low > 0)
      <4>1. work.low = 0 /\ 0 \in 0..Len(lines) /\ 0 <= 0 /\ lines \in Seq(Nat)  BY <1>2, <3>2
      <4> HIDE DEF best, lines
      <4>3. X!sum(PartOf(work.kind, lines, 0)) = 0  BY <4>1, PartsGrow
      <4>2. X!sum(best) = 0  BY <2>2, <4>1, <4>3
      <4> QED BY <1>3, <4>2
    <3> QED BY <3>1, <3>2
  <2> HIDE DEF best
  <2>4. /\ work'.step = "sections" /\ work'.kind = "memory" /\ work'.lines = lines /\ work'.low = work.low
        /\ work'.high = work.high /\ work'.sure = work.sure /\ DOMAIN work' = DOMAIN work /\ work'.file = work.file
        /\ work'.best = best
    BY <1>2, <1>4, <2>1
  <2>5. WorkTyped'
    <3>1. work'.low <= work'.high  BY <1>1, <1>2, <2>4
    <3> QED BY <1>2, <1>4, <2>4, <3>1 DEF WorkTyped, X!Idle
  <2>6. Choosing' /\ Searching'  BY <2>3, <2>4 DEF Choosing, Searching
  <2>7. CutRight'  BY <2>1 DEF XInv, CutRight
  <2> QED BY <2>5, <2>6, <2>7 DEF XInv
<1>5. CASE work.kind # "memory"
  <2> DEFINE kept == IF work.kind = "tail" /\ work.low = 0 THEN lines ELSE PartOf(work.kind, lines, work.low)
  <2>1. X!Kept(work.low) = kept  BY <1>2, <1>5 DEF X!Kept, PartOf
  <2>2. work' = X!Idle /\ cut' = [kind |-> work.kind, lines |-> lines, kept |-> kept, sure |-> work.sure]
    BY <1>5, <2>1 DEF X!Found, X!Ends
  <2>3. Right(work.kind, lines, kept, work.sure)  BY <1>2, <1>3, <1>5, FoundIsRight
  <2> HIDE DEF kept
  <2>4. CutRight'  BY <1>2, <1>5, <2>2, <2>3 DEF CutRight
  <2> QED BY <2>2, <2>4, EndsXInv
<1> QED BY <1>4, <1>5

\* (service.ts:98) A memory file.
LEMMA BeginMemoryXInv ==
  ASSUME XInv, NEW mem \in Files, X!BeginMemory(mem)
  PROVE  XInv'
<1> DEFINE lines == X!rawMarkdown(mem)
           rank == X!ranked(mem)
<1>1. lines \in Seq(Nat)
  <2>1. mem \in [front : Nat, sections : Seq([tokens : Nat, heading : BOOLEAN])]  BY ContextAssumption
  <2> DEFINE Section == [tokens : Nat, heading : BOOLEAN]
             sections == mem.sections
             counts == [i \in DOMAIN sections |-> sections[i].tokens]
  <2>2. sections \in Seq(Section) /\ <<mem.front>> \in Seq(Nat)  BY <2>1
  <2> HIDE DEF Section, sections
  <2>3. ASSUME NEW i \in 1..Len(sections) PROVE sections[i].tokens \in Nat
    <3> DEFINE e == sections[i]
    <3>1. e \in Section  BY <2>2, <2>3
    <3> HIDE DEF e
    <3>2. e.tokens \in Nat  BY <3>1 DEF Section
    <3> QED BY <3>2 DEF e
  <2>4. counts \in Seq(Nat)
    <3>1. DOMAIN sections = 1..Len(sections) /\ Len(sections) \in Nat  BY <2>2
    <3> QED BY <2>3, <3>1
  <2>5. lines = <<mem.front>> \o counts  BY DEF X!rawMarkdown, sections
  <2> HIDE DEF counts
  <2> QED BY <2>2, <2>4, <2>5
<1> HIDE DEF lines, rank
<1>2. /\ work' = [step |-> "total", kind |-> "memory", lines |-> lines, low |-> 0, high |-> Len(lines), sure |-> TRUE,
                  file |-> mem, ranked |-> rank, chosen |-> {}, best |-> <<>>]
      /\ cut' = cut
  BY DEF X!BeginMemory, lines, rank
<1>3. Len(lines) \in Nat  BY <1>1
<1>4. WorkTyped'  BY <1>1, <1>2, <1>3 DEF WorkTyped
<1>5. CutRight'  BY <1>2 DEF XInv, CutRight
<1>6. Searching' /\ Choosing'  BY <1>2 DEF Searching, Choosing
<1> QED BY <1>4, <1>5, <1>6 DEF XInv

\* (service.ts:106, :123) The whole file is counted, and its prefixes when it is too long.
LEMMA MemoryXInv ==
  ASSUME XInv, NEW available \in BOOLEAN, NEW again \in BOOLEAN, X!countMemory(available, again)
  PROVE  XInv'
<1> DEFINE lines == work.lines
<1>1. work.step = "total" /\ work.kind = "memory"  BY DEF X!countMemory
<1>2. /\ work.kind = "memory" /\ lines \in Seq(Nat)
      /\ {"step", "kind", "lines", "low", "high", "sure"} \subseteq DOMAIN work
      /\ {"file", "ranked", "chosen", "best"} \subseteq DOMAIN work /\ work.file \in Files
      /\ work.low = 0 /\ work.high = Len(lines) /\ Len(lines) \in Nat
  <2>1. lines \in Seq(Nat)  BY <1>1 DEF XInv, WorkTyped, X!Idle
  <2> QED BY <1>1, <2>1 DEF XInv, WorkTyped, X!Idle
<1>3. CASE available /\ X!sum(lines) <= Budget
  <2>1. work' = X!Idle /\ cut' = [kind |-> "memory", lines |-> lines, kept |-> lines, sure |-> TRUE]
    BY <1>1, <1>3 DEF X!countMemory, X!Ends
  <2>2. CutRight'  BY <1>3, <2>1 DEF CutRight
  <2> QED BY <2>1, <2>2, EndsXInv
<1>4. CASE ~(available /\ X!sum(lines) <= Budget)
  <2>1. cut' = cut
    BY <1>4 DEF X!countMemory
  <2>2. \/ work' = [work EXCEPT !.step = "search", !.sure = available]
        \/ work' = [work EXCEPT !.step = "sections", !.sure = FALSE, !.best = work.lines]
    BY <1>4 DEF X!countMemory
  <2>3. /\ work'.kind = "memory" /\ work'.lines = lines /\ work'.low = work.low /\ work'.high = work.high
        /\ DOMAIN work' = DOMAIN work /\ work'.file = work.file
        /\ work'.step = "search" \/ (work'.step = "sections" /\ work'.sure = FALSE)
        /\ work'.sure \in BOOLEAN
    <3> HIDE DEF lines
    <3>1. CASE work' = [work EXCEPT !.step = "search", !.sure = available]  BY <1>2, <3>1 DEF lines
    <3>2. CASE work' = [work EXCEPT !.step = "sections", !.sure = FALSE, !.best = work.lines]  BY <1>2, <3>2 DEF lines
    <3> QED BY <2>2, <3>1, <3>2
  <2>4. WorkTyped'
    <3>1. work'.low \in 0..Len(lines) /\ work'.high \in 0..Len(lines) /\ work'.low <= work'.high  BY <1>2, <2>3
    <3>2. work'.step \in {"search", "sections"}  BY <2>3
    <3> QED BY <1>2, <2>3, <3>1, <3>2 DEF WorkTyped
  <2>5. Searching'
    <3>1. ~(work'.low > 0) /\ ~(work'.high < Len(work'.lines))  BY <1>2, <2>3
    <3> QED BY <3>1 DEF Searching
  <2>6. Choosing'  BY <2>3 DEF Choosing
  <2>7. CutRight'  BY <2>1 DEF XInv, CutRight
  <2> QED BY <2>4, <2>5, <2>6, <2>7 DEF XInv
<1> QED BY <1>3, <1>4

\* (service.ts:125) One more section is tried.
LEMMA SectionsXInv ==
  ASSUME XInv, NEW available \in BOOLEAN, X!countSections(available)
  PROVE  XInv'
<1> DEFINE lines == work.lines
           with == work.chosen \cup {Head(work.ranked)}
           text == X!Chosen(with)
           rest == [work EXCEPT !.ranked = Tail(@), !.sure = @ /\ available]
<1>1. work.step = "sections" /\ cut' = cut  BY DEF X!countSections
<1>2. /\ work.kind = "memory" /\ lines \in Seq(Nat) /\ work.sure \in BOOLEAN /\ (work.sure => X!sum(work.best) <= Budget)
      /\ {"step", "kind", "lines", "low", "high", "sure"} \subseteq DOMAIN work
      /\ {"file", "ranked", "chosen", "best"} \subseteq DOMAIN work /\ work.file \in Files
      /\ work.low \in 0..Len(lines) /\ work.high \in 0..Len(lines) /\ work.low <= work.high
  BY <1>1 DEF XInv, WorkTyped, Choosing, X!Idle
<1>3. Budget \in Nat /\ X!sum(text) \in Nat
  <2>1. work.file \in [front : Nat, sections : Seq([tokens : Nat, heading : BOOLEAN])]  BY <1>2, ContextAssumption
  <2>2. text \in Seq(Nat)  BY <2>1, ChosenTyped
  <2> HIDE DEF text
  <2>3. PICK f : Counts(f, text)  BY <2>2, SumCounts
  <2>4. X!sum(text) \in Nat  BY <2>2, <2>3, SumIs
  <2> QED BY <2>4, ContextAssumption
<1>4. work' = IF available /\ X!sum(text) > Budget THEN rest
              ELSE [rest EXCEPT !.chosen = with, !.best = text]
  BY DEF X!countSections
<1> HIDE DEF text, with
<1>5. /\ work'.step = "sections" /\ work'.kind = "memory" /\ work'.lines = lines /\ work'.low = work.low
      /\ work'.high = work.high /\ DOMAIN work' = DOMAIN work /\ work'.file = work.file
      /\ (work'.sure <=> work.sure /\ available) /\ work'.sure \in BOOLEAN
      /\ work'.best = IF available /\ X!sum(text) > Budget THEN work.best ELSE text
  <2>1. /\ rest.step = "sections" /\ rest.kind = "memory" /\ rest.lines = lines /\ rest.low = work.low
        /\ rest.high = work.high /\ DOMAIN rest = DOMAIN work /\ rest.file = work.file
        /\ (rest.sure <=> work.sure /\ available) /\ rest.sure \in BOOLEAN /\ rest.best = work.best
    BY <1>1, <1>2
  <2> HIDE DEF rest
  <2>2. CASE available /\ X!sum(text) > Budget  BY <1>4, <2>1, <2>2
  <2>3. CASE ~(available /\ X!sum(text) > Budget)
    <3>1. work' = [rest EXCEPT !.chosen = with, !.best = text]  BY <1>4, <2>3
    <3>2. {"step", "kind", "lines", "low", "high", "sure", "file", "chosen", "best"} \subseteq DOMAIN rest  BY <1>2, <2>1
    <3>3. /\ work'.step = rest.step /\ work'.kind = rest.kind /\ work'.lines = rest.lines /\ work'.low = rest.low
          /\ work'.high = rest.high /\ DOMAIN work' = DOMAIN rest /\ work'.file = rest.file
          /\ work'.sure = rest.sure /\ work'.best = text
      BY <3>1, <3>2
    <3> QED BY <2>1, <2>3, <3>3
  <2> QED BY <2>2, <2>3
<1>6. WorkTyped'  BY <1>2, <1>5 DEF WorkTyped
<1>7. Choosing' /\ Searching'
  <2>1. ASSUME work'.sure PROVE X!sum(work'.best) <= Budget
    <3>1. work.sure /\ available  BY <1>5, <2>1
    <3>2. CASE X!sum(text) > Budget
      <4>1. work'.best = work.best  BY <1>5, <3>1, <3>2
      <4> QED BY <1>2, <3>1, <4>1
    <3>3. CASE ~(X!sum(text) > Budget)
      <4>1. work'.best = text  BY <1>5, <3>3
      <4> QED BY <1>3, <3>3, <4>1
    <3> QED BY <3>2, <3>3
  <2> QED BY <1>5, <2>1 DEF Choosing, Searching
<1>8. CutRight'  BY <1>1 DEF XInv, CutRight
<1> QED BY <1>6, <1>7, <1>8 DEF XInv

\* (service.ts:143) The best of a memory file is handed on.
LEMMA BestXInv ==
  ASSUME XInv, X!prioritizeSelectedMemoryMarkdown
  PROVE  XInv'
<1>1. /\ work.step = "sections" /\ work' = X!Idle
      /\ cut' = [kind |-> work.kind, lines |-> work.lines, kept |-> work.best, sure |-> work.sure]
  BY DEF X!prioritizeSelectedMemoryMarkdown, X!Ends
<1>2. work.kind = "memory" /\ (work.sure => X!sum(work.best) <= Budget)  BY <1>1 DEF XInv, Choosing
<1>3. CutRight'  BY <1>1, <1>2 DEF CutRight
<1> QED BY <1>1, <1>3, EndsXInv
-----------------------------------------------------------------------------
(* ModelContext: tool results. *)

SessionMessage == [role : STRING, blocks : Seq(Nat)]

Smaller(b, c) ==
  b \in Seq(Nat) /\ c \in Seq(Nat) /\ Len(b) = Len(c) /\ \A k \in 1..Len(b) : b[k] <= c[k]

LEMMA SmallerSum == ASSUME NEW b, NEW c, Smaller(b, c) PROVE X!sum(b) <= X!sum(c) /\ X!sum(b) \in Nat /\ X!sum(c) \in Nat
BY SumPointwise DEF Smaller

LEMMA SmallerSame == ASSUME NEW b \in Seq(Nat) PROVE Smaller(b, b)
<1>1. \A k \in 1..Len(b) : b[k] \in Nat  OBVIOUS
<1> QED BY <1>1 DEF Smaller

LEMMA SmallerThen == ASSUME NEW b, NEW c, NEW d, Smaller(b, c), Smaller(c, d) PROVE Smaller(b, d)
<1>1. Len(b) = Len(d) /\ b \in Seq(Nat) /\ c \in Seq(Nat) /\ d \in Seq(Nat)  BY DEF Smaller
<1>2. ASSUME NEW k \in 1..Len(b) PROVE b[k] <= d[k]
  <2>1. b[k] \in Nat /\ c[k] \in Nat /\ d[k] \in Nat /\ b[k] <= c[k] /\ c[k] <= d[k]  BY DEF Smaller
  <2> QED BY <2>1
<1> QED BY <1>1, <1>2 DEF Smaller

LEMMA FirstCut ==
  ASSUME NEW m \in SessionMessage, Len(m.blocks) > 0, NEW v \in Nat, v <= m.blocks[1]
  PROVE  /\ [m EXCEPT !.blocks[1] = v] \in SessionMessage
         /\ [m EXCEPT !.blocks[1] = v].blocks[1] = v /\ Len([m EXCEPT !.blocks[1] = v].blocks) > 0
         /\ Smaller([m EXCEPT !.blocks[1] = v].blocks, m.blocks)
<1> DEFINE b == m.blocks
           c == [b EXCEPT ![1] = v]
           q == [m EXCEPT !.blocks[1] = v]
<1>1. b \in Seq(Nat) /\ DOMAIN b = 1..Len(b) /\ Len(b) \in Nat /\ 1 \in 1..Len(b)
  <2>1. b \in Seq(Nat)  BY DEF SessionMessage
  <2> QED BY <2>1
<1>2. q.blocks = c /\ q = [m EXCEPT !.blocks = c] /\ q.role = m.role  BY DEF SessionMessage
<1> HIDE DEF b
<1>3. c \in Seq(Nat) /\ Len(c) = Len(b) /\ c[1] = v /\ \A k \in 1..Len(b) : k # 1 => c[k] = b[k]
  <2>1. c \in [1..Len(b) -> Nat]  BY <1>1
  <2> QED BY <1>1, <2>1
<1>4. \A k \in 1..Len(b) : b[k] \in Nat  BY <1>1
<1>5. v <= b[1]  BY DEF b
<1> HIDE DEF c
<1>6. Smaller(c, b)
  <2>1. ASSUME NEW k \in 1..Len(c) PROVE c[k] <= b[k]
    <3>1. CASE k = 1  BY <1>3, <1>5, <3>1
    <3>2. CASE k # 1  BY <1>3, <1>4, <2>1, <3>2
    <3> QED BY <3>1, <3>2
  <2> QED BY <1>1, <1>3, <2>1 DEF Smaller
<1>7. q \in SessionMessage  BY <1>2, <1>3 DEF SessionMessage
<1> QED BY <1>1, <1>2, <1>3, <1>6, <1>7 DEF b

LEMMA CharsGrow ==
  ASSUME NEW n \in Nat, NEW P, NEW Q, DOMAIN P = 1..n, DOMAIN Q = 1..n, NEW set,
         \A i \in 1..n : i \in set => Smaller(P[i].blocks, Q[i].blocks)
  PROVE  /\ X!toolResultChars(P, set) <= X!toolResultChars(Q, set)
         /\ X!toolResultChars(P, set) \in Nat /\ X!toolResultChars(Q, set) \in Nat
<1> DEFINE p == [i \in 1..n |-> IF i \in set THEN X!sum(P[i].blocks) ELSE 0]
           q == [i \in 1..n |-> IF i \in set THEN X!sum(Q[i].blocks) ELSE 0]
<1>1. X!toolResultChars(P, set) = X!sum(p) /\ X!toolResultChars(Q, set) = X!sum(q)  BY DEF X!toolResultChars
<1>2. ASSUME NEW i \in 1..n PROVE p[i] \in Nat /\ q[i] \in Nat /\ p[i] <= q[i]
  <2>1. CASE i \in set
    <3>1. X!sum(P[i].blocks) <= X!sum(Q[i].blocks) /\ X!sum(P[i].blocks) \in Nat /\ X!sum(Q[i].blocks) \in Nat
      BY <2>1, SmallerSum
    <3> QED BY <2>1, <3>1
  <2>2. CASE i \notin set  BY <2>2
  <2> QED BY <2>1, <2>2
<1>3. p \in Seq(Nat) /\ q \in Seq(Nat) /\ Len(p) = n /\ Len(q) = n
  <2>1. DOMAIN p = 1..n /\ DOMAIN q = 1..n /\ p \in [1..n -> Nat] /\ q \in [1..n -> Nat]  BY <1>2
  <2> HIDE DEF p, q
  <2> QED BY <2>1
<1> HIDE DEF p, q
<1>4. X!sum(p) <= X!sum(q) /\ X!sum(p) \in Nat /\ X!sum(q) \in Nat  BY <1>2, <1>3, SumPointwise
<1> QED BY <1>1, <1>4

\* (session-hygiene.ts:64, :85) What trimming and clearing leave of each message.
Trimmed(h, n, big, trimmed, zero) ==
  /\ DOMAIN h = 1..n /\ DOMAIN trimmed = 1..n /\ big \subseteq X!open(h) /\ X!open(h) \subseteq 1..n
  /\ \A i \in 1..n : Smaller(trimmed[i].blocks, h[i].blocks) /\ (trimmed[i] = h[i] \/ (i \in big /\ trimmed[i].blocks[1] = 3))
  /\ \A i \in big : Smaller(zero[i].blocks, trimmed[i].blocks) /\ zero[i].blocks[1] = 0
  /\ \A i \in 1..n : Smaller(trimmed[i].blocks, trimmed[i].blocks)

LEMMA TrimmedFacts ==
  ASSUME NEW h \in Seq(SessionMessage), NEW n, n = Len(h)
  PROVE  Trimmed(h, n, X!oversized(h), X!softTrim(h), [i \in X!oversized(h) |-> [X!softTrim(h)[i] EXCEPT !.blocks[1] = 0]])
<1> DEFINE big == X!oversized(h)
           trimmed == X!softTrim(h)
           zero == [i \in big |-> [trimmed[i] EXCEPT !.blocks[1] = 0]]
<1>1. n \in Nat /\ DOMAIN h = 1..n /\ \A i \in 1..n : h[i] \in SessionMessage  OBVIOUS
<1>2. X!open(h) \subseteq 1..n /\ big \subseteq X!open(h)  BY <1>1 DEF X!open, X!oversized
<1>3. ASSUME NEW i \in big PROVE h[i] \in SessionMessage /\ h[i].blocks \in Seq(Nat) /\ Len(h[i].blocks) > 0
  <2>1. h[i] \in SessionMessage /\ X!sum(h[i].blocks) > X!OVERSIZED_RESULT  BY <1>1, <1>2 DEF X!oversized
  <2>2. h[i].blocks \in Seq(Nat)  BY <2>1 DEF SessionMessage
  <2>3. h[i].blocks # <<>>
    <3> SUFFICES ASSUME h[i].blocks = <<>> PROVE FALSE
      OBVIOUS
    <3> QED BY <2>1, SumEmpty DEF X!OVERSIZED_RESULT
  <2> QED BY <2>1, <2>2, <2>3
<1>4. /\ DOMAIN trimmed = 1..n
      /\ \A i \in 1..n : trimmed[i] = IF i \in big /\ h[i].blocks[1] > X!OVERSIZED_RESULT
                                      THEN [h[i] EXCEPT !.blocks[1] = X!SOFT_TRIM] ELSE h[i]
  BY <1>1 DEF X!softTrim
<1> HIDE DEF big, trimmed
<1>5. ASSUME NEW i \in 1..n
      PROVE  /\ trimmed[i] \in SessionMessage /\ Smaller(trimmed[i].blocks, h[i].blocks)
             /\ trimmed[i] = h[i] \/ (i \in big /\ trimmed[i].blocks[1] = 3)
             /\ i \in big => Len(trimmed[i].blocks) > 0
  <2>1. CASE i \in big /\ h[i].blocks[1] > X!OVERSIZED_RESULT
    <3>1. trimmed[i] = [h[i] EXCEPT !.blocks[1] = 3]  BY <1>4, <2>1 DEF X!SOFT_TRIM
    <3>2. h[i] \in SessionMessage /\ h[i].blocks \in Seq(Nat) /\ Len(h[i].blocks) > 0  BY <1>3, <2>1
    <3>3. 3 \in Nat /\ 3 <= h[i].blocks[1]
      <4> DEFINE first == h[i].blocks[1]
      <4>1. first \in Nat  BY <3>2
      <4>2. X!OVERSIZED_RESULT = 8  BY DEF X!OVERSIZED_RESULT
      <4>3. first > X!OVERSIZED_RESULT  BY <2>1
      <4> HIDE DEF first
      <4>4. 3 <= first  BY <4>1, <4>2, <4>3
      <4> QED BY <4>4 DEF first
    <3> DEFINE m == h[i]
               q == [m EXCEPT !.blocks[1] = 3]
    <3>4. m \in SessionMessage /\ Len(m.blocks) > 0 /\ 3 <= m.blocks[1] /\ trimmed[i] = q  BY <3>1, <3>2, <3>3
    <3> HIDE DEF m
    <3>5. q \in SessionMessage /\ q.blocks[1] = 3 /\ Len(q.blocks) > 0 /\ Smaller(q.blocks, m.blocks)  BY <3>3, <3>4, FirstCut
    <3> HIDE DEF q
    <3> QED BY <2>1, <3>4, <3>5 DEF m
  <2>2. CASE ~(i \in big /\ h[i].blocks[1] > X!OVERSIZED_RESULT)
    <3>1. trimmed[i] = h[i] /\ h[i] \in SessionMessage  BY <1>1, <1>4, <2>2
    <3>2. h[i].blocks \in Seq(Nat)  BY <3>1 DEF SessionMessage
    <3>3. Smaller(h[i].blocks, h[i].blocks)  BY <3>2, SmallerSame
    <3> QED BY <1>3, <3>1, <3>3
  <2> QED BY <2>1, <2>2
<1>6. ASSUME NEW i \in big PROVE Smaller(zero[i].blocks, trimmed[i].blocks) /\ zero[i].blocks[1] = 0
  <2>1. i \in 1..n  BY <1>2
  <2>2. trimmed[i] \in SessionMessage /\ Len(trimmed[i].blocks) > 0  BY <1>5, <2>1
  <2>3. 0 \in Nat /\ 0 <= trimmed[i].blocks[1]
    <3>1. trimmed[i].blocks \in Seq(Nat)  BY <2>2 DEF SessionMessage
    <3>2. trimmed[i].blocks[1] \in Nat  BY <2>2, <3>1
    <3> QED BY <3>2
  <2>4. zero[i] = [trimmed[i] EXCEPT !.blocks[1] = 0]  OBVIOUS
  <2> HIDE DEF zero
  <2> QED BY <2>2, <2>3, <2>4, FirstCut
<1>7. ASSUME NEW i \in 1..n PROVE Smaller(trimmed[i].blocks, trimmed[i].blocks)
  <2>1. trimmed[i].blocks \in Seq(Nat)  BY <1>5 DEF SessionMessage
  <2> QED BY <2>1, SmallerSame
<1> HIDE DEF zero
<1>8. Trimmed(h, n, big, trimmed, zero)  BY <1>1, <1>2, <1>4, <1>5, <1>6, <1>7 DEF Trimmed
<1> QED BY <1>8 DEF big, trimmed, zero

\* A session of which the results in set are cleared.
Emptied(n, trimmed, zero, set) == [i \in 1..n |-> IF i \in set THEN zero[i] ELSE trimmed[i]]

\* Clearing more leaves less.
LEMMA EmptiedLess ==
  ASSUME NEW h, NEW n \in Nat, NEW big, NEW trimmed, NEW zero, Trimmed(h, n, big, trimmed, zero),
         NEW set, NEW more, set \subseteq more, more \subseteq big, NEW seen
  PROVE  /\ X!toolResultChars(Emptied(n, trimmed, zero, more), seen) <= X!toolResultChars(Emptied(n, trimmed, zero, set), seen)
         /\ X!toolResultChars(Emptied(n, trimmed, zero, more), seen) \in Nat
         /\ X!toolResultChars(Emptied(n, trimmed, zero, set), seen) \in Nat
<1> DEFINE P == Emptied(n, trimmed, zero, more)
           Q == Emptied(n, trimmed, zero, set)
<1>1. DOMAIN P = 1..n /\ DOMAIN Q = 1..n  BY DEF Emptied
<1>2. ASSUME NEW i \in 1..n PROVE Smaller(P[i].blocks, Q[i].blocks)
  <2>1. Smaller(trimmed[i].blocks, trimmed[i].blocks)  BY DEF Trimmed
  <2>2. CASE i \notin more
    <3>1. P[i] = trimmed[i] /\ Q[i] = trimmed[i]  BY <2>2 DEF Emptied
    <3> QED BY <2>1, <3>1
  <2>3. CASE i \in more
    <3>1. P[i] = zero[i] /\ Q[i] = IF i \in set THEN zero[i] ELSE trimmed[i]  BY <2>3 DEF Emptied
    <3>2. Smaller(zero[i].blocks, trimmed[i].blocks)  BY <2>3 DEF Trimmed
    <3>3. Smaller(zero[i].blocks, zero[i].blocks)
      <4>1. zero[i].blocks \in Seq(Nat)  BY <3>2 DEF Smaller
      <4> QED BY <4>1, SmallerSame
    <3> QED BY <3>1, <3>2, <3>3
  <2> QED BY <2>2, <2>3
<1> HIDE DEF P, Q
<1>3. /\ X!toolResultChars(P, seen) <= X!toolResultChars(Q, seen)
      /\ X!toolResultChars(P, seen) \in Nat /\ X!toolResultChars(Q, seen) \in Nat
  BY <1>1, <1>2, CharsGrow
<1> QED BY <1>3 DEF P, Q

\* (session-hygiene.ts:85) Clearing from the oldest on until the rest fits.
LEMMA ClearedRight ==
  ASSUME NEW h, NEW n \in Nat, NEW trimmed, NEW zero, Trimmed(h, n, X!oversized(h), trimmed, zero)
  PROVE  LET big == X!oversized(h)
             left(set) == X!toolResultChars(Emptied(n, trimmed, zero, set), X!open(h))
         IN  Shaped(h, Emptied(n, trimmed, zero, {i \in big : left({j \in big : j < i}) > X!TOOL_RESULT_BUDGET}))
<1> DEFINE big == X!oversized(h)
           size(f) == X!toolResultChars(f, X!open(h))
           left(set) == size(Emptied(n, trimmed, zero, set))
           upTo(i) == {j \in big : j < i}
           gone == {i \in big : left(upTo(i)) > X!TOOL_RESULT_BUDGET}
           after == Emptied(n, trimmed, zero, gone)
           shaped == {i \in DOMAIN h : after[i] # h[i]}
           empty == {i \in big : after[i].blocks[1] = 0}
           cleared == shaped \cap empty
           without(i) == [j \in DOMAIN h |-> IF j \in cleared /\ j >= i THEN h[j] ELSE after[j]]
<1>1. DOMAIN h = 1..n /\ big \subseteq X!open(h) /\ big \subseteq 1..n  BY DEF Trimmed
<1>2. \A i \in 1..n : Smaller(trimmed[i].blocks, h[i].blocks) /\ (trimmed[i] = h[i] \/ (i \in big /\ trimmed[i].blocks[1] = 3))
  BY DEF Trimmed
<1>3. \A i \in big : Smaller(zero[i].blocks, trimmed[i].blocks) /\ zero[i].blocks[1] = 0  BY DEF Trimmed
<1>4. \A i \in 1..n : Smaller(trimmed[i].blocks, trimmed[i].blocks)  BY DEF Trimmed
<1>5. X!TOOL_RESULT_BUDGET \in Nat  BY DEF X!TOOL_RESULT_BUDGET
<1>6. ASSUME NEW set, NEW more, set \subseteq more, more \subseteq big
      PROVE  left(more) <= left(set) /\ left(more) \in Nat /\ left(set) \in Nat
  BY <1>6, EmptiedLess
<1>7. \A i \in 1..n : after[i] = IF i \in gone THEN zero[i] ELSE trimmed[i]  BY DEF Emptied
<1>8. gone \subseteq big /\ \A i \in big : i \in gone <=> left(upTo(i)) > X!TOOL_RESULT_BUDGET  OBVIOUS
<1>9. \A i \in 1..n, j \in 1..n : upTo(i) \subseteq big /\ (j \in upTo(i) <=> j \in big /\ j < i)  OBVIOUS
<1>10. after = Emptied(n, trimmed, zero, gone) /\ left(gone) = size(after)  OBVIOUS
<1>11. /\ shaped = {i \in 1..n : after[i] # h[i]} /\ empty = {i \in big : after[i].blocks[1] = 0}
       /\ cleared = shaped \cap empty
  BY <1>1
<1> HIDE DEF big, left, gone, after, upTo
<1>12. ASSUME NEW i \in gone, NEW j \in big, j < i PROVE j \in gone
  <2>1. i \in 1..n /\ j \in 1..n  BY <1>1, <1>8
  <2>2. upTo(j) \subseteq upTo(i) /\ upTo(i) \subseteq big
    <3>1. \A k \in 1..n : k \in upTo(j) => k \in upTo(i)  BY <1>9, <1>12, <2>1
    <3>2. upTo(j) \subseteq 1..n /\ upTo(i) \subseteq big  BY <1>1, <1>9, <2>1
    <3> QED BY <3>1, <3>2
  <2>3. left(upTo(i)) <= left(upTo(j)) /\ left(upTo(i)) \in Nat /\ left(upTo(j)) \in Nat  BY <1>6, <2>2
  <2>4. left(upTo(i)) > X!TOOL_RESULT_BUDGET  BY <1>8
  <2>5. left(upTo(j)) > X!TOOL_RESULT_BUDGET  BY <1>5, <2>3, <2>4
  <2> QED BY <1>8, <2>5
<1>13. \A i \in gone : i \in big /\ i \in 1..n /\ after[i].blocks[1] = 0  BY <1>1, <1>3, <1>7, <1>8
<1>14. shaped \subseteq big
  <2>1. ASSUME NEW i \in shaped PROVE i \in big
    <3>1. i \in 1..n /\ after[i] # h[i]  BY <1>11
    <3> QED BY <1>2, <1>7, <1>8, <3>1
  <2> QED BY <2>1
<1>15. cleared \subseteq gone
  <2>1. ASSUME NEW i \in cleared, i \notin gone PROVE FALSE
    <3>1. i \in 1..n /\ after[i] # h[i] /\ after[i].blocks[1] = 0  BY <1>11
    <3>2. after[i] = trimmed[i]  BY <1>7, <2>1, <3>1
    <3>3. trimmed[i].blocks[1] = 3  BY <1>2, <3>1, <3>2
    <3> QED BY <3>1, <3>2, <3>3
  <2> QED BY <2>1
<1>16. \A i \in shaped : Cardinality({j \in X!assistants(h) : j > i}) >= 3
  <2>1. ASSUME NEW i \in shaped PROVE Cardinality({j \in X!assistants(h) : j > i}) >= 3
    <3>1. i \in X!open(h)
      <4>1. i \in big  BY <1>14
      <4> QED BY <1>1, <4>1
    <3> DEFINE later == Cardinality({j \in X!assistants(h) : j > i})
    <3>2. later >= X!PROTECTED_ASSISTANT_MESSAGES
      <4>1. X!Cardinality({j \in X!assistants(h) : j > i}) >= X!PROTECTED_ASSISTANT_MESSAGES  BY <3>1 DEF X!open
      <4>2. X!Cardinality({j \in X!assistants(h) : j > i}) = later  BY DEF X!Cardinality, Cardinality
      <4> QED BY <4>1, <4>2
    <3>3. X!PROTECTED_ASSISTANT_MESSAGES = 3  BY DEF X!PROTECTED_ASSISTANT_MESSAGES
    <3> HIDE DEF later
    <3>4. later >= 3  BY <3>2, <3>3
    <3> QED BY <3>4 DEF later
  <2> QED BY <2>1
<1>17. ASSUME size(after) > X!TOOL_RESULT_BUDGET PROVE empty = big
  <2>1. big \subseteq gone
    <3> DEFINE rest == big \ gone
    <3>1. SUFFICES ASSUME rest # {} PROVE FALSE
      <4>1. rest = {} => \A j \in big : j \in gone  OBVIOUS
      <4> HIDE DEF rest
      <4> QED BY <4>1
    <3>2. rest \in SUBSET Nat
      <4>1. \A i \in rest : i \in big  OBVIOUS
      <4> HIDE DEF rest
      <4>2. \A i \in 1..n : i \in Nat  OBVIOUS
      <4> QED BY <1>1, <4>1, <4>2
    <3>3. PICK i \in rest : \A j \in rest : i <= j  BY <3>1, <3>2, Least
    <3>4. i \in big /\ i \in 1..n  BY <1>1, <3>3
    <3>5. \A j \in 1..n : j \in upTo(i) => j \in gone
      <4>1. ASSUME NEW j \in 1..n, j \in upTo(i), j \notin gone PROVE FALSE
        <5>1. j \in big /\ j < i  BY <1>9, <3>4, <4>1
        <5>2. i <= j  BY <3>3, <4>1, <5>1
        <5> QED BY <3>4, <5>1, <5>2
      <4> QED BY <4>1
    <3>6. upTo(i) \subseteq gone
      <4>1. upTo(i) \subseteq 1..n  BY <1>1, <1>9, <3>4
      <4> QED BY <3>5, <4>1
    <3>7. left(gone) <= left(upTo(i)) /\ left(gone) \in Nat /\ left(upTo(i)) \in Nat  BY <1>6, <1>8, <3>6
    <3>8. left(gone) > X!TOOL_RESULT_BUDGET  BY <1>10, <1>17
    <3>9. left(upTo(i)) > X!TOOL_RESULT_BUDGET  BY <1>5, <3>7, <3>8
    <3> QED BY <1>8, <3>3, <3>4, <3>9
  <2> QED BY <1>11, <1>13, <2>1
<1>18. ASSUME NEW i \in cleared PROVE {j \in big : j < i} \subseteq empty
  <2>1. ASSUME NEW j \in big, j < i PROVE j \in empty
    <3>1. i \in gone  BY <1>15
    <3>2. j \in gone  BY <1>12, <2>1, <3>1
    <3> QED BY <1>11, <1>13, <2>1, <3>2
  <2> QED BY <2>1
<1>19. ASSUME NEW i \in cleared PROVE size(without(i)) > X!TOOL_RESULT_BUDGET
  <2> DEFINE P == Emptied(n, trimmed, zero, upTo(i))
             Q == without(i)
  <2>1. i \in gone /\ i \in 1..n  BY <1>13, <1>15
  <2>2. /\ DOMAIN P = 1..n /\ DOMAIN Q = 1..n
        /\ \A j \in 1..n : P[j] = IF j \in upTo(i) THEN zero[j] ELSE trimmed[j]
        /\ \A j \in 1..n : Q[j] = IF j \in cleared /\ j >= i THEN h[j] ELSE after[j]
    BY <1>1 DEF Emptied
  <2>3. size(P) > X!TOOL_RESULT_BUDGET  BY <1>8, <2>1 DEF left
  <2> HIDE DEF P, Q
  <2>4. ASSUME NEW j \in 1..n PROVE Smaller(P[j].blocks, Q[j].blocks)
    <3>1. CASE j \in upTo(i)
      <4>1. j \in big /\ j < i /\ j \in gone  BY <1>9, <1>12, <2>1, <3>1
      <4>2. P[j] = zero[j] /\ Q[j] = zero[j]  BY <1>7, <2>1, <2>2, <3>1, <4>1
      <4>3. zero[j].blocks \in Seq(Nat)  BY <1>3, <4>1 DEF Smaller
      <4> QED BY <4>2, <4>3, SmallerSame
    <3>2. CASE j \notin upTo(i) /\ j \notin gone
      <4>1. P[j] = trimmed[j] /\ Q[j] = trimmed[j]  BY <1>7, <1>15, <2>2, <3>2
      <4> QED BY <1>4, <4>1
    <3>3. CASE j \notin upTo(i) /\ j \in gone
      <4>1. P[j] = trimmed[j]  BY <2>2, <3>3
      <4>2. j \in big /\ j >= i  BY <1>8, <1>9, <2>1, <3>3
      <4>3. j \in empty  BY <1>11, <1>13, <3>3
      <4>4. Q[j] = h[j]
        <5>1. CASE j \in cleared  BY <2>2, <4>2, <5>1
        <5>2. CASE j \notin cleared
          <6>1. after[j] = h[j]  BY <1>11, <4>3, <5>2
          <6> QED BY <2>2, <5>2, <6>1
        <5> QED BY <5>1, <5>2
      <4> QED BY <1>2, <4>1, <4>4
    <3> QED BY <3>1, <3>2, <3>3
  <2>5. size(P) <= size(Q) /\ size(P) \in Nat /\ size(Q) \in Nat  BY <2>2, <2>4, CharsGrow
  <2>6. size(Q) > X!TOOL_RESULT_BUDGET  BY <1>5, <2>3, <2>5
  <2> QED BY <2>6 DEF Q
<1>20. Shaped(h, after)  BY <1>16, <1>17, <1>18, <1>19 DEF Shaped, big
<1> QED BY <1>20 DEF after, gone, left, upTo, big

LEMMA ShapedRight ==
  ASSUME NEW h \in Seq(SessionMessage)
  PROVE  Shaped(h, X!shapeSessionMessagesForPrompt(h))
<1> DEFINE n == Len(h)
           big == X!oversized(h)
           trimmed == X!softTrim(h)
           zero == [i \in big |-> [trimmed[i] EXCEPT !.blocks[1] = 0]]
           left(set) == X!toolResultChars(Emptied(n, trimmed, zero, set), X!open(h))
           gone == {i \in big : left({j \in big : j < i}) > X!TOOL_RESULT_BUDGET}
<1>1. n \in Nat  OBVIOUS
<1>2. Trimmed(h, n, big, trimmed, zero)  BY TrimmedFacts
<1>3. DOMAIN trimmed = 1..n  BY <1>2 DEF Trimmed
<1>4. Shaped(h, Emptied(n, trimmed, zero, gone))  BY <1>1, <1>2, ClearedRight
<1>5. ASSUME NEW set, set \subseteq big PROVE X!hardClear(trimmed, set) = Emptied(n, trimmed, zero, set)
  BY <1>3, <1>5 DEF X!hardClear, Emptied
<1>6. X!shapeSessionMessagesForPrompt(h) = X!hardClear(trimmed, {i \in big :
        X!toolResultChars(X!hardClear(trimmed, {j \in big : j < i}), X!open(h)) > X!TOOL_RESULT_BUDGET})
  BY DEF X!shapeSessionMessagesForPrompt
<1>7. \A i : X!hardClear(trimmed, {j \in big : j < i}) = Emptied(n, trimmed, zero, {j \in big : j < i})
  <2>1. ASSUME NEW i PROVE {j \in big : j < i} \subseteq big  OBVIOUS
  <2> HIDE DEF n, big, trimmed, zero
  <2> QED BY <1>5, <2>1
<1>8. gone \subseteq big  OBVIOUS
<1> HIDE DEF n, big, trimmed, zero
<1>9. X!shapeSessionMessagesForPrompt(h) = X!hardClear(trimmed, gone)  BY <1>6, <1>7
<1> HIDE DEF gone
<1>10. X!shapeSessionMessagesForPrompt(h) = Emptied(n, trimmed, zero, gone)  BY <1>5, <1>8, <1>9
<1> QED BY <1>4, <1>10

\* (session-log.ts, session-hygiene.ts:51) Shaping a session.
LEMMA ShapeXInv ==
  ASSUME XInv, NEW h \in Histories, X!Shape(h)
  PROVE  XInv'
<1>1. h \in Seq(SessionMessage)  BY ContextAssumption DEF SessionMessage
<1>2. Shaped(h, X!shapeSessionMessagesForPrompt(h))  BY <1>1, ShapedRight
<1> DEFINE after == X!shapeSessionMessagesForPrompt(h)
<1>3. cut' = [kind |-> "history", before |-> h, after |-> after] /\ work' = work  BY DEF X!Shape
<1> HIDE DEF after
<1>4. cut'.kind = "history" /\ cut'.before = h /\ cut'.after = after  BY <1>3
<1>5. Shaped(cut'.before, cut'.after)  BY <1>2, <1>4 DEF after
<1>6. CutRight'  BY <1>4, <1>5 DEF CutRight
<1>7. WorkTyped' /\ Searching' /\ Choosing'  BY <1>3 DEF XInv, WorkTyped, Searching, Choosing
<1> QED BY <1>6, <1>7 DEF XInv

\* Every cut.
LEMMA ContextXInv == ASSUME XInv, X!Next PROVE XInv'
<1>1. ASSUME \/ \E text \in Texts : X!trimIndex(text) \/ X!takeTailLinesWithinBudget(text)
             \/ \E entry \in Logs : X!takeTailTurnsWithinBudget(entry)
      PROVE  XInv'
  BY <1>1, TextsXInv
<1>2. ASSUME NEW available \in BOOLEAN, X!countTotal(available) \/ X!countCandidate(available) \/ X!countSections(available)
      PROVE  XInv'
  BY <1>2, TotalXInv, CandidateXInv, SectionsXInv
<1>3. ASSUME X!Found PROVE XInv'  BY <1>3, FoundXInv
<1>4. ASSUME NEW f \in Files, X!BeginMemory(f) PROVE XInv'  BY <1>4, BeginMemoryXInv
<1>5. ASSUME NEW available \in BOOLEAN, NEW again \in BOOLEAN, X!countMemory(available, again) PROVE XInv'
  BY <1>5, MemoryXInv
<1>6. ASSUME X!prioritizeSelectedMemoryMarkdown PROVE XInv'  BY <1>6, BestXInv
<1>7. ASSUME NEW h \in Histories, X!Shape(h) PROVE XInv'  BY <1>7, ShapeXInv
<1> QED BY <1>1, <1>2, <1>3, <1>4, <1>5, <1>6, <1>7 DEF X!Next

\* The other parts leave it alone.
LEMMA NextXInv == XInv /\ [Next]_vars => XInv'
<1> SUFFICES ASSUME XInv, [Next]_vars PROVE XInv'  OBVIOUS
<1>1. X!Next \/ UNCHANGED contextVars
  BY DEF Next, Maintenance, Catalog, Runtime, Context, Schedule, Hear, Tools, Register, vars
<1>2. CASE UNCHANGED contextVars
  <2>1. work' = work /\ cut' = cut  BY <1>2 DEF contextVars
  <2> QED BY <2>1 DEF XInv, WorkTyped, Searching, Choosing, CutRight
<1> QED BY <1>1, <1>2, ContextXInv

LEMMA XInvFits == XInv => FitsBudget
<1> SUFFICES ASSUME XInv PROVE FitsBudget  OBVIOUS
<1>1. CutRight  BY DEF XInv
<1>2. ASSUME cut.kind \in {"prefix", "tail"}
      PROVE  LET part_(n) == IF cut.kind = "prefix" THEN SubSeq(cut.lines, 1, n) ELSE X!last(cut.lines, n)
                 fitting == {n \in 1..Len(cut.lines) : X!sum(part_(n)) <= Budget}
             IN  /\ cut.kept # cut.lines \/ (cut.sure /\ cut.kind = "prefix") => X!sum(cut.kept) <= Budget
                 /\ cut.sure /\ fitting # {} => cut.kept = part_(Max(fitting))
  <2> DEFINE part_(n) == IF cut.kind = "prefix" THEN SubSeq(cut.lines, 1, n) ELSE X!last(cut.lines, n)
             fitting == {n \in 1..Len(cut.lines) : X!sum(part_(n)) <= Budget}
  <2>1. \A n : part_(n) = PartOf(cut.kind, cut.lines, n)  BY <1>2 DEF PartOf
  <2> HIDE DEF part_
  <2>2. fitting = Fitting(cut.kind, cut.lines)  BY <2>1 DEF Fitting
  <2> HIDE DEF fitting
  <2>3. Right(cut.kind, cut.lines, cut.kept, cut.sure)  BY <1>1, <1>2 DEF CutRight
  <2>4. /\ cut.kept # cut.lines \/ (cut.sure /\ cut.kind = "prefix") => X!sum(cut.kept) <= Budget
        /\ cut.sure /\ fitting # {} => cut.kept = part_(Max(fitting))
    BY <2>1, <2>2, <2>3 DEF Right
  <2> QED BY <2>4 DEF part_, fitting
<1>3. cut.kind = "memory" /\ cut.sure => X!sum(cut.kept) <= Budget  BY <1>1 DEF CutRight
<1>4. cut.kind = "history" => Shaped(cut.before, cut.after)  BY <1>1 DEF CutRight
<1> QED BY <1>2, <1>3, <1>4 DEF FitsBudget, Shaped

\* (observations.ts:10, service.ts:98, session-hygiene.ts:51) Of every text, scene, timeline,
\* memory file and session, whatever the counts of its tokens: what is shortened fits, the most
\* that fits is kept, and old results are cleared from the oldest on and only for the budget.
THEOREM PromptsFitBudget == Spec => []FitsBudget
<1>1. Spec => []XInv
  <2>1. Init => XInv  BY InitXInv
  <2>2. XInv /\ [Next]_vars => XInv'  BY NextXInv
  <2> QED BY <2>1, <2>2, PTL DEF Spec
<1>2. XInv => FitsBudget  BY XInvFits
<1> QED BY <1>1, <1>2, PTL

=============================================================================
