--------------------------- MODULE JobQueueProofs ---------------------------
(***************************************************************************)
(* Proofs about JobQueue for every set of jobs and sessions, every slot    *)
(* limit and depth, and any number of faults, crashes and removals; then    *)
(* what becomes of a job is final, what holds as long as no store call      *)
(* throws, and the refinement of DurableFifo.                               *)
(***************************************************************************)
EXTENDS JobQueueProps, FiniteSetTheorems, SequenceTheorems, TLAPS

-----------------------------------------------------------------------------
(* Ranks in a strict order.  The log line of a job and its place in a      *)
(* recovered queue are numbers of the jobs before it.                      *)

Below(S, R, j) == {k \in S : <<k, j>> \in R}
StrictOrder(S, R) ==
  /\ \A j \in S : <<j, j>> \notin R
  /\ \A i, j, k \in S : <<i, j>> \in R /\ <<j, k>> \in R => <<i, k>> \in R
  /\ \A j, k \in S : j # k => <<j, k>> \in R \/ <<k, j>> \in R

\* A rank is less than the size of the set.
LEMMA RankBound ==
  ASSUME NEW S, IsFiniteSet(S), NEW R, StrictOrder(S, R), NEW j \in S
  PROVE  /\ Cardinality(S) \in Nat
         /\ Cardinality(Below(S, R, j)) \in 0..(Cardinality(S) - 1)
<1>1. Below(S, R, j) \in SUBSET S /\ j \notin Below(S, R, j)
  BY DEF Below, StrictOrder
<1>2. /\ IsFiniteSet(Below(S, R, j))
      /\ Cardinality(Below(S, R, j)) <= Cardinality(S)
      /\ Cardinality(S) = Cardinality(Below(S, R, j)) => S = Below(S, R, j)
  BY <1>1, FS_Subset, Zenon
<1>3. Cardinality(S) \in Nat /\ Cardinality(Below(S, R, j)) \in Nat
  BY <1>2, FS_CardinalityType
<1>4. Cardinality(S) # Cardinality(Below(S, R, j))
  BY <1>1, <1>2
<1> QED BY <1>2, <1>3, <1>4

\* A job before another has the smaller rank.
LEMMA RankIncreases ==
  ASSUME NEW S, IsFiniteSet(S), NEW R, StrictOrder(S, R),
         NEW j \in S, NEW k \in S, <<j, k>> \in R
  PROVE  Cardinality(Below(S, R, j)) < Cardinality(Below(S, R, k))
<1>1. Below(S, R, j) \in SUBSET Below(S, R, k) /\ Below(S, R, k) \in SUBSET S
  BY DEF Below, StrictOrder
<1>2. j \in Below(S, R, k) /\ j \notin Below(S, R, j)
  BY DEF Below, StrictOrder
<1>3. IsFiniteSet(Below(S, R, k))
  BY <1>1, FS_Subset, Zenon
<1>4. /\ Cardinality(Below(S, R, j)) <= Cardinality(Below(S, R, k))
      /\ Cardinality(Below(S, R, k)) = Cardinality(Below(S, R, j))
           => Below(S, R, k) = Below(S, R, j)
      /\ IsFiniteSet(Below(S, R, j))
  BY <1>1, <1>3, FS_Subset, Zenon
<1>5. Cardinality(Below(S, R, j)) \in Nat /\ Cardinality(Below(S, R, k)) \in Nat
  BY <1>3, <1>4, FS_CardinalityType
<1>6. Cardinality(Below(S, R, j)) # Cardinality(Below(S, R, k))
  BY <1>2, <1>4
<1> QED BY <1>4, <1>5, <1>6

\* Distinct jobs have distinct ranks.
LEMMA RankInjective ==
  ASSUME NEW S, IsFiniteSet(S), NEW R, StrictOrder(S, R), NEW j \in S, NEW k \in S, j # k
  PROVE  Cardinality(Below(S, R, j)) # Cardinality(Below(S, R, k))
<1>1. <<j, k>> \in R \/ <<k, j>> \in R
  BY DEF StrictOrder
<1>2. /\ Cardinality(Below(S, R, j)) \in Nat
      /\ Cardinality(Below(S, R, k)) \in Nat
  BY RankBound
<1>3. CASE <<j, k>> \in R
  <2>1. Cardinality(Below(S, R, j)) < Cardinality(Below(S, R, k))
    BY <1>3, RankIncreases
  <2> QED BY <2>1, <1>2
<1>4. CASE <<k, j>> \in R
  <2>1. Cardinality(Below(S, R, k)) < Cardinality(Below(S, R, j))
    BY <1>4, RankIncreases
  <2> QED BY <2>1, <1>2
<1> QED BY <1>1, <1>3, <1>4

\* Every rank below the size of the set is taken, so a list of the set by rank
\* has a job at each place.
LEMMA RankOnto ==
  ASSUME NEW S, IsFiniteSet(S), NEW R, StrictOrder(S, R), NEW i \in 1..Cardinality(S)
  PROVE  \E j \in S : Cardinality(Below(S, R, j)) = i - 1
<1> DEFINE n == Cardinality(S)
           T == 0..(n - 1)
           f == [j \in S |-> Cardinality(Below(S, R, j))]
<1>1. n \in Nat
  BY FS_CardinalityType
<1>2. IsFiniteSet(T) /\ Cardinality(T) = n
  <2>1. 0 \in Int /\ n - 1 \in Int /\ i \in Int
    BY <1>1
  <2>2. IsFiniteSet(T) /\ Cardinality(T) = IF 0 > n - 1 THEN 0 ELSE (n - 1) - 0 + 1
    BY <2>1, FS_Interval, Zenon
  <2> QED BY <2>2, <1>1
<1>3. f \in [S -> T]
  BY RankBound
<1>4. \A j, k \in S : f[j] = f[k] => j = k
  BY RankInjective
<1>5. f \in Injection(S, T)
  BY <1>3, <1>4 DEF Injection, IsInjective
<1>6. f \in Surjection(S, T)
  BY <1>2, <1>5, FS_Injection
<1>7. i - 1 \in T
  BY <1>1
<1> QED BY <1>6, <1>7 DEF Surjection

-----------------------------------------------------------------------------
(* The two orders of the log. *)

CompactOrder == {p \in Jobs \X Jobs : CompactBefore(p[1], p[2])}
RecoverOrder == {p \in Jobs \X Jobs : RecoverBefore(p[1], p[2])}

\* No two pending jobs share a line.
LineDistinct ==
  \A j, k \in Jobs : line[j] > 0 /\ line[k] > 0 /\ line[j] = line[k] => j = k

\* Compaction numbers exactly the jobs it is given, each with a line of its own.
LEMMA CompactedLogLines ==
  ASSUME NEW S \in SUBSET Jobs
  PROVE  /\ CompactedLog(S) \in [Jobs -> Nat]
         /\ \A j \in Jobs : CompactedLog(S)[j] > 0 <=> j \in S
         /\ \A j, k \in S : CompactedLog(S)[j] = CompactedLog(S)[k] => j = k
<1> USE JobQueueAssumption DEF JobQueueAssumption
<1>1. IsFiniteSet(S)
  BY FS_Subset
<1>2. StrictOrder(S, CompactOrder)
  BY DEF StrictOrder, CompactOrder, CompactBefore
<1>3. \A j \in S : {k \in S : CompactBefore(k, j)} = Below(S, CompactOrder, j)
  BY DEF Below, CompactOrder
<1>4. \A j \in S : Cardinality(Below(S, CompactOrder, j)) \in Nat
  BY <1>1, <1>2, RankBound
<1>5. \A j \in S : CompactedLog(S)[j] = 1 + Cardinality(Below(S, CompactOrder, j))
  BY <1>3 DEF CompactedLog
<1>6. \A j \in Jobs \ S : CompactedLog(S)[j] = 0
  BY DEF CompactedLog
<1>7. \A j, k \in S : CompactedLog(S)[j] = CompactedLog(S)[k] => j = k
  BY <1>1, <1>2, <1>4, <1>5, RankInjective
<1>8. \A j \in Jobs : CompactedLog(S)[j] \in Nat /\ (CompactedLog(S)[j] > 0 <=> j \in S)
  BY <1>4, <1>5, <1>6
<1>9. CompactedLog(S) \in [Jobs -> Nat]
  BY <1>8 DEF CompactedLog
<1> QED BY <1>7, <1>8, <1>9

\* Recovery puts every pending job of the session, and nothing else, at one place.
LEMMA RecoveredQueueJobs ==
  ASSUME line \in [Jobs -> Nat], LineDistinct, NEW s \in Sessions
  PROVE  /\ RecoveredQueue(s) \in Seq(Jobs)
         /\ \A i \in 1..Len(RecoveredQueue(s)) :
              RecoveredQueue(s)[i] \in Pending /\ SessionOf[RecoveredQueue(s)[i]] = s
         /\ \A i, k \in 1..Len(RecoveredQueue(s)) :
              RecoveredQueue(s)[i] = RecoveredQueue(s)[k] => i = k
<1> USE JobQueueAssumption DEF JobQueueAssumption
<1> DEFINE mine == {j \in Pending : SessionOf[j] = s}
           at(i) == CHOOSE j \in mine : Cardinality({k \in mine : RecoverBefore(k, j)}) = i - 1
           n == Cardinality(mine)
<1>1. mine \in SUBSET Jobs /\ IsFiniteSet(mine)
  <2>1. mine \in SUBSET Jobs
    BY DEF Pending
  <2> QED BY <2>1, FS_Subset
<1>2. StrictOrder(mine, RecoverOrder)
  BY DEF StrictOrder, RecoverOrder, RecoverBefore, LineDistinct, Pending
<1>3. \A j \in mine : {k \in mine : RecoverBefore(k, j)} = Below(mine, RecoverOrder, j)
  BY <1>1 DEF Below, RecoverOrder
<1>4. \A i \in 1..n : at(i) \in mine /\ Cardinality(Below(mine, RecoverOrder, at(i))) = i - 1
  <2> SUFFICES ASSUME NEW i \in 1..n
      PROVE  at(i) \in mine /\ Cardinality(Below(mine, RecoverOrder, at(i))) = i - 1
    OBVIOUS
  <2>1. \E j \in mine : Cardinality(Below(mine, RecoverOrder, j)) = i - 1
    <3> HIDE DEF mine
    <3> QED BY <1>1, <1>2, RankOnto
  <2>2. \E j \in mine : Cardinality({k \in mine : RecoverBefore(k, j)}) = i - 1
    <3>1. PICK j \in mine : Cardinality(Below(mine, RecoverOrder, j)) = i - 1
      BY <2>1
    <3>2. Cardinality({k \in mine : RecoverBefore(k, j)}) = i - 1
      BY <3>1, <1>3
    <3> QED BY <3>2
  <2>3. at(i) \in mine /\ Cardinality({k \in mine : RecoverBefore(k, at(i))}) = i - 1
    <3> HIDE DEF mine
    <3> QED BY <2>2
  <2> QED BY <2>3, <1>3
<1>5. n \in Nat
  BY <1>1, FS_CardinalityType
<1>6. RecoveredQueue(s) = [i \in 1..n |-> at(i)]
  BY DEF RecoveredQueue
<1> HIDE DEF mine, n, at
<1>7. RecoveredQueue(s) \in Seq(Jobs) /\ Len(RecoveredQueue(s)) = n
  <2>1. \A i \in 1..n : at(i) \in Jobs
    BY <1>1, <1>4
  <2>2. RecoveredQueue(s) \in [1..n -> Jobs]
    BY <1>6, <2>1
  <2> QED BY <2>2, <1>5
<1>8. \A i \in 1..n : RecoveredQueue(s)[i] = at(i)
  BY <1>6
<1>9. \A j \in mine : j \in Pending /\ SessionOf[j] = s
  BY DEF mine
<1>10. \A i, k \in 1..n : at(i) = at(k) => i = k
  BY <1>4, <1>5
<1> QED BY <1>4, <1>7, <1>8, <1>9, <1>10

-----------------------------------------------------------------------------
(* The inductive invariant.  The four properties it is for need to know    *)
(* that a job is held in one place only, that the maps of generations to   *)
(* come are empty, and that every job held or logged was once accepted.    *)

Homed ==
  \A g \in Gens, s \in Sessions : \A i \in 1..Len(queue[g][s]) : SessionOf[queue[g][s][i]] = s

NoDuplicate ==
  \A g, h \in Gens, s \in Sessions :
    \A i \in 1..Len(queue[g][s]) : \A k \in 1..Len(queue[h][s]) :
      queue[g][s][i] = queue[h][s][k] => g = h /\ i = k

HeldKnown ==
  \A g \in Gens, s \in Sessions : \A i \in 1..Len(queue[g][s]) : fate[queue[g][s][i]] # "new"
LoggedKnown == \A j \in Jobs : line[j] > 0 => fate[j] # "new"

LaterEmpty ==
  /\ \A g \in Gens : g > gen => queue[g] = [s \in Sessions |-> <<>>]
  /\ phase = "down" => gen = 1 /\ run = NoRun

RunHasHead ==
  \A g \in Gens, s \in Sessions : run[g][s] # "none" => s \in active[g] /\ queue[g][s] # <<>>

InLog ==
  phase # "down" => \A s \in Sessions : \A i \in 1..Len(queue[gen][s]) : line[queue[gen][s][i]] > 0

IInv ==
  /\ TypeOK /\ SlotLimit
  /\ Homed /\ NoDuplicate /\ HeldKnown /\ LoggedKnown /\ LaterEmpty /\ RunHasHead
  /\ LineDistinct /\ InLog

-----------------------------------------------------------------------------
(* What a dispatch does, whoever calls it. *)

\* Filling free slots with idle sessions that wait keeps every set of runs in
\* bounds, starts only sessions that have a head, and leaves the types alone.
LEMMA DispatchFacts ==
  ASSUME NEW q, NEW act \in [Gens -> SUBSET Sessions], NEW rn \in [Gens -> [Sessions -> RunState]],
         NEW cn \in [Sessions -> 0..MaxGen], NEW rep \in SUBSET Sessions, NEW f \in 0..MaxFaults,
         gen \in Gens, \A g \in Gens : Cardinality(act[g]) <= MaxConcurrent,
         Dispatch(q, act, rn, cn, rep, f)
  PROVE  /\ active' \in [Gens -> SUBSET Sessions]
         /\ \A g \in Gens : Cardinality(active'[g]) <= MaxConcurrent
         /\ run' \in [Gens -> [Sessions -> RunState]]
         /\ \A g \in Gens : act[g] \subseteq active'[g]
         /\ \A g \in Gens, s \in Sessions :
              run'[g][s] # "none" =>
                rn[g][s] # "none" \/ (g = gen /\ s \in active'[gen] /\ q[gen][s] # <<>>)
         /\ cancel' \in [Sessions -> 0..MaxGen]
         /\ reported' \in SUBSET Sessions
         /\ faults' \in 0..MaxFaults
<1> USE JobQueueAssumption DEF JobQueueAssumption
<1> DEFINE Cost(n, broken) ==
             Cardinality(broken) + (IF n < Slots(q[gen], act[gen]) THEN 1 ELSE 0)
           Effect(n, P, broken) ==
             /\ f + Cost(n, broken) <= MaxFaults
             /\ faults' = f + Cost(n, broken)
             /\ active' = [act EXCEPT ![gen] = @ \cup P]
             /\ run' = [rn EXCEPT ![gen] = [s \in Sessions |->
                          IF s \in P \ broken THEN "running" ELSE @[s]]]
             /\ cancel' = [s \in Sessions |-> IF s \in P THEN gen ELSE cn[s]]
             /\ reported' = ReportAfter(q[gen], act[gen], P, broken, rep)
<1>a. \E n \in 0..Slots(q[gen], act[gen]) : \E P \in Picked(q[gen], act[gen], n) :
        \E broken \in SUBSET P : Effect(n, P, broken)
  BY DEF Dispatch
<1>b. PICK n \in 0..Slots(q[gen], act[gen]) :
        \E P \in Picked(q[gen], act[gen], n) : \E broken \in SUBSET P : Effect(n, P, broken)
  BY <1>a
<1>c. PICK P \in Picked(q[gen], act[gen], n) : \E broken \in SUBSET P : Effect(n, P, broken)
  BY <1>b
<1>1. PICK broken \in SUBSET P : Effect(n, P, broken)
  BY <1>c
<1>2. /\ P \subseteq Candidates(q[gen], act[gen])
      /\ Candidates(q[gen], act[gen]) \subseteq Sessions \ act[gen]
      /\ \A s \in P : q[gen][s] # <<>>
      /\ Cardinality(P) = n
  BY DEF Picked, Candidates
<1>3. /\ IsFiniteSet(act[gen]) /\ IsFiniteSet(P) /\ IsFiniteSet(broken)
      /\ IsFiniteSet(Candidates(q[gen], act[gen]))
  <2>1. /\ act[gen] \in SUBSET Sessions /\ P \in SUBSET Sessions /\ broken \in SUBSET Sessions
        /\ Candidates(q[gen], act[gen]) \in SUBSET Sessions
    BY <1>2
  <2> QED BY <2>1, FS_Subset
<1>4. /\ Cardinality(act[gen]) \in Nat /\ Cardinality(P) \in Nat /\ Cardinality(broken) \in Nat
      /\ Cardinality(Candidates(q[gen], act[gen])) \in Nat
  BY <1>3, FS_CardinalityType
<1>5. Cardinality(act[gen] \cup P) <= MaxConcurrent
  <2>1. Slots(q[gen], act[gen]) <= MaxConcurrent - Cardinality(act[gen])
    BY <1>4 DEF Slots, Lesser
  <2>2. n <= MaxConcurrent - Cardinality(act[gen])
    BY <2>1, <1>4 DEF Slots, Lesser
  <2>3. act[gen] \cap P = {} /\ Cardinality({}) = 0
    BY <1>2, FS_EmptySet
  <2>4. Cardinality(act[gen] \cup P)
          = Cardinality(act[gen]) + Cardinality(P) - Cardinality(act[gen] \cap P)
    BY <1>3, FS_Union
  <2>5. Cardinality(act[gen] \cap P) = 0 /\ Cardinality(P) = n
    BY <2>3, <1>2
  <2>6. Cardinality(act[gen] \cup P) = Cardinality(act[gen]) + n
    BY <2>4, <2>5, <1>4
  <2> QED BY <2>2, <2>6, <2>5, <1>4
<1>6. active' \in [Gens -> SUBSET Sessions] /\ \A g \in Gens : Cardinality(active'[g]) <= MaxConcurrent
  BY <1>1, <1>2, <1>5
<1>7. /\ run' \in [Gens -> [Sessions -> RunState]]
      /\ \A g \in Gens : act[g] \subseteq active'[g]
      /\ \A g \in Gens, s \in Sessions :
           run'[g][s] # "none" =>
             rn[g][s] # "none" \/ (g = gen /\ s \in active'[gen] /\ q[gen][s] # <<>>)
  BY <1>1, <1>2 DEF RunState
<1>8. cancel' \in [Sessions -> 0..MaxGen]
  BY <1>1 DEF Gens
<1>9. reported' \in SUBSET Sessions
  BY <1>1, <1>2 DEF ReportAfter
<1>10. faults' \in 0..MaxFaults
  <2>1. Cost(n, broken) \in Nat
    BY <1>4
  <2>2. faults' = f + Cost(n, broken) /\ f + Cost(n, broken) <= MaxFaults
    BY <1>1
  <2> HIDE DEF Cost
  <2> QED BY <2>1, <2>2
<1> QED BY <1>6, <1>7, <1>8, <1>9, <1>10

-----------------------------------------------------------------------------
(* Steps. *)

\* The service before its first start satisfies the invariant.
LEMMA InitIInv == Init => IInv
<1> SUFFICES ASSUME Init PROVE IInv
  OBVIOUS
<1> USE JobQueueAssumption DEF JobQueueAssumption, Init, Idle, NoRun, NoActive
<1>1. TypeOK
  <2>1. gen \in Gens /\ cancel \in [Sessions -> 0..MaxGen] /\ faults \in 0..MaxFaults /\ crashes \in 0..MaxCrashes
    BY DEF Gens
  <2>2. queue \in [Gens -> [Sessions -> Seq(Jobs)]] /\ active \in [Gens -> SUBSET Sessions]
    OBVIOUS
  <2>3. run \in [Gens -> [Sessions -> RunState]] /\ removing \in BOOLEAN /\ reported \in SUBSET Sessions
    BY DEF RunState
  <2>4. line \in [Jobs -> Nat] /\ fate \in [Jobs -> {"new", "pending"} \cup Final]
    OBVIOUS
  <2> QED BY <2>1, <2>2, <2>3, <2>4 DEF TypeOK
<1>2. SlotLimit
  BY FS_EmptySet DEF SlotLimit
<1>3. Homed /\ NoDuplicate /\ HeldKnown /\ LoggedKnown /\ LaterEmpty /\ RunHasHead /\ LineDistinct /\ InLog
  BY DEF Homed, NoDuplicate, HeldKnown, LoggedKnown, LaterEmpty, RunHasHead, LineDistinct, InLog, Gens, NoRun
<1> QED BY <1>1, <1>2, <1>3 DEF IInv

\* Recovery (initialize) establishes it from any log a crash may leave.
LEMMA InitializeIInv == IInv /\ Initialize => IInv'
<1> SUFFICES ASSUME IInv, Initialize PROVE IInv'
  OBVIOUS
<1> USE JobQueueAssumption DEF JobQueueAssumption, IInv
<1>1. gen = 1 /\ gen \in Gens
  BY DEF Initialize, LaterEmpty, TypeOK
<1>2. \A s \in Sessions :
        /\ RecoveredQueue(s) \in Seq(Jobs)
        /\ \A i \in 1..Len(RecoveredQueue(s)) :
             RecoveredQueue(s)[i] \in Pending /\ SessionOf[RecoveredQueue(s)[i]] = s
        /\ \A i, k \in 1..Len(RecoveredQueue(s)) :
             RecoveredQueue(s)[i] = RecoveredQueue(s)[k] => i = k
  BY RecoveredQueueJobs DEF TypeOK
<1>3. /\ CompactedLog(Pending) \in [Jobs -> Nat]
      /\ \A j \in Jobs : CompactedLog(Pending)[j] > 0 <=> j \in Pending
      /\ \A j, k \in Pending : CompactedLog(Pending)[j] = CompactedLog(Pending)[k] => j = k
  BY CompactedLogLines DEF Pending
<1>4. /\ queue' \in [Gens -> [Sessions -> Seq(Jobs)]]
      /\ \A s \in Sessions : queue'[gen][s] = RecoveredQueue(s)
      /\ \A g \in Gens \ {gen} : queue'[g] = [s \in Sessions |-> <<>>]
      /\ line' = CompactedLog(Pending) /\ phase' = "up"
      /\ UNCHANGED <<gen, active, run, cancel, removing, reported, faults, crashes, fate>>
  BY <1>1, <1>2 DEF Initialize, TypeOK, LaterEmpty, Gens, history
<1>5. TypeOK'
  BY <1>3, <1>4 DEF TypeOK
<1>6. SlotLimit' /\ LaterEmpty'
  BY <1>1, <1>4 DEF SlotLimit, LaterEmpty, Gens
<1>7. Homed'
  BY <1>2, <1>4 DEF Homed
<1>8. NoDuplicate'
  BY <1>2, <1>4 DEF NoDuplicate
<1>9. HeldKnown' /\ LoggedKnown'
  <2>1. \A j \in Pending : fate'[j] # "new"
    BY <1>4 DEF LoggedKnown, Pending
  <2>2. \A g \in Gens, s \in Sessions : \A i \in 1..Len(queue'[g][s]) : queue'[g][s][i] \in Pending
    BY <1>2, <1>4
  <2>3. \A j \in Jobs : line'[j] > 0 => j \in Pending
    BY <1>3, <1>4
  <2> QED BY <2>1, <2>2, <2>3 DEF HeldKnown, LoggedKnown
<1>10. RunHasHead'
  BY <1>4 DEF RunHasHead, LaterEmpty, NoRun, Initialize
<1>11. LineDistinct'
  BY <1>3, <1>4 DEF LineDistinct
<1>12. InLog'
  <2>1. \A j \in Pending : line'[j] > 0
    BY <1>3, <1>4 DEF Pending
  <2> QED BY <2>1, <1>1, <1>2, <1>4 DEF InLog
<1> QED BY <1>5, <1>6, <1>7, <1>8, <1>9, <1>10, <1>11, <1>12

\* Queues that only lose jobs, from the front or from the back.
Shrinks ==
  \A g \in Gens, s \in Sessions : \E d \in {0, 1} : \A i \in 1..Len(queue'[g][s]) :
    i + d \in 1..Len(queue[g][s]) /\ queue'[g][s][i] = queue[g][s][i + d]

\* What they keep is held as before.
LEMMA ShrinkingHolds ==
  ASSUME TypeOK, queue' \in [Gens -> [Sessions -> Seq(Jobs)]], Homed, NoDuplicate, HeldKnown,
         Shrinks, \A j \in Jobs : fate[j] # "new" => fate'[j] # "new"
  PROVE  Homed' /\ NoDuplicate' /\ HeldKnown'
<1>1. Homed'
  <2> SUFFICES ASSUME NEW g \in Gens, NEW s \in Sessions, NEW i \in 1..Len(queue'[g][s])
               PROVE  SessionOf[queue'[g][s][i]] = s
    BY DEF Homed
  <2>1. PICK d \in {0, 1} : i + d \in 1..Len(queue[g][s]) /\ queue'[g][s][i] = queue[g][s][i + d]
    BY DEF Shrinks
  <2> QED BY <2>1 DEF Homed
<1>2. NoDuplicate'
  <2> SUFFICES ASSUME NEW g \in Gens, NEW h \in Gens, NEW s \in Sessions,
                      NEW i \in 1..Len(queue'[g][s]), NEW k \in 1..Len(queue'[h][s]),
                      queue'[g][s][i] = queue'[h][s][k]
               PROVE  g = h /\ i = k
    BY DEF NoDuplicate
  <2>1. PICK d \in {0, 1} : \A m \in 1..Len(queue'[g][s]) :
          m + d \in 1..Len(queue[g][s]) /\ queue'[g][s][m] = queue[g][s][m + d]
    BY DEF Shrinks
  <2>2. PICK e \in {0, 1} : \A m \in 1..Len(queue'[h][s]) :
          m + e \in 1..Len(queue[h][s]) /\ queue'[h][s][m] = queue[h][s][m + e]
    BY DEF Shrinks
  <2>3. i \in Int /\ k \in Int
    OBVIOUS
  <2>a. i + d \in 1..Len(queue[g][s]) /\ k + e \in 1..Len(queue[h][s])
    BY <2>1, <2>2
  <2>b. queue[g][s][i + d] = queue[h][s][k + e]
    <3>1. queue'[g][s][i] = queue[g][s][i + d]
      BY <2>1
    <3>2. queue'[h][s][k] = queue[h][s][k + e]
      BY <2>2
    <3> QED BY <3>1, <3>2
  <2>4. g = h /\ i + d = k + e
    <3>1. \A a \in 1..Len(queue[g][s]) : \A b \in 1..Len(queue[h][s]) :
            queue[g][s][a] = queue[h][s][b] => g = h /\ a = b
      BY DEF NoDuplicate
    <3> QED BY <2>a, <2>b, <3>1
  <2>5. k + d \in 1..Len(queue[g][s]) /\ queue'[g][s][k] = queue[g][s][k + d]
    BY <2>1, <2>4
  <2>6. queue[g][s][k + d] = queue[g][s][k + e]
    BY <2>2, <2>4, <2>5
  <2>7. k + d = k + e
    BY <2>2, <2>4, <2>5, <2>6 DEF NoDuplicate
  <2> QED BY <2>3, <2>4, <2>7
<1>3. HeldKnown'
  <2> SUFFICES ASSUME NEW g \in Gens, NEW s \in Sessions, NEW i \in 1..Len(queue'[g][s])
               PROVE  fate'[queue'[g][s][i]] # "new"
    BY DEF HeldKnown
  <2>1. PICK d \in {0, 1} : i + d \in 1..Len(queue[g][s]) /\ queue'[g][s][i] = queue[g][s][i + d]
    BY DEF Shrinks
  <2>2. queue[g][s][i + d] \in Jobs
    BY <2>1 DEF TypeOK
  <2> QED BY <2>1, <2>2 DEF HeldKnown
<1> QED BY <1>1, <1>2, <1>3

\* Shifting the head of a queue leaves it held nowhere.
LEMMA HeadLeaves ==
  ASSUME TypeOK, Homed, NoDuplicate, NEW g \in Gens, NEW s \in Sessions, queue[g][s] # <<>>,
         queue' = [queue EXCEPT ![g][s] = Tail(@)]
  PROVE  /\ queue' \in [Gens -> [Sessions -> Seq(Jobs)]]
         /\ Shrinks
         /\ Head(queue[g][s]) \in Jobs
         /\ \A h \in Gens, t \in Sessions : \A i \in 1..Len(queue'[h][t]) :
              queue'[h][t][i] # Head(queue[g][s])
<1>1. queue[g][s] \in Seq(Jobs)
  BY DEF TypeOK
<1>2. /\ Head(queue[g][s]) \in Jobs /\ Head(queue[g][s]) = queue[g][s][1]
      /\ 1 \in 1..Len(queue[g][s])
      /\ Tail(queue[g][s]) \in Seq(Jobs)
      /\ \A i \in 1..Len(Tail(queue[g][s])) :
           i + 1 \in 1..Len(queue[g][s]) /\ Tail(queue[g][s])[i] = queue[g][s][i + 1]
  BY <1>1
<1>3. queue' \in [Gens -> [Sessions -> Seq(Jobs)]]
  BY <1>2 DEF TypeOK
<1>4. queue'[g][s] = Tail(queue[g][s])
  BY DEF TypeOK
<1>5. \A h \in Gens, t \in Sessions : h # g \/ t # s => queue'[h][t] = queue[h][t]
  BY DEF TypeOK
<1>6. Shrinks
  <2> SUFFICES ASSUME NEW h \in Gens, NEW t \in Sessions
               PROVE  \E d \in {0, 1} : \A i \in 1..Len(queue'[h][t]) :
                        i + d \in 1..Len(queue[h][t]) /\ queue'[h][t][i] = queue[h][t][i + d]
    BY DEF Shrinks
  <2>1. CASE h = g /\ t = s
    BY <1>2, <1>4, <2>1
  <2>2. CASE h # g \/ t # s
    <3>1. \A i \in 1..Len(queue'[h][t]) :
            i + 0 \in 1..Len(queue[h][t]) /\ queue'[h][t][i] = queue[h][t][i + 0]
      BY <1>5, <2>2
    <3> QED BY <3>1
  <2> QED BY <2>1, <2>2
<1>7. ASSUME NEW h \in Gens, NEW t \in Sessions, NEW i \in 1..Len(queue'[h][t])
      PROVE  queue'[h][t][i] # Head(queue[g][s])
  <2>1. CASE h = g /\ t = s
    <3>1. i + 1 \in 1..Len(queue[g][s]) /\ queue'[h][t][i] = queue[g][s][i + 1]
      BY <1>2, <1>4, <2>1
    <3>2. i + 1 # 1
      OBVIOUS
    <3>3. \A a, b \in 1..Len(queue[g][s]) : queue[g][s][a] = queue[g][s][b] => a = b
      BY DEF NoDuplicate
    <3> QED BY <1>2, <3>1, <3>2, <3>3
  <2>2. CASE h # g /\ t = s
    <3>1. i \in 1..Len(queue[h][s]) /\ queue'[h][t][i] = queue[h][s][i]
      BY <1>5, <2>2
    <3>2. queue[h][s][i] = queue[g][s][1] => h = g
      BY <1>2, <3>1, Zenon DEF NoDuplicate
    <3> QED BY <1>2, <2>2, <3>1, <3>2
  <2>3. CASE t # s
    <3>1. i \in 1..Len(queue[h][t]) /\ queue'[h][t][i] = queue[h][t][i]
      BY <1>5, <2>3
    <3>2. SessionOf[queue[h][t][i]] = t /\ SessionOf[queue[g][s][1]] = s
      BY <1>2, <3>1 DEF Homed
    <3> QED BY <1>2, <2>3, <3>1, <3>2
  <2> QED BY <2>1, <2>2, <2>3
<1> QED BY <1>2, <1>3, <1>6, <1>7

\* Appending a job held nowhere keeps every job in one place.
LEMMA AppendingHolds ==
  ASSUME TypeOK, Homed, NoDuplicate, HeldKnown, NEW g \in Gens, NEW j \in Jobs, fate[j] = "new",
         queue' = [queue EXCEPT ![g][SessionOf[j]] = Append(@, j)],
         fate' = [fate EXCEPT ![j] = "pending"]
  PROVE  /\ queue' \in [Gens -> [Sessions -> Seq(Jobs)]]
         /\ Homed' /\ NoDuplicate' /\ HeldKnown'
         /\ \A h \in Gens, t \in Sessions : \A i \in 1..Len(queue'[h][t]) :
              \/ queue'[h][t][i] = j
              \/ i \in 1..Len(queue[h][t]) /\ queue'[h][t][i] = queue[h][t][i]
         /\ \A h \in Gens, t \in Sessions : queue[h][t] # <<>> => queue'[h][t] # <<>>
         /\ \A h \in Gens : h # g => queue'[h] = queue[h]
<1> DEFINE u == SessionOf[j]
<1>1. u \in Sessions /\ queue[g][u] \in Seq(Jobs)
  BY JobQueueAssumption DEF JobQueueAssumption, TypeOK
<1>2. /\ queue'[g][u] = Append(queue[g][u], j)
      /\ \A h \in Gens, t \in Sessions : h # g \/ t # u => queue'[h][t] = queue[h][t]
      /\ \A h \in Gens : h # g => queue'[h] = queue[h]
  BY <1>1 DEF TypeOK
<1>3. queue' \in [Gens -> [Sessions -> Seq(Jobs)]]
  BY <1>1 DEF TypeOK
<1>4. \A h \in Gens, t \in Sessions : \A i \in 1..Len(queue'[h][t]) :
        \/ h = g /\ t = u /\ i = Len(queue[g][u]) + 1 /\ queue'[h][t][i] = j
        \/ i \in 1..Len(queue[h][t]) /\ queue'[h][t][i] = queue[h][t][i]
  <2> HIDE DEF u
  <2> QED BY <1>1, <1>2
<1>5. \A h \in Gens, t \in Sessions : \A i \in 1..Len(queue[h][t]) : queue[h][t][i] # j
  BY DEF HeldKnown
<1>6. Homed'
  BY <1>4 DEF Homed
<1>7. NoDuplicate'
  <2> SUFFICES ASSUME NEW f \in Gens, NEW h \in Gens, NEW t \in Sessions,
                      NEW i \in 1..Len(queue'[f][t]), NEW k \in 1..Len(queue'[h][t]),
                      queue'[f][t][i] = queue'[h][t][k]
               PROVE  f = h /\ i = k
    BY DEF NoDuplicate
  <2>1. CASE queue'[f][t][i] = j
    <3>1. f = g /\ i = Len(queue[g][u]) + 1
      BY <1>4, <1>5, <2>1
    <3>2. h = g /\ k = Len(queue[g][u]) + 1
      BY <1>4, <1>5, <2>1
    <3> QED BY <3>1, <3>2
  <2>2. CASE queue'[f][t][i] # j
    <3>1. i \in 1..Len(queue[f][t]) /\ queue'[f][t][i] = queue[f][t][i]
      BY <1>4, <2>2
    <3>2. k \in 1..Len(queue[h][t]) /\ queue'[h][t][k] = queue[h][t][k]
      BY <1>4, <2>2
    <3> QED BY <3>1, <3>2 DEF NoDuplicate
  <2> QED BY <2>1, <2>2
<1>8. HeldKnown'
  <2> SUFFICES ASSUME NEW h \in Gens, NEW t \in Sessions, NEW i \in 1..Len(queue'[h][t])
               PROVE  fate'[queue'[h][t][i]] # "new"
    BY DEF HeldKnown
  <2>1. CASE queue'[h][t][i] = j
    BY <2>1 DEF TypeOK
  <2>2. CASE queue'[h][t][i] # j
    <3>1. i \in 1..Len(queue[h][t]) /\ queue'[h][t][i] = queue[h][t][i]
      BY <1>4, <2>2
    <3>a. queue[h][t][i] \in Jobs
      BY <3>1 DEF TypeOK
    <3>2. fate'[queue'[h][t][i]] = fate[queue[h][t][i]]
      BY <3>1, <3>a, <2>2 DEF TypeOK
    <3> QED BY <3>1, <3>2 DEF HeldKnown
  <2> QED BY <2>1, <2>2
<1>9. \A h \in Gens, t \in Sessions : queue[h][t] # <<>> => queue'[h][t] # <<>>
  <2> SUFFICES ASSUME NEW h \in Gens, NEW t \in Sessions, queue[h][t] # <<>>
               PROVE  queue'[h][t] # <<>>
    OBVIOUS
  <2>1. CASE h = g /\ t = u
    BY <1>1, <1>2, <2>1
  <2>2. CASE h # g \/ t # u
    BY <1>2, <2>2
  <2> QED BY <2>1, <2>2
<1> QED BY <1>2, <1>3, <1>4, <1>6, <1>7, <1>8, <1>9

\* An enqueue keeps it, whichever of its writes fails.
LEMMA EnqueueIInv == ASSUME NEW j \in Jobs, IInv, Enqueue(j) PROVE IInv'
<1>1. /\ TypeOK /\ SlotLimit /\ Homed /\ NoDuplicate /\ HeldKnown /\ LoggedKnown
      /\ LaterEmpty /\ RunHasHead /\ LineDistinct /\ InLog
  BY DEF IInv
<1>2. /\ phase # "down" /\ fate[j] = "new" /\ fate' = [fate EXCEPT ![j] = "pending"]
      /\ queue' = [queue EXCEPT ![gen][SessionOf[j]] = Append(@, j)]
      /\ Dispatch(queue', active, run, cancel, reported, faults)
      /\ UNCHANGED <<phase, gen, removing, crashes>>
  BY DEF Enqueue
<1>3. PICK n \in 1..Cardinality(Jobs) : AppendedAt(n) /\ line' = [line EXCEPT ![j] = n]
  BY DEF Enqueue
<1>4. n \in Nat /\ n > 0 /\ \A k \in Jobs : line[k] < n
  <2>1. Cardinality(Jobs) \in Nat
    BY JobQueueAssumption, FS_CardinalityType DEF JobQueueAssumption
  <2> QED BY <1>3, <2>1 DEF AppendedAt
<1>5. gen \in Gens
  BY <1>1 DEF TypeOK
<1>6. /\ queue' \in [Gens -> [Sessions -> Seq(Jobs)]]
      /\ Homed' /\ NoDuplicate' /\ HeldKnown'
      /\ \A h \in Gens, t \in Sessions : \A i \in 1..Len(queue'[h][t]) :
           \/ queue'[h][t][i] = j
           \/ i \in 1..Len(queue[h][t]) /\ queue'[h][t][i] = queue[h][t][i]
      /\ \A h \in Gens, t \in Sessions : queue[h][t] # <<>> => queue'[h][t] # <<>>
      /\ \A h \in Gens : h # gen => queue'[h] = queue[h]
  BY <1>1, <1>2, <1>5, AppendingHolds
<1>7. /\ active' \in [Gens -> SUBSET Sessions]
      /\ \A g \in Gens : Cardinality(active'[g]) <= MaxConcurrent
      /\ run' \in [Gens -> [Sessions -> RunState]]
      /\ \A g \in Gens : active[g] \subseteq active'[g]
      /\ \A g \in Gens, s \in Sessions :
           run'[g][s] # "none" =>
             run[g][s] # "none" \/ (g = gen /\ s \in active'[gen] /\ queue'[gen][s] # <<>>)
      /\ cancel' \in [Sessions -> 0..MaxGen]
      /\ reported' \in SUBSET Sessions
      /\ faults' \in 0..MaxFaults
  <2>1. /\ active \in [Gens -> SUBSET Sessions] /\ run \in [Gens -> [Sessions -> RunState]]
        /\ cancel \in [Sessions -> 0..MaxGen] /\ reported \in SUBSET Sessions
        /\ faults \in 0..MaxFaults
        /\ \A g \in Gens : Cardinality(active[g]) <= MaxConcurrent
    BY <1>1 DEF TypeOK, SlotLimit
  <2>2. Dispatch(queue', active, run, cancel, reported, faults)
    BY <1>2
  <2> QED BY <1>5, <2>1, <2>2, DispatchFacts, Zenon
<1>8. TypeOK'
  <2>1. line' \in [Jobs -> Nat] /\ fate' \in [Jobs -> {"new", "pending"} \cup Final]
    BY <1>1, <1>2, <1>3, <1>4 DEF TypeOK
  <2> QED BY <1>1, <1>2, <1>6, <1>7, <2>1 DEF TypeOK
<1>9. SlotLimit'
  BY <1>7 DEF SlotLimit
<1>10. LoggedKnown'
  BY <1>1, <1>2, <1>3 DEF LoggedKnown, TypeOK
<1>11. LaterEmpty'
  BY <1>1, <1>2, <1>5, <1>6 DEF LaterEmpty, Gens
<1>12. RunHasHead'
  <2> SUFFICES ASSUME NEW g \in Gens, NEW s \in Sessions, run'[g][s] # "none"
               PROVE  s \in active'[g] /\ queue'[g][s] # <<>>
    BY DEF RunHasHead
  <2>1. CASE run[g][s] # "none"
    BY <1>1, <1>6, <1>7, <2>1 DEF RunHasHead
  <2>2. CASE run[g][s] = "none"
    BY <1>7, <2>2
  <2> QED BY <2>1, <2>2
<1>13. LineDistinct'
  <2>1. \A k \in Jobs : k # j => line'[k] = line[k] /\ line'[k] # n
    BY <1>1, <1>3, <1>4 DEF TypeOK
  <2>2. line'[j] = n
    BY <1>1, <1>3 DEF TypeOK
  <2> QED BY <1>1, <2>1, <2>2 DEF LineDistinct
<1>14. InLog'
  <2> SUFFICES ASSUME NEW s \in Sessions, NEW i \in 1..Len(queue'[gen][s])
               PROVE  line'[queue'[gen][s][i]] > 0
    BY <1>2 DEF InLog
  <2>1. line'[j] > 0
    BY <1>1, <1>3, <1>4 DEF TypeOK
  <2>2. CASE queue'[gen][s][i] # j
    <3>1. i \in 1..Len(queue[gen][s]) /\ queue'[gen][s][i] = queue[gen][s][i]
      BY <1>5, <1>6, <2>2
    <3>2. line[queue[gen][s][i]] > 0
      BY <1>1, <1>2, <3>1 DEF InLog
    <3>3. queue[gen][s][i] \in Jobs
      BY <1>1, <1>5, <3>1 DEF TypeOK
    <3>4. line'[queue[gen][s][i]] = line[queue[gen][s][i]]
      BY <1>1, <1>3, <2>2, <3>1, <3>3 DEF TypeOK
    <3> QED BY <3>1, <3>2, <3>4
  <2> QED BY <2>1, <2>2
<1> QED BY <1>6, <1>8, <1>9, <1>10, <1>11, <1>12, <1>13, <1>14 DEF IInv

\* The end of a run's loop, whichever way it goes, keeps the runs in bounds and
\* leaves a run only where a job of a slot holder is at the head.
LEMMA LoopEnd ==
  ASSUME IInv, NEW g \in Gens, NEW s \in Sessions, s \in active[g],
         queue' = [queue EXCEPT ![g][s] = Tail(@)],
         IF queue'[g][s] # <<>> THEN StartNext(g, s) ELSE ReleaseSlot(g, s)
  PROVE  /\ active' \in [Gens -> SUBSET Sessions]
         /\ SlotLimit'
         /\ run' \in [Gens -> [Sessions -> RunState]]
         /\ RunHasHead'
         /\ cancel' \in [Sessions -> 0..MaxGen]
         /\ reported' \in SUBSET Sessions
         /\ faults' \in 0..MaxFaults
<1>1. /\ gen \in Gens /\ active \in [Gens -> SUBSET Sessions] /\ run \in [Gens -> [Sessions -> RunState]]
      /\ cancel \in [Sessions -> 0..MaxGen] /\ reported \in SUBSET Sessions
      /\ faults \in 0..MaxFaults
      /\ \A h \in Gens : Cardinality(active[h]) <= MaxConcurrent
  BY DEF IInv, TypeOK, SlotLimit
<1>2. \A h \in Gens, t \in Sessions : h # g \/ t # s => queue'[h][t] = queue[h][t]
  BY DEF IInv, TypeOK
<1>3. \A h \in Gens, t \in Sessions : run[h][t] # "none" => t \in active[h] /\ queue[h][t] # <<>>
  BY DEF IInv, RunHasHead
<1>4. CASE queue'[g][s] # <<>>
  <2>1. PICK broken \in BOOLEAN :
          /\ (IF broken THEN faults + 1 ELSE faults) <= MaxFaults
          /\ faults' = IF broken THEN faults + 1 ELSE faults
          /\ run' = [run EXCEPT ![g][s] = IF broken THEN "none" ELSE "running"]
          /\ cancel' = [cancel EXCEPT ![s] = g]
          /\ reported' = IF broken THEN reported ELSE active[gen]
          /\ active' = active
    BY <1>4 DEF StartNext
  <2>2. faults' \in 0..MaxFaults
    BY <1>1, <2>1, JobQueueAssumption DEF JobQueueAssumption
  <2>3. run' \in [Gens -> [Sessions -> RunState]]
    BY <1>1, <2>1 DEF RunState
  <2>4. cancel' \in [Sessions -> 0..MaxGen] /\ reported' \in SUBSET Sessions
    BY <1>1, <2>1 DEF Gens
  <2>5. SlotLimit' /\ active' \in [Gens -> SUBSET Sessions]
    BY <1>1, <2>1 DEF SlotLimit
  <2>6. RunHasHead'
    <3> SUFFICES ASSUME NEW h \in Gens, NEW t \in Sessions, run'[h][t] # "none"
                 PROVE  t \in active'[h] /\ queue'[h][t] # <<>>
      BY DEF RunHasHead
    <3>1. CASE h = g /\ t = s
      BY <1>4, <2>1, <3>1
    <3>2. CASE h # g \/ t # s
      <4>1. run'[h][t] = run[h][t]
        BY <1>1, <2>1, <3>2
      <4> QED BY <1>2, <1>3, <2>1, <3>2, <4>1
    <3> QED BY <3>1, <3>2
  <2> QED BY <2>2, <2>3, <2>4, <2>5, <2>6
<1>5. CASE queue'[g][s] = <<>>
  <2> DEFINE act == [active EXCEPT ![g] = @ \ {s}]
             rn  == [run EXCEPT ![g][s] = "none"]
             cn  == [cancel EXCEPT ![s] = 0]
  <2>1. /\ act \in [Gens -> SUBSET Sessions]
        /\ rn \in [Gens -> [Sessions -> RunState]]
        /\ cn \in [Sessions -> 0..MaxGen]
        /\ act[gen] \in SUBSET Sessions
    <3>1. rn \in [Gens -> [Sessions -> RunState]]
      BY <1>1 DEF RunState
    <3>2. act \in [Gens -> SUBSET Sessions] /\ act[gen] \in SUBSET Sessions
      BY <1>1
    <3>3. cn \in [Sessions -> 0..MaxGen]
      BY <1>1, JobQueueAssumption DEF JobQueueAssumption
    <3> QED BY <3>1, <3>2, <3>3
  <2>2. \A h \in Gens : Cardinality(act[h]) <= MaxConcurrent
    <3> SUFFICES ASSUME NEW h \in Gens PROVE Cardinality(act[h]) <= MaxConcurrent
      OBVIOUS
    <3>1. act[h] \in SUBSET active[h] /\ active[h] \in SUBSET Sessions
      BY <1>1
    <3>2. IsFiniteSet(active[h])
      BY <3>1, FS_Subset, JobQueueAssumption DEF JobQueueAssumption
    <3>3. Cardinality(act[h]) <= Cardinality(active[h]) /\ IsFiniteSet(act[h])
      BY <3>1, <3>2, FS_Subset, Zenon
    <3>4. Cardinality(act[h]) \in Nat /\ Cardinality(active[h]) \in Nat
      BY <3>2, <3>3, FS_CardinalityType
    <3> QED BY <1>1, <3>3, <3>4, JobQueueAssumption DEF JobQueueAssumption
  <2>3. \A h \in Gens, t \in Sessions :
          rn[h][t] # "none" => t \in act[h] /\ queue'[h][t] # <<>>
    <3> SUFFICES ASSUME NEW h \in Gens, NEW t \in Sessions, rn[h][t] # "none"
                 PROVE  t \in act[h] /\ queue'[h][t] # <<>>
      OBVIOUS
    <3>1. (h # g \/ t # s) /\ run[h][t] # "none"
      BY <1>1
    <3> QED BY <1>1, <1>2, <1>3, <3>1
  <2>4. \/ Dispatch(queue', act, rn, cn, act[gen], faults)
        \/ /\ faults < MaxFaults /\ faults' = faults + 1
           /\ active' = act /\ run' = rn /\ cancel' = cn
           /\ UNCHANGED reported
    BY <1>5 DEF ReleaseSlot
  <2> HIDE DEF act, rn, cn
  <2>5. CASE Dispatch(queue', act, rn, cn, act[gen], faults)
    <3>1. /\ active' \in [Gens -> SUBSET Sessions]
          /\ \A h \in Gens : Cardinality(active'[h]) <= MaxConcurrent
          /\ run' \in [Gens -> [Sessions -> RunState]]
          /\ \A h \in Gens : act[h] \subseteq active'[h]
          /\ \A h \in Gens, t \in Sessions :
               run'[h][t] # "none" =>
                 rn[h][t] # "none" \/ (h = gen /\ t \in active'[gen] /\ queue'[gen][t] # <<>>)
          /\ cancel' \in [Sessions -> 0..MaxGen]
          /\ reported' \in SUBSET Sessions
          /\ faults' \in 0..MaxFaults
      <4>1. /\ act \in [Gens -> SUBSET Sessions] /\ rn \in [Gens -> [Sessions -> RunState]]
            /\ cn \in [Sessions -> 0..MaxGen] /\ act[gen] \in SUBSET Sessions
            /\ faults \in 0..MaxFaults /\ gen \in Gens
        BY <1>1, <2>1
        <4> QED BY ONLY <4>1, <2>2, <2>5, DispatchFacts, ZenonT(60)
    <3>2. RunHasHead'
      BY <2>3, <3>1 DEF RunHasHead
    <3> QED BY <3>1, <3>2 DEF SlotLimit
  <2>6. CASE /\ faults < MaxFaults /\ faults' = faults + 1
             /\ active' = act /\ run' = rn /\ cancel' = cn
             /\ UNCHANGED reported
    <3>1. faults' \in 0..MaxFaults
      BY <1>1, <2>6, JobQueueAssumption DEF JobQueueAssumption
    <3>2. SlotLimit' /\ RunHasHead'
      BY <2>2, <2>3, <2>6 DEF SlotLimit, RunHasHead
    <3> QED BY <1>1, <2>1, <2>6, <3>1, <3>2
  <2> QED BY <2>4, <2>5, <2>6
<1> QED BY <1>4, <1>5

\* The run that ends has a job, and it is a run of the maps up to the current ones.
LEMMA RunFacts ==
  ASSUME IInv, NEW g \in Gens, NEW s \in Sessions, run[g][s] # "none"
  PROVE  s \in active[g] /\ queue[g][s] # <<>> /\ phase # "down" /\ ~(g > gen)
<1>1. s \in active[g] /\ queue[g][s] # <<>>
  BY DEF IInv, RunHasHead
<1>2. phase # "down"
  BY DEF IInv, LaterEmpty, NoRun
<1>3. ~(g > gen)
  BY <1>1 DEF IInv, LaterEmpty
<1> QED BY <1>1, <1>2, <1>3

\* With the head of a queue shifted, and its line kept or deleted, memory and log
\* still agree on where the other jobs are.
LEMMA ShiftKeeps ==
  ASSUME IInv, NEW g \in Gens, NEW s \in Sessions, run[g][s] # "none",
         queue' = [queue EXCEPT ![g][s] = Tail(@)],
         NEW outcome \in Outcomes,
         \/ /\ line' = [line EXCEPT ![Head(queue[g][s])] = 0]
            /\ fate' = [fate EXCEPT ![Head(queue[g][s])] = outcome]
         \/ UNCHANGED <<line, fate>>,
         UNCHANGED <<phase, gen>>
  PROVE  /\ queue' \in [Gens -> [Sessions -> Seq(Jobs)]]
         /\ line' \in [Jobs -> Nat] /\ fate' \in [Jobs -> {"new", "pending"} \cup Final]
         /\ Homed' /\ NoDuplicate' /\ HeldKnown' /\ LoggedKnown'
         /\ \A h \in Gens : h > gen => queue'[h] = [t \in Sessions |-> <<>>]
         /\ LineDistinct' /\ InLog'
<1> DEFINE job == Head(queue[g][s])
<1>1. s \in active[g] /\ queue[g][s] # <<>> /\ phase # "down" /\ ~(g > gen)
  BY RunFacts
<1>2. /\ queue' \in [Gens -> [Sessions -> Seq(Jobs)]]
      /\ Shrinks
      /\ job \in Jobs
      /\ \A h \in Gens, t \in Sessions : \A i \in 1..Len(queue'[h][t]) : queue'[h][t][i] # job
  BY <1>1, HeadLeaves DEF IInv
<1>3. TypeOK /\ gen \in Gens /\ line \in [Jobs -> Nat] /\ fate \in [Jobs -> {"new", "pending"} \cup Final]
  BY DEF IInv, TypeOK
<1>4. outcome \in Final /\ outcome # "new"
  BY DEF Final, Outcomes
<1> HIDE DEF job
<1>5. /\ line' = [line EXCEPT ![job] = 0] \/ line' = line
      /\ fate' = [fate EXCEPT ![job] = outcome] \/ fate' = fate
  BY DEF job
<1>6. line' \in [Jobs -> Nat] /\ fate' \in [Jobs -> {"new", "pending"} \cup Final]
  <2>1. [line EXCEPT ![job] = 0] \in [Jobs -> Nat]
    BY <1>3
  <2>2. [fate EXCEPT ![job] = outcome] \in [Jobs -> {"new", "pending"} \cup Final]
    BY <1>3, <1>4
  <2> QED BY <1>3, <1>5, <2>1, <2>2
<1>7. \A j \in Jobs : fate[j] # "new" => fate'[j] # "new"
  BY <1>3, <1>4, <1>5
<1>8. Homed' /\ NoDuplicate' /\ HeldKnown'
  BY <1>2, <1>7, ShrinkingHolds DEF IInv
<1>9. \A j \in Jobs : line'[j] > 0 => line'[j] = line[j]
  BY <1>3, <1>5
<1>10. LoggedKnown' /\ LineDistinct'
  BY <1>3, <1>7, <1>9 DEF IInv, LoggedKnown, LineDistinct
<1>11. \A h \in Gens : h > gen => queue'[h] = [t \in Sessions |-> <<>>]
  <2>1. \A h \in Gens : h # g => queue'[h] = queue[h]
    BY <1>3 DEF TypeOK
  <2> QED BY <1>1, <2>1 DEF IInv, LaterEmpty
<1>12. InLog'
  <2> SUFFICES ASSUME NEW t \in Sessions, NEW i \in 1..Len(queue'[gen][t])
               PROVE  line'[queue'[gen][t][i]] > 0
    BY DEF InLog
  <2>1. PICK d \in {0, 1} : i + d \in 1..Len(queue[gen][t]) /\ queue'[gen][t][i] = queue[gen][t][i + d]
    BY <1>2, <1>3 DEF Shrinks
  <2>2. queue[gen][t][i + d] \in Jobs
    BY <1>3, <2>1 DEF TypeOK
  <2>3. line[queue[gen][t][i + d]] > 0
    BY <1>1, <2>1 DEF IInv, InLog
  <2>4. queue'[gen][t][i] # job
    BY <1>2, <1>3
  <2>5. line'[queue'[gen][t][i]] = line[queue[gen][t][i + d]]
    BY <1>3, <1>5, <2>1, <2>2, <2>4
  <2> QED BY <2>3, <2>5
<1> QED BY <1>2, <1>6, <1>8, <1>10, <1>11, <1>12

\* So does the end of a run whose terminal event is written ...
LEMMA FinishIInv ==
  ASSUME NEW g \in Gens, NEW s \in Sessions, NEW outcome \in Outcomes, IInv, Finish(g, s, outcome)
  PROVE  IInv'
<1>1. s \in active[g] /\ queue[g][s] # <<>> /\ phase # "down" /\ ~(g > gen)
  BY RunFacts DEF Finish
<1>2. /\ run[g][s] # "none"
      /\ line' = [line EXCEPT ![Head(queue[g][s])] = 0]
      /\ fate' = [fate EXCEPT ![Head(queue[g][s])] = outcome]
      /\ queue' = [queue EXCEPT ![g][s] = Tail(@)]
      /\ UNCHANGED <<phase, gen, removing, crashes>>
  BY DEF Finish, Settle
<1>3. IF queue'[g][s] # <<>> THEN StartNext(g, s) ELSE ReleaseSlot(g, s)
  <2>1. queue'[g][s] = Tail(queue[g][s])
    BY <1>2 DEF IInv, TypeOK
  <2> QED BY <2>1 DEF Finish
<1>4. /\ queue' \in [Gens -> [Sessions -> Seq(Jobs)]]
      /\ line' \in [Jobs -> Nat] /\ fate' \in [Jobs -> {"new", "pending"} \cup Final]
      /\ Homed' /\ NoDuplicate' /\ HeldKnown' /\ LoggedKnown'
      /\ \A h \in Gens : h > gen => queue'[h] = [t \in Sessions |-> <<>>]
      /\ LineDistinct' /\ InLog'
  BY <1>2, ShiftKeeps
<1>5. /\ active' \in [Gens -> SUBSET Sessions]
      /\ SlotLimit'
      /\ run' \in [Gens -> [Sessions -> RunState]]
      /\ RunHasHead'
      /\ cancel' \in [Sessions -> 0..MaxGen]
      /\ reported' \in SUBSET Sessions
      /\ faults' \in 0..MaxFaults
  BY <1>1, <1>2, <1>3, LoopEnd
<1>6. TypeOK'
  BY <1>2, <1>4, <1>5 DEF IInv, TypeOK
<1>7. LaterEmpty'
  BY <1>1, <1>2, <1>4 DEF LaterEmpty
<1> QED BY <1>4, <1>5, <1>6, <1>7 DEF IInv

\* ... and that of a run whose terminal event is lost.
LEMMA FinishThrowsIInv ==
  ASSUME NEW g \in Gens, NEW s \in Sessions, NEW logged \in BOOLEAN, IInv, FinishThrows(g, s, logged)
  PROVE  IInv'
<1>1. s \in active[g] /\ queue[g][s] # <<>> /\ phase # "down" /\ ~(g > gen)
  BY RunFacts DEF FinishThrows
<1>2. /\ run[g][s] # "none"
      /\ faults < MaxFaults /\ faults' = faults + 1
      /\ queue' = [queue EXCEPT ![g][s] = Tail(@)]
      /\ run' = [run EXCEPT ![g][s] = "none"]
      /\ cancel' = [cancel EXCEPT ![s] = 0]
      /\ UNCHANGED <<phase, gen, active, removing, reported, crashes>>
  BY DEF FinishThrows
<1>3. \/ /\ line' = [line EXCEPT ![Head(queue[g][s])] = 0]
         /\ fate' = [fate EXCEPT ![Head(queue[g][s])] = "fail"]
      \/ UNCHANGED <<line, fate>>
  BY DEF FinishThrows, Settle
<1>4. /\ queue' \in [Gens -> [Sessions -> Seq(Jobs)]]
      /\ line' \in [Jobs -> Nat] /\ fate' \in [Jobs -> {"new", "pending"} \cup Final]
      /\ Homed' /\ NoDuplicate' /\ HeldKnown' /\ LoggedKnown'
      /\ \A h \in Gens : h > gen => queue'[h] = [t \in Sessions |-> <<>>]
      /\ LineDistinct' /\ InLog'
  <2>1. "fail" \in Outcomes
    BY DEF Outcomes
  <2> QED BY <1>2, <1>3, <2>1, ShiftKeeps
<1>5. TypeOK'
  <2>1. run' \in [Gens -> [Sessions -> RunState]]
    BY <1>2 DEF IInv, TypeOK, RunState
  <2>2. cancel' \in [Sessions -> 0..MaxGen] /\ faults' \in 0..MaxFaults
    BY <1>2, JobQueueAssumption DEF IInv, TypeOK, JobQueueAssumption
  <2> QED BY <1>2, <1>4, <2>1, <2>2 DEF IInv, TypeOK
<1>6. SlotLimit'
  BY <1>2 DEF IInv, SlotLimit
<1>7. LaterEmpty'
  BY <1>1, <1>2, <1>4 DEF LaterEmpty
<1>8. RunHasHead'
  <2> SUFFICES ASSUME NEW h \in Gens, NEW t \in Sessions, run'[h][t] # "none"
               PROVE  t \in active'[h] /\ queue'[h][t] # <<>>
    BY DEF RunHasHead
  <2>1. (h # g \/ t # s) /\ run[h][t] # "none"
    BY <1>2 DEF IInv, TypeOK
  <2>2. queue'[h][t] = queue[h][t]
    BY <1>2, <2>1 DEF IInv, TypeOK
  <2> QED BY <1>2, <2>1, <2>2 DEF IInv, RunHasHead
<1> QED BY <1>4, <1>5, <1>6, <1>7, <1>8 DEF IInv

\* The last fact about /stop: what it keeps is the head of a session that runs.
LEMMA StopIInv ==
  ASSUME NEW s \in Sessions, NEW rewritten \in BOOLEAN, IInv, Stop(s, rewritten)
  PROVE  IInv'
<1>1. /\ TypeOK /\ SlotLimit /\ Homed /\ NoDuplicate /\ HeldKnown /\ LoggedKnown
      /\ LaterEmpty /\ RunHasHead /\ LineDistinct /\ InLog /\ gen \in Gens
  BY DEF IInv, TypeOK
<1>2. /\ phase # "down"
      /\ queue' = [queue EXCEPT ![gen][s] = Kept(s)]
      /\ faults' = IF rewritten THEN faults ELSE faults + 1
      /\ faults' <= MaxFaults
      /\ UNCHANGED <<phase, gen, active, cancel, removing, reported, crashes>>
  BY DEF Stop
<1>3. \/ UNCHANGED <<line, fate>>
      \/ /\ line' = CompactedLog(JobsIn(queue'[gen]))
         /\ \E dropped : fate' = [j \in Jobs |-> IF j \in dropped THEN "dropped" ELSE fate[j]]
  BY DEF Stop
<1>4. run' = run \/ \E g \in Gens : run[g][s] = "running" /\ run' = [run EXCEPT ![g][s] = "aborted"]
  <2>1. cancel[s] # 0 => cancel[s] \in Gens
    BY <1>1, JobQueueAssumption DEF TypeOK, Gens, JobQueueAssumption
  <2> QED BY <2>1 DEF Stop
<1>a. /\ run' \in [Gens -> [Sessions -> RunState]]
      /\ \A g \in Gens, t \in Sessions : run'[g][t] # "none" => run[g][t] # "none"
  <2>0. run \in [Gens -> [Sessions -> RunState]] /\ "aborted" \in RunState
    BY <1>1 DEF TypeOK, RunState
  <2>1. CASE run' = run
    BY <2>0, <2>1
  <2>2. CASE run' # run
    <3>1. PICK g \in Gens : run[g][s] = "running" /\ run' = [run EXCEPT ![g][s] = "aborted"]
      BY <1>4, <2>2
    <3>2. run' \in [Gens -> [Sessions -> RunState]]
      BY <2>0, <3>1
    <3>3. \A h \in Gens, t \in Sessions :
            run'[h][t] = IF h = g /\ t = s THEN "aborted" ELSE run[h][t]
      BY <2>0, <3>1
    <3> QED BY <3>1, <3>2, <3>3
  <2> QED BY <2>1, <2>2
<1>5. queue[gen][s] \in Seq(Jobs)
  BY <1>1 DEF TypeOK
<1>6. /\ Kept(s) \in Seq(Jobs)
      /\ \A i \in 1..Len(Kept(s)) : i \in 1..Len(queue[gen][s]) /\ Kept(s)[i] = queue[gen][s][i]
      /\ s \in active[gen] /\ queue[gen][s] # <<>> => Kept(s) # <<>>
  BY <1>5 DEF Kept
<1>7. /\ queue' \in [Gens -> [Sessions -> Seq(Jobs)]]
      /\ queue'[gen][s] = Kept(s)
      /\ \A g \in Gens, t \in Sessions : g # gen \/ t # s => queue'[g][t] = queue[g][t]
      /\ \A g \in Gens : g # gen => queue'[g] = queue[g]
  BY <1>1, <1>2, <1>6 DEF TypeOK
<1>8. Shrinks
  <2> SUFFICES ASSUME NEW g \in Gens, NEW t \in Sessions
               PROVE  \A i \in 1..Len(queue'[g][t]) :
                        i + 0 \in 1..Len(queue[g][t]) /\ queue'[g][t][i] = queue[g][t][i + 0]
    BY DEF Shrinks
  <2>1. CASE g = gen /\ t = s
    BY <1>6, <1>7, <2>1
  <2>2. CASE g # gen \/ t # s
    BY <1>7, <2>2
  <2> QED BY <2>1, <2>2
<1>9. fate' \in [Jobs -> {"new", "pending"} \cup Final] /\ \A j \in Jobs : fate[j] # "new" => fate'[j] # "new"
  BY <1>1, <1>3 DEF TypeOK, Final
<1>10. Homed' /\ NoDuplicate' /\ HeldKnown'
  BY <1>1, <1>7, <1>8, <1>9, ShrinkingHolds
<1>11. JobsIn(queue'[gen]) \in SUBSET Jobs
  BY <1>1, <1>7 DEF JobsIn
<1>12. line' \in [Jobs -> Nat] /\ LineDistinct' /\ LoggedKnown' /\ InLog'
  <2>1. CASE UNCHANGED <<line, fate>>
    <3>1. line' \in [Jobs -> Nat] /\ LineDistinct' /\ LoggedKnown'
      BY <1>1, <2>1 DEF TypeOK, LineDistinct, LoggedKnown
    <3>2. InLog'
      <4> SUFFICES ASSUME NEW t \in Sessions, NEW i \in 1..Len(queue'[gen][t])
                   PROVE  line'[queue'[gen][t][i]] > 0
        BY <1>2 DEF InLog
      <4>1. i \in 1..Len(queue[gen][t]) /\ queue'[gen][t][i] = queue[gen][t][i]
        BY <1>1, <1>6, <1>7
      <4> QED BY <1>1, <1>2, <2>1, <4>1 DEF InLog
    <3> QED BY <3>1, <3>2
  <2>2. CASE line' = CompactedLog(JobsIn(queue'[gen]))
    <3>1. /\ line' \in [Jobs -> Nat]
          /\ \A j \in Jobs : line'[j] > 0 <=> j \in JobsIn(queue'[gen])
          /\ \A j, k \in JobsIn(queue'[gen]) : line'[j] = line'[k] => j = k
      BY <1>11, <2>2, CompactedLogLines
    <3>2. LineDistinct'
      BY <3>1 DEF LineDistinct
    <3>3. \A j \in JobsIn(queue'[gen]) : fate'[j] # "new"
      BY <1>1, <1>10 DEF JobsIn, HeldKnown
    <3>4. LoggedKnown'
      BY <3>1, <3>3 DEF LoggedKnown
    <3>5. \A t \in Sessions : \A i \in 1..Len(queue'[gen][t]) : queue'[gen][t][i] \in JobsIn(queue'[gen])
      BY DEF JobsIn
    <3>6. InLog'
      BY <1>2, <1>11, <3>1, <3>5 DEF InLog
    <3> QED BY <3>1, <3>2, <3>4, <3>6
  <2> QED BY <1>3, <2>1, <2>2
<1>13. TypeOK'
  <2>1. run' \in [Gens -> [Sessions -> RunState]]
    BY <1>a
  <2>2. faults' \in 0..MaxFaults
    BY <1>1, <1>2, JobQueueAssumption DEF TypeOK, JobQueueAssumption
  <2> QED BY <1>1, <1>2, <1>7, <1>9, <1>12, <2>1, <2>2 DEF TypeOK
<1>14. SlotLimit'
  BY <1>1, <1>2 DEF SlotLimit
<1>15. LaterEmpty'
  BY <1>1, <1>2, <1>7 DEF LaterEmpty, Gens
<1>16. RunHasHead'
  <2> SUFFICES ASSUME NEW g \in Gens, NEW t \in Sessions, run'[g][t] # "none"
               PROVE  t \in active'[g] /\ queue'[g][t] # <<>>
    BY DEF RunHasHead
  <2>1. run[g][t] # "none"
    BY <1>a
  <2>2. t \in active[g] /\ queue[g][t] # <<>>
    BY <1>1, <2>1 DEF RunHasHead
  <2>3. CASE g = gen /\ t = s
    BY <1>2, <1>6, <1>7, <2>2, <2>3
  <2>4. CASE g # gen \/ t # s
    BY <1>2, <1>7, <2>2, <2>4
  <2> QED BY <2>3, <2>4
<1> QED BY <1>10, <1>12, <1>13, <1>14, <1>15, <1>16 DEF IInv

\* Taking the maps away: what the new maps hold is empty.
LEMMA RemoveRuntimeIInv == ASSUME IInv, RemoveRuntime PROVE IInv'
<1>1. /\ phase # "down" /\ gen' = gen + 1 /\ gen' \in Gens /\ removing' \in BOOLEAN
      /\ UNCHANGED <<phase, queue, active, run, cancel, line, reported, faults, crashes, fate>>
  BY JobQueueAssumption DEF IInv, TypeOK, RemoveRuntime, history, Gens, JobQueueAssumption
<1>2. TypeOK'
  BY <1>1 DEF IInv, TypeOK
<1>3. SlotLimit' /\ Homed' /\ NoDuplicate' /\ HeldKnown' /\ LoggedKnown' /\ RunHasHead' /\ LineDistinct'
  BY <1>1 DEF IInv, SlotLimit, Homed, NoDuplicate, HeldKnown, LoggedKnown, RunHasHead, LineDistinct
<1>4. \A g \in Gens : g > gen => queue'[g] = [s \in Sessions |-> <<>>]
  BY <1>1 DEF IInv, LaterEmpty
<1>5. LaterEmpty'
  <2>1. \A g \in Gens : g > gen' => g > gen
    BY <1>1 DEF IInv, TypeOK, Gens
  <2> QED BY <1>1, <1>4, <2>1 DEF LaterEmpty
<1>6. InLog'
  <2>1. gen' > gen
    BY <1>1 DEF IInv, TypeOK, Gens
  <2>2. \A s \in Sessions : queue'[gen'][s] = <<>>
    BY <1>1, <1>4, <2>1
  <2> QED BY <2>2 DEF InLog
<1> QED BY <1>2, <1>3, <1>5, <1>6 DEF IInv

\* A step that leaves the maps and the log alone, and does not bring the process
\* up or down.
LEMMA OutsideIInv ==
  ASSUME IInv, UNCHANGED <<gen, queue, active, run, cancel, line, faults, crashes, fate>>,
         removing' \in BOOLEAN, reported' \in SUBSET Sessions,
         phase' \in {"down", "up", "stopping"}, phase' = "down" <=> phase = "down"
  PROVE  IInv'
<1>1. TypeOK'
  BY DEF IInv, TypeOK
<1>2. SlotLimit' /\ Homed' /\ NoDuplicate' /\ HeldKnown' /\ LoggedKnown' /\ RunHasHead' /\ LineDistinct'
  BY DEF IInv, SlotLimit, Homed, NoDuplicate, HeldKnown, LoggedKnown, RunHasHead, LineDistinct
<1>3. LaterEmpty' /\ InLog'
  BY DEF IInv, LaterEmpty, InLog
<1> QED BY <1>1, <1>2, <1>3 DEF IInv

\* The process goes; the log stays, or loses all its lines.
LEMMA LoseMemoryIInv ==
  ASSUME IInv, LoseMemory, UNCHANGED <<reported, faults, fate>>, crashes' \in 0..MaxCrashes,
         line' = line \/ line' = CompactedLog({})
  PROVE  IInv'
<1>1. line' \in [Jobs -> Nat] /\ \A j \in Jobs : line'[j] > 0 => line'[j] = line[j]
  <2>1. /\ CompactedLog({}) \in [Jobs -> Nat]
        /\ \A j \in Jobs : CompactedLog({})[j] > 0 <=> j \in {}
    BY CompactedLogLines
  <2> QED BY <2>1 DEF IInv, TypeOK
<1>2. TypeOK'
  <2>1. queue' \in [Gens -> [Sessions -> Seq(Jobs)]] /\ active' \in [Gens -> SUBSET Sessions]
    BY DEF LoseMemory, Idle, NoActive
  <2>2. run' \in [Gens -> [Sessions -> RunState]]
    BY DEF LoseMemory, NoRun, RunState
  <2>a. MaxGen \in Nat /\ MaxGen > 0
    BY JobQueueAssumption DEF JobQueueAssumption
  <2>b. cancel' \in [Sessions -> 0..MaxGen]
    BY <2>a DEF LoseMemory
  <2>c. gen' \in Gens
    BY <2>a DEF LoseMemory, Gens
  <2>3. gen' \in Gens /\ cancel' \in [Sessions -> 0..MaxGen] /\ phase' = "down" /\ removing' \in BOOLEAN
    BY <2>b, <2>c DEF LoseMemory
  <2>4. /\ reported' \in SUBSET Sessions /\ faults' \in 0..MaxFaults
        /\ fate' \in [Jobs -> {"new", "pending"} \cup Final]
    BY DEF IInv, TypeOK
  <2> QED BY <1>1, <2>1, <2>2, <2>3, <2>4 DEF TypeOK
<1>3. SlotLimit'
  BY FS_EmptySet, JobQueueAssumption DEF SlotLimit, LoseMemory, NoActive, JobQueueAssumption
<1>4. Homed' /\ NoDuplicate' /\ HeldKnown' /\ RunHasHead'
  BY DEF LoseMemory, Idle, NoRun, Homed, NoDuplicate, HeldKnown, RunHasHead
<1>5. LaterEmpty' /\ InLog'
  BY DEF LoseMemory, Idle, LaterEmpty, InLog, NoRun
<1>6. LoggedKnown' /\ LineDistinct'
  BY <1>1 DEF IInv, LoggedKnown, LineDistinct
<1> QED BY <1>2, <1>3, <1>4, <1>5, <1>6 DEF IInv

\* Every step keeps the invariant.
LEMMA NextIInv == IInv /\ [Next]_vars => IInv'
<1> SUFFICES ASSUME IInv, [Next]_vars PROVE IInv'
  OBVIOUS
<1>0. TypeOK
  BY DEF IInv
<1>1. CASE Initialize
  BY <1>1, InitializeIInv
<1>2. CASE \E j \in Jobs : Enqueue(j)
  BY <1>2, EnqueueIInv
<1>3. CASE \E g \in Gens, s \in Sessions, outcome \in Outcomes : Finish(g, s, outcome)
  BY <1>3, FinishIInv
<1>4. CASE \E g \in Gens, s \in Sessions, logged \in BOOLEAN : FinishThrows(g, s, logged)
  BY <1>4, FinishThrowsIInv
<1>5. CASE \E s \in Sessions, rewritten \in BOOLEAN : Stop(s, rewritten)
  BY <1>5, StopIInv
<1>6. CASE RemoveRuntime
  BY <1>6, RemoveRuntimeIInv
<1>7. CASE \E ok \in BOOLEAN : RuntimeRemoved(ok)
  BY <1>0, <1>7, OutsideIInv DEF RuntimeRemoved, history, TypeOK
<1>8. CASE Shutdown
  BY <1>0, <1>8, OutsideIInv DEF Shutdown, memory, history, TypeOK
<1>9. CASE Exit
  BY <1>0, <1>9, LoseMemoryIInv DEF Exit, history, TypeOK
<1>10. CASE Crash
  <2>1. crashes' \in 0..MaxCrashes
    BY <1>0, <1>10, JobQueueAssumption DEF Crash, TypeOK, JobQueueAssumption
  <2> QED BY <1>10, <2>1, LoseMemoryIInv DEF Crash
<1>11. CASE UNCHANGED vars
  BY <1>0, <1>11, OutsideIInv DEF vars, memory, history, TypeOK
<1> QED BY <1>1, <1>2, <1>3, <1>4, <1>5, <1>6, <1>7, <1>8, <1>9, <1>10, <1>11 DEF Next

\* The invariant holds in every state of the service.
LEMMA Invariance == Spec => []IInv
BY InitIInv, NextIInv, PTL DEF Spec

-----------------------------------------------------------------------------
(* Theorems. *)

\* Every variable of the queue stays in its type.
THEOREM TypeCorrect == Spec => []TypeOK
<1>1. IInv => TypeOK
  BY DEF IInv
<1> QED BY <1>1, Invariance, PTL

\* No pair of maps ever runs more sessions than the limit, whatever store call
\* throws and whoever dispatches (processSession and dispatchAgent, job-queue.ts).
THEOREM SlotsBounded == Spec => []SlotLimit
<1>1. IInv => SlotLimit
  BY DEF IInv
<1> QED BY <1>1, Invariance, PTL

\* An accepted job that is in memory is in the queue log: a crash at any moment
\* recovers it (enqueue, stopSession and the terminal events of processSession).
THEOREM JobsSurvive == Spec => []NoJobLost
<1>1. IInv => NoJobLost
  <2> SUFFICES ASSUME IInv, phase # "down", NEW s \in Sessions, NEW i \in 1..Len(queue[gen][s])
               PROVE  queue[gen][s][i] \in Pending
    BY DEF NoJobLost, JobsIn
  <2>1. queue[gen][s][i] \in Jobs
    BY DEF IInv, TypeOK
  <2>2. line[queue[gen][s][i]] > 0
    BY DEF IInv, InLog
  <2> QED BY <2>1, <2>2 DEF Pending
<1> QED BY <1>1, Invariance, PTL

\* A job has one place in all the queues, orphaned maps included, so no two runs
\* work on the same job at once.
THEOREM JobsHaveOneHolder == Spec => []OneHolder
<1>1. IInv => OneHolder
  <2> SUFFICES ASSUME IInv, NEW g \in Gens, NEW h \in Gens, NEW s \in Sessions, NEW t \in Sessions,
                      NEW i \in 1..Len(queue[g][s]), NEW k \in 1..Len(queue[h][t]),
                      queue[g][s][i] = queue[h][t][k]
               PROVE  g = h /\ s = t /\ i = k
    BY DEF OneHolder
  <2>1. SessionOf[queue[g][s][i]] = s /\ SessionOf[queue[h][t][k]] = t
    BY DEF IInv, Homed
  <2>2. s = t
    BY <2>1
  <2> QED BY <2>2 DEF IInv, NoDuplicate
<1> QED BY <1>1, Invariance, PTL

-----------------------------------------------------------------------------
(* Final fates, the time before a fault, and the abstract queue. *)

\* A job that is held or logged is pending: nothing settles it but the step that
\* takes it out of its queue and out of the log.
FateKnown ==
  /\ \A g \in Gens, s \in Sessions : \A i \in 1..Len(queue[g][s]) : fate[queue[g][s][i]] = "pending"
  /\ \A j \in Jobs : line[j] > 0 => fate[j] = "pending"

\* Without faults: slots, runs, queues, log and controllers agree.
Faultless == NoLeakedSlot /\ WorkConserving /\ Abortable /\ LogMatchesMemory

\* The jobs of a session are created in different milliseconds.
NoTies == \A j, k \in Jobs : SessionOf[j] = SessionOf[k] /\ CreatedAt[j] = CreatedAt[k] => j = k

\* A queue is in the order in which its jobs were created, which is the order of recovery.
OldestFirst ==
  \A s \in Sessions : \A i, k \in 1..Len(queue[gen][s]) :
    i < k => CreatedAt[queue[gen][s][i]] < CreatedAt[queue[gen][s][k]]

-----------------------------------------------------------------------------
(* The fate of a job. *)

\* Whatever leaves the queues and the log behind, only keeping what they held, leaves
\* what is held or logged pending, as long as it settles nothing that stays.
LEMMA KeepingFateKnown ==
  ASSUME FateKnown, Shrinks, queue \in [Gens -> [Sessions -> Seq(Jobs)]],
         \A g \in Gens, s \in Sessions : \A i \in 1..Len(queue'[g][s]) :
           fate'[queue'[g][s][i]] = fate[queue'[g][s][i]],
         \A j \in Jobs : line'[j] > 0 => line[j] > 0 /\ fate'[j] = fate[j]
  PROVE  FateKnown'
<1>1. \A j \in Jobs : line'[j] > 0 => fate'[j] = "pending"
  BY DEF FateKnown
<1>2. ASSUME NEW g \in Gens, NEW s \in Sessions, NEW i \in 1..Len(queue'[g][s])
      PROVE  fate'[queue'[g][s][i]] = "pending"
  <2>1. PICK d \in {0, 1} : i + d \in 1..Len(queue[g][s]) /\ queue'[g][s][i] = queue[g][s][i + d]
    BY Shrinks DEF Shrinks
  <2>2. fate[queue[g][s][i + d]] = "pending"
    BY <2>1 DEF FateKnown
  <2> QED BY <2>1, <2>2
<1> QED BY <1>1, <1>2 DEF FateKnown

\* Before the first start no job has a fate and none is queued.
LEMMA InitFateKnown == Init => FateKnown
BY DEF Init, Idle, FateKnown

\* Recovery replays the log without bringing a finished job back.
LEMMA InitializeFate == IInv /\ FateKnown /\ Initialize => FateKnown' /\ fate' = fate
<1> SUFFICES ASSUME IInv, FateKnown, Initialize PROVE FateKnown' /\ fate' = fate
  OBVIOUS
<1>1. /\ fate' = fate /\ line' = CompactedLog(Pending)
      /\ queue' = [queue EXCEPT ![gen] = [s \in Sessions |-> RecoveredQueue(s)]]
      /\ queue \in [Gens -> [Sessions -> Seq(Jobs)]] /\ gen \in Gens
  BY DEF Initialize, history, IInv, TypeOK
<1>2. \A s \in Sessions : \A i \in 1..Len(RecoveredQueue(s)) : RecoveredQueue(s)[i] \in Pending
  BY RecoveredQueueJobs DEF IInv, TypeOK
<1>3. \A j \in Pending : fate[j] = "pending"
  BY DEF FateKnown, Pending
<1>4. \A j \in Jobs : line'[j] > 0 => j \in Pending
  BY <1>1, CompactedLogLines DEF Pending
<1>5. \A g \in Gens, s \in Sessions :
        queue'[g][s] = IF g = gen THEN RecoveredQueue(s) ELSE queue[g][s]
  BY <1>1
<1> QED BY <1>1, <1>2, <1>3, <1>4, <1>5 DEF FateKnown

\* An accepted job was new, so nothing of it was settled.
LEMMA EnqueueFate ==
  ASSUME NEW j \in Jobs, IInv, FateKnown, Enqueue(j)
  PROVE  FateKnown' /\ fate[j] = "new" /\ fate' = [fate EXCEPT ![j] = "pending"]
<1>1. /\ fate[j] = "new" /\ fate' = [fate EXCEPT ![j] = "pending"]
      /\ queue' = [queue EXCEPT ![gen][SessionOf[j]] = Append(@, j)]
      /\ \E n \in 1..Cardinality(Jobs) : line' = [line EXCEPT ![j] = n]
  BY DEF Enqueue
<1>2. /\ TypeOK /\ Homed /\ NoDuplicate /\ HeldKnown /\ gen \in Gens
      /\ fate \in [Jobs -> {"new", "pending"} \cup Final] /\ line \in [Jobs -> Nat]
      /\ queue \in [Gens -> [Sessions -> Seq(Jobs)]]
  BY DEF IInv, TypeOK
<1>3. \A g \in Gens, s \in Sessions : \A i \in 1..Len(queue'[g][s]) :
        \/ queue'[g][s][i] = j
        \/ i \in 1..Len(queue[g][s]) /\ queue'[g][s][i] = queue[g][s][i]
  BY <1>1, <1>2, AppendingHolds
<1>4. ASSUME NEW g \in Gens, NEW s \in Sessions, NEW i \in 1..Len(queue'[g][s])
      PROVE  fate'[queue'[g][s][i]] = "pending"
  <2>1. CASE queue'[g][s][i] = j
    BY <1>1, <1>2, <2>1
  <2>2. CASE queue'[g][s][i] # j
    <3>1. i \in 1..Len(queue[g][s]) /\ queue'[g][s][i] = queue[g][s][i]
      BY <1>3, <2>2
    <3>2. queue[g][s][i] \in Jobs /\ fate[queue[g][s][i]] = "pending"
      BY <1>2, <3>1 DEF FateKnown
    <3> QED BY <1>1, <1>2, <3>1, <3>2
  <2> QED BY <2>1, <2>2
<1>5. \A k \in Jobs : line'[k] > 0 => fate'[k] = "pending"
  BY <1>1, <1>2 DEF FateKnown
<1> QED BY <1>1, <1>4, <1>5 DEF FateKnown

\* The job a run ends with was pending, and it is in no queue any more.
LEMMA ShiftFate ==
  ASSUME IInv, FateKnown, NEW g \in Gens, NEW s \in Sessions, run[g][s] # "none",
         queue' = [queue EXCEPT ![g][s] = Tail(@)], NEW outcome,
         \/ Settle(Head(queue[g][s]), outcome)
         \/ UNCHANGED <<line, fate>>
  PROVE  /\ FateKnown'
         /\ \A j \in Jobs : fate'[j] # fate[j] => fate[j] = "pending"
<1> DEFINE job == Head(queue[g][s])
<1>1. queue[g][s] # <<>>
  BY RunFacts
<1>2. /\ TypeOK /\ Homed /\ NoDuplicate /\ line \in [Jobs -> Nat]
      /\ queue \in [Gens -> [Sessions -> Seq(Jobs)]]
      /\ fate \in [Jobs -> {"new", "pending"} \cup Final]
  BY DEF IInv, TypeOK
<1>3. /\ Shrinks /\ job \in Jobs
      /\ queue' \in [Gens -> [Sessions -> Seq(Jobs)]]
      /\ \A h \in Gens, t \in Sessions : \A i \in 1..Len(queue'[h][t]) : queue'[h][t][i] # job
  BY <1>1, <1>2, HeadLeaves
<1>4. fate[job] = "pending"
  <2>1. queue[g][s] \in Seq(Jobs)
    BY <1>2
  <2>2. job = queue[g][s][1] /\ 1 \in 1..Len(queue[g][s])
    BY <1>1, <2>1
  <2> QED BY <2>2 DEF FateKnown
<1> HIDE DEF job
<1>5. \/ line' = [line EXCEPT ![job] = 0] /\ fate' = [fate EXCEPT ![job] = outcome]
      \/ line' = line /\ fate' = fate
  BY DEF Settle, job
<1>6. \A j \in Jobs : j # job => fate'[j] = fate[j] /\ line'[j] = line[j]
  BY <1>2, <1>5
<1>7. \A j \in Jobs : line'[j] > 0 => line[j] > 0 /\ fate'[j] = fate[j]
  BY <1>2, <1>3, <1>5
<1>8. \A h \in Gens, t \in Sessions : \A i \in 1..Len(queue'[h][t]) :
        fate'[queue'[h][t][i]] = fate[queue'[h][t][i]]
  <2> SUFFICES ASSUME NEW h \in Gens, NEW t \in Sessions, NEW i \in 1..Len(queue'[h][t])
               PROVE  fate'[queue'[h][t][i]] = fate[queue'[h][t][i]]
    OBVIOUS
  <2>1. queue'[h][t][i] \in Jobs
    BY <1>3
  <2>2. queue'[h][t][i] # job
    BY <1>3 DEF job
  <2> QED BY <1>6, <2>1, <2>2
<1>9. FateKnown'
  BY <1>2, <1>3, <1>7, <1>8, KeepingFateKnown
<1> QED BY <1>4, <1>6, <1>9

\* What /stop drops was pending and is held nowhere else, and a compaction forgets it.
LEMMA StopFate ==
  ASSUME NEW s \in Sessions, NEW rewritten \in BOOLEAN, IInv, FateKnown, Stop(s, rewritten)
  PROVE  /\ FateKnown'
         /\ \A j \in Jobs : fate'[j] # fate[j] => fate[j] = "pending"
<1> DEFINE dropped == {queue[gen][s][i] : i \in (Len(Kept(s)) + 1)..Len(queue[gen][s])}
<1>1. /\ TypeOK /\ NoDuplicate /\ Homed /\ gen \in Gens /\ line \in [Jobs -> Nat]
      /\ queue \in [Gens -> [Sessions -> Seq(Jobs)]]
      /\ fate \in [Jobs -> {"new", "pending"} \cup Final]
  BY DEF IInv, TypeOK
<1>2. queue[gen][s] \in Seq(Jobs)
  BY <1>1
<1>3. /\ Kept(s) \in Seq(Jobs)
      /\ Len(Kept(s)) \in Nat
      /\ \A i \in 1..Len(Kept(s)) : i \in 1..Len(queue[gen][s]) /\ Kept(s)[i] = queue[gen][s][i]
  BY <1>2 DEF Kept
<1>4. queue' = [queue EXCEPT ![gen][s] = Kept(s)] /\ gen' = gen
  BY DEF Stop
<1>5. \/ line' = line /\ fate' = fate
      \/ /\ line' = CompactedLog(JobsIn(queue'[gen]))
         /\ fate' = [j \in Jobs |-> IF j \in dropped THEN "dropped" ELSE fate[j]]
  BY <1>4 DEF Stop
<1>6. /\ queue' \in [Gens -> [Sessions -> Seq(Jobs)]]
      /\ \A g \in Gens, t \in Sessions : \A i \in 1..Len(queue'[g][t]) :
           /\ i \in 1..Len(queue[g][t]) /\ queue'[g][t][i] = queue[g][t][i]
           /\ g = gen /\ t = s => i <= Len(Kept(s))
  <2>1. \A g \in Gens, t \in Sessions :
          queue'[g][t] = IF g = gen /\ t = s THEN Kept(s) ELSE queue[g][t]
    BY <1>1, <1>4
  <2>2. queue' \in [Gens -> [Sessions -> Seq(Jobs)]]
    BY <1>1, <1>3, <1>4
  <2> QED BY <1>3, <2>1, <2>2
<1>7. Shrinks
  <2> SUFFICES ASSUME NEW g \in Gens, NEW t \in Sessions
               PROVE  \A i \in 1..Len(queue'[g][t]) :
                        i + 0 \in 1..Len(queue[g][t]) /\ queue'[g][t][i] = queue[g][t][i + 0]
    BY DEF Shrinks
  <2> QED BY <1>6
<1>8. \A j \in dropped : j \in Jobs /\ fate[j] = "pending"
  <2> SUFFICES ASSUME NEW i \in (Len(Kept(s)) + 1)..Len(queue[gen][s])
               PROVE  queue[gen][s][i] \in Jobs /\ fate[queue[gen][s][i]] = "pending"
    OBVIOUS
  <2>1. i \in 1..Len(queue[gen][s])
    BY <1>2, <1>3
  <2> QED BY <1>1, <1>2, <2>1 DEF FateKnown
<1>9. \A g \in Gens, t \in Sessions : \A i \in 1..Len(queue'[g][t]) : queue'[g][t][i] \notin dropped
  <2> SUFFICES ASSUME NEW g \in Gens, NEW t \in Sessions, NEW i \in 1..Len(queue'[g][t]),
                      NEW k \in (Len(Kept(s)) + 1)..Len(queue[gen][s]),
                      queue'[g][t][i] = queue[gen][s][k]
               PROVE  FALSE
    OBVIOUS
  <2>1. i \in 1..Len(queue[g][t]) /\ queue[g][t][i] = queue[gen][s][k] /\ k \in 1..Len(queue[gen][s])
    BY <1>2, <1>3, <1>6
  <2>2. t = s
    <3>1. SessionOf[queue[g][t][i]] = t /\ SessionOf[queue[gen][s][k]] = s
      BY <1>1, <2>1 DEF Homed
    <3> QED BY <2>1, <3>1
  <2>3. g = gen /\ i = k
    BY <1>1, <2>1, <2>2 DEF NoDuplicate
  <2> QED BY <1>3, <1>6, <2>2, <2>3
<1> HIDE DEF dropped
<1>10. \A j \in Jobs : fate'[j] # fate[j] => j \in dropped
  BY <1>1, <1>5
<1>11. \A g \in Gens, t \in Sessions : \A i \in 1..Len(queue'[g][t]) :
         fate'[queue'[g][t][i]] = fate[queue'[g][t][i]]
  BY <1>6, <1>9, <1>10
<1>12. FateKnown'
  <2>1. CASE line' = line /\ fate' = fate
    BY <1>1, <1>7, <1>11, <2>1, KeepingFateKnown
  <2>2. CASE line' = CompactedLog(JobsIn(queue'[gen]))
    <3>1. ASSUME NEW g \in Gens, NEW t \in Sessions, NEW i \in 1..Len(queue'[g][t])
          PROVE  fate'[queue'[g][t][i]] = "pending"
      BY <1>6, <1>11, <3>1 DEF FateKnown
    <3>2. \A j \in JobsIn(queue'[gen]) : j \in Jobs /\ fate'[j] = "pending"
      BY <1>1, <1>6, <3>1 DEF JobsIn
    <3>3. \A j \in Jobs : line'[j] > 0 => j \in JobsIn(queue'[gen])
      BY <2>2, <3>2, CompactedLogLines
    <3> QED BY <3>1, <3>2, <3>3 DEF FateKnown
  <2> QED BY <1>5, <2>1, <2>2
<1> QED BY <1>8, <1>10, <1>12

\* The process goes, and the log stays or loses all its lines.
LEMMA LoseMemoryFate ==
  ASSUME IInv, FateKnown, LoseMemory, fate' = fate, line' = line \/ line' = CompactedLog({})
  PROVE  FateKnown'
<1>1. \A j \in Jobs : line'[j] > 0 => line[j] > 0
  BY CompactedLogLines DEF IInv, TypeOK
<1>2. \A g \in Gens, s \in Sessions : Len(queue'[g][s]) = 0
  BY DEF LoseMemory, Idle
<1> QED BY <1>1, <1>2 DEF FateKnown

\* Every step keeps what is held or logged pending, and changes the fate only of a new
\* or a pending job.
LEMMA NextFate ==
  ASSUME IInv, FateKnown, [Next]_vars
  PROVE  /\ FateKnown'
         /\ \A j \in Jobs : fate'[j] # fate[j] => fate[j] \in {"new", "pending"}
<1> DEFINE Goal == /\ FateKnown'
                   /\ \A j \in Jobs : fate'[j] # fate[j] => fate[j] \in {"new", "pending"}
<1>0. fate \in [Jobs -> {"new", "pending"} \cup Final]
  BY DEF IInv, TypeOK
<1>1. CASE Initialize
  BY <1>1, InitializeFate
<1>2. ASSUME NEW j \in Jobs, Enqueue(j) PROVE Goal
  <2>1. FateKnown' /\ fate[j] = "new" /\ fate' = [fate EXCEPT ![j] = "pending"]
    BY <1>2, EnqueueFate
  <2> QED BY <1>0, <2>1
<1>3. ASSUME NEW g \in Gens, NEW s \in Sessions, NEW outcome \in Outcomes, Finish(g, s, outcome)
      PROVE  Goal
  BY <1>3, ShiftFate DEF Finish
<1>4. ASSUME NEW g \in Gens, NEW s \in Sessions, NEW logged \in BOOLEAN, FinishThrows(g, s, logged)
      PROVE  Goal
  <2>1. Settle(Head(queue[g][s]), "fail") \/ UNCHANGED <<line, fate>>
    BY <1>4 DEF FinishThrows
  <2> QED BY <1>4, <2>1, ShiftFate DEF FinishThrows
<1>5. ASSUME NEW s \in Sessions, NEW rewritten \in BOOLEAN, Stop(s, rewritten) PROVE Goal
  BY <1>5, StopFate
<1>6. CASE Exit \/ Crash
  <2>1. LoseMemory /\ fate' = fate /\ (line' = line \/ line' = CompactedLog({}))
    BY <1>6 DEF Exit, Crash, history
  <2> QED BY <2>1, LoseMemoryFate
<1>7. CASE UNCHANGED <<queue, line, fate>>
  BY <1>7 DEF FateKnown
<1>8. RemoveRuntime \/ Shutdown \/ UNCHANGED vars \/ (\E ok \in BOOLEAN : RuntimeRemoved(ok))
        => UNCHANGED <<queue, line, fate>>
  BY DEF RemoveRuntime, Shutdown, RuntimeRemoved, vars, memory, history
<1> QED BY <1>1, <1>2, <1>3, <1>4, <1>5, <1>6, <1>7, <1>8 DEF Next

\* A job in memory or in the log has not met its fate, in every state.
LEMMA FateInvariance == Spec => [](IInv /\ FateKnown)
<1>1. Init => IInv /\ FateKnown
  BY InitIInv, InitFateKnown
<1>2. IInv /\ FateKnown /\ [Next]_vars => IInv' /\ FateKnown'
  BY NextIInv, NextFate
<1> QED BY <1>1, <1>2, PTL DEF Spec

\* A job that has finished, or that /stop dropped, is never run, dropped or settled
\* again, whatever is lost, recovered or removed later (processSession and stopSession
\* log the terminal event in the handler that takes the job out of its queue).
THEOREM FateStaysFinal == Spec => FateIsFinal
<1>1. IInv /\ FateKnown /\ [Next]_vars
        => [\A j \in Jobs : fate[j] \in Final => fate'[j] = fate[j]]_vars
  <2> SUFFICES ASSUME IInv, FateKnown, [Next]_vars, NEW j \in Jobs, fate[j] \in Final
               PROVE  fate'[j] = fate[j]
    OBVIOUS
  <2>1. fate[j] \notin {"new", "pending"}
    BY DEF Final, Outcomes
  <2> QED BY <2>1, NextFate
<1> QED BY <1>1, FateInvariance, PTL DEF Spec, FateIsFinal

-----------------------------------------------------------------------------
(* What holds as long as no store call throws. *)

Dispatched(q, act, rn, cn, rep, f, P, broken) ==
  /\ active' = [act EXCEPT ![gen] = @ \cup P]
  /\ run' = [rn EXCEPT ![gen] = [s \in Sessions |-> IF s \in P \ broken THEN "running" ELSE @[s]]]
  /\ cancel' = [s \in Sessions |-> IF s \in P THEN gen ELSE cn[s]]
  /\ faults' \in Nat /\ faults' >= f
  /\ faults' = f =>
       /\ broken = {}
       /\ reported' = IF P = {} THEN rep ELSE act[gen] \cup P
       /\ \/ P = Candidates(q[gen], act[gen])
          \/ Cardinality(act[gen] \cup P) = MaxConcurrent

\* The effect of a dispatch: the sessions it starts waited, hold a slot and have their
\* controller registered; with no fault all of them run, and a slot stays free only
\* if nobody waits for it.
LEMMA DispatchEffect ==
  ASSUME NEW q, NEW act \in [Gens -> SUBSET Sessions], NEW rn, NEW cn, NEW rep, NEW f \in Nat,
         gen \in Gens, Dispatch(q, act, rn, cn, rep, f)
  PROVE  \E P \in SUBSET Candidates(q[gen], act[gen]) : \E broken \in SUBSET P :
           Dispatched(q, act, rn, cn, rep, f, P, broken)
<1> USE JobQueueAssumption DEF JobQueueAssumption
<1> DEFINE Cand == Candidates(q[gen], act[gen])
           free == Slots(q[gen], act[gen])
           Cost(n, broken) == Cardinality(broken) + (IF n < free THEN 1 ELSE 0)
           Effect(n, P, broken) ==
             /\ faults' = f + Cost(n, broken)
             /\ active' = [act EXCEPT ![gen] = @ \cup P]
             /\ run' = [rn EXCEPT ![gen] = [s \in Sessions |->
                          IF s \in P \ broken THEN "running" ELSE @[s]]]
             /\ cancel' = [s \in Sessions |-> IF s \in P THEN gen ELSE cn[s]]
             /\ reported' = ReportAfter(q[gen], act[gen], P, broken, rep)
<1>a. \E n \in 0..free : \E P \in Picked(q[gen], act[gen], n) : \E broken \in SUBSET P :
        Effect(n, P, broken)
  BY DEF Dispatch
<1>b. PICK n \in 0..free :
        \E P \in Picked(q[gen], act[gen], n) : \E broken \in SUBSET P : Effect(n, P, broken)
  BY <1>a
<1>c. PICK P \in Picked(q[gen], act[gen], n) : \E broken \in SUBSET P : Effect(n, P, broken)
  BY <1>b
<1>1. PICK broken \in SUBSET P : Effect(n, P, broken)
  BY <1>c
<1>2. /\ P \in SUBSET Cand /\ Cardinality(P) = n
      /\ Cand \in SUBSET Sessions /\ Cand \cap act[gen] = {}
  BY DEF Picked, Candidates
<1>3. /\ IsFiniteSet(act[gen]) /\ IsFiniteSet(P) /\ IsFiniteSet(broken) /\ IsFiniteSet(Cand)
  <2>1. act[gen] \in SUBSET Sessions /\ P \in SUBSET Sessions /\ broken \in SUBSET Sessions
    BY <1>2
  <2> QED BY <1>2, <2>1, FS_Subset
<1>4. /\ Cardinality(act[gen]) \in Nat /\ Cardinality(P) \in Nat /\ Cardinality(broken) \in Nat
      /\ Cardinality(Cand) \in Nat
  BY <1>3, FS_CardinalityType
<1>5. Cost(n, broken) \in Nat /\ (Cost(n, broken) = 0 => Cardinality(broken) = 0 /\ ~(n < free))
  BY <1>4
<1>6. faults' = f + Cost(n, broken)
  BY <1>1
<1>7. ASSUME faults' = f
      PROVE  /\ broken = {}
             /\ reported' = IF P = {} THEN rep ELSE act[gen] \cup P
             /\ P = Cand \/ Cardinality(act[gen] \cup P) = MaxConcurrent
  <2>1. Cardinality(broken) = 0 /\ ~(n < free)
    <3> HIDE DEF Cost
    <3> QED BY <1>5, <1>6, <1>7
  <2>2. broken = {}
    BY <1>3, <2>1, FS_EmptySet, Zenon
  <2>3. reported' = IF P = {} THEN rep ELSE act[gen] \cup P
    BY <1>1, <2>2 DEF ReportAfter
  <2>4. n = free
    <3>1. free \in Int
      BY <1>4 DEF Slots, Lesser
    <3> HIDE DEF free
    <3> QED BY <2>1, <3>1
  <2>5. P = Cand \/ Cardinality(act[gen] \cup P) = MaxConcurrent
    <3>1. CASE free = Cardinality(Cand)
      <4>1. Cardinality(P) = Cardinality(Cand)
        BY <1>2, <2>4, <3>1
      <4>2. P = Cand
        BY <1>2, <1>3, <4>1, FS_Subset, Zenon
      <4> QED BY <4>2
    <3>2. CASE free = MaxConcurrent - Cardinality(act[gen])
      <4>1. Cardinality(act[gen] \cup P)
              = Cardinality(act[gen]) + Cardinality(P) - Cardinality(act[gen] \cap P)
        BY <1>3, FS_Union
      <4>2. act[gen] \cap P = {} /\ Cardinality({}) = 0
        BY <1>2, FS_EmptySet
      <4>3. Cardinality(act[gen] \cap P) = 0 /\ Cardinality(P) = MaxConcurrent - Cardinality(act[gen])
        BY <1>2, <2>4, <3>2, <4>2
      <4>4. Cardinality(act[gen] \cup P) = MaxConcurrent
        <5> HIDE DEF Cand, free
        <5> QED BY <1>4, <4>1, <4>3
      <4> QED BY <4>4
    <3>3. free = Cardinality(Cand) \/ free = MaxConcurrent - Cardinality(act[gen])
      BY DEF Slots, Lesser
    <3> QED BY <3>1, <3>2, <3>3
  <2> QED BY <2>2, <2>3, <2>5
<1>8. faults' \in Nat /\ faults' >= f
  <2> HIDE DEF Cost
  <2> QED BY <1>5, <1>6
<1>9. P \in SUBSET Candidates(q[gen], act[gen])
  BY <1>2
<1>10. /\ active' = [act EXCEPT ![gen] = @ \cup P]
       /\ run' = [rn EXCEPT ![gen] = [s \in Sessions |->
                    IF s \in P \ broken THEN "running" ELSE @[s]]]
       /\ cancel' = [s \in Sessions |-> IF s \in P THEN gen ELSE cn[s]]
  BY <1>1
<1> QED BY <1>7, <1>8, <1>9, <1>10 DEF Dispatched

\* The same of what the properties say: after a dispatch that met no fault, slots and
\* runs are the same sessions and a free slot waits for nobody.
LEMMA DispatchFaultless ==
  ASSUME NEW act \in [Gens -> SUBSET Sessions], NEW rn \in [Gens -> [Sessions -> RunState]],
         NEW cn, NEW rep, faults \in Nat, gen \in Gens, gen' = gen,
         Dispatch(queue', act, rn, cn, rep, faults),
         faults = 0 => \A g \in Gens, s \in Sessions :
           /\ s \in act[g] <=> rn[g][s] # "none"
           /\ s \in act[g] => queue'[g][s] # <<>>,
         gen = 1 => \A s \in Sessions : rn[gen][s] # "none" => cn[s] = gen
  PROVE  NoLeakedSlot' /\ WorkConserving' /\ Abortable'
<1>a. \E P \in SUBSET Candidates(queue'[gen], act[gen]) : \E broken \in SUBSET P :
        Dispatched(queue', act, rn, cn, rep, faults, P, broken)
  <2> DEFINE q == queue'
  <2>1. Dispatch(q, act, rn, cn, rep, faults)
    OBVIOUS
  <2> HIDE DEF q
  <2>2. \E P \in SUBSET Candidates(q[gen], act[gen]) : \E broken \in SUBSET P :
          Dispatched(q, act, rn, cn, rep, faults, P, broken)
    BY <2>1, DispatchEffect
  <2> QED BY <2>2 DEF q
<1>b. PICK P \in SUBSET Candidates(queue'[gen], act[gen]) : \E broken \in SUBSET P :
        Dispatched(queue', act, rn, cn, rep, faults, P, broken)
  BY <1>a
<1>c. PICK broken \in SUBSET P : Dispatched(queue', act, rn, cn, rep, faults, P, broken)
  BY <1>b
<1>1. /\ active' = [act EXCEPT ![gen] = @ \cup P]
      /\ run' = [rn EXCEPT ![gen] = [s \in Sessions |->
                   IF s \in P \ broken THEN "running" ELSE @[s]]]
      /\ cancel' = [s \in Sessions |-> IF s \in P THEN gen ELSE cn[s]]
      /\ faults' \in Nat /\ faults' >= faults
      /\ faults' = faults =>
           /\ broken = {}
           /\ \/ P = Candidates(queue'[gen], act[gen])
              \/ Cardinality(act[gen] \cup P) = MaxConcurrent
  BY <1>c DEF Dispatched
<1>2. /\ \A s \in P : s \in Sessions /\ s \notin act[gen] /\ queue'[gen][s] # <<>>
      /\ P \in SUBSET Sessions
  BY DEF Candidates
<1>3. faults' = 0 => faults = 0 /\ broken = {}
  BY <1>1
<1>4. NoLeakedSlot'
  <2> SUFFICES ASSUME faults' = 0, NEW g \in Gens, NEW s \in Sessions
               PROVE  /\ s \in active'[g] <=> run'[g][s] # "none"
                      /\ s \in active'[g] => queue'[g][s] # <<>>
    BY DEF NoLeakedSlot
  <2>1. /\ s \in act[g] <=> rn[g][s] # "none"
        /\ s \in act[g] => queue'[g][s] # <<>>
    BY <1>3
  <2>2. active'[g] = IF g = gen THEN act[g] \cup P ELSE act[g]
    BY <1>1
  <2>3. run'[g][s] = IF g = gen /\ s \in P THEN "running" ELSE rn[g][s]
    BY <1>1, <1>3
  <2> QED BY <1>2, <2>1, <2>2, <2>3
<1>5. WorkConserving'
  <2> SUFFICES ASSUME faults' = 0, Cardinality(active'[gen]) < MaxConcurrent
               PROVE  Candidates(queue'[gen], active'[gen]) = {}
    BY DEF WorkConserving
  <2>1. active'[gen] = act[gen] \cup P
    BY <1>1
  <2>2. P = Candidates(queue'[gen], act[gen])
    BY <1>1, <1>3, <2>1, JobQueueAssumption DEF JobQueueAssumption
  <2> QED BY <2>1, <2>2 DEF Candidates
<1>6. Abortable'
  <2> SUFFICES ASSUME gen = 1, NEW s \in Sessions, run'[gen][s] # "none"
               PROVE  cancel'[s] = gen
    BY DEF Abortable
  <2>1. s \in P \/ rn[gen][s] # "none"
    BY <1>1
  <2> QED BY <1>1, <2>1
<1> QED BY <1>4, <1>5, <1>6

\* The end of a run hands the session on to its next job or the slot to who waits.
LEMMA LoopFaultless ==
  ASSUME IInv, NoLeakedSlot, WorkConserving, Abortable,
         NEW g \in Gens, NEW s \in Sessions, run[g][s] # "none",
         queue' = [queue EXCEPT ![g][s] = Tail(@)], gen' = gen, phase' = phase,
         IF queue'[g][s] # <<>> THEN StartNext(g, s) ELSE ReleaseSlot(g, s)
  PROVE  NoLeakedSlot' /\ WorkConserving' /\ Abortable'
<1>1. /\ gen \in Gens /\ active \in [Gens -> SUBSET Sessions] /\ run \in [Gens -> [Sessions -> RunState]]
      /\ cancel \in [Sessions -> 0..MaxGen] /\ faults \in Nat
      /\ queue \in [Gens -> [Sessions -> Seq(Jobs)]]
  BY JobQueueAssumption DEF IInv, TypeOK, JobQueueAssumption
<1>2. s \in active[g] /\ queue[g][s] # <<>> /\ phase # "down" /\ ~(g > gen)
  BY RunFacts
<1>3. /\ \A h \in Gens, t \in Sessions : h # g \/ t # s => queue'[h][t] = queue[h][t]
      /\ gen = 1 => g = gen
  BY <1>1, <1>2 DEF Gens
<1>4. CASE queue'[g][s] # <<>>
  <2>1. PICK broken \in BOOLEAN :
          /\ faults' = IF broken THEN faults + 1 ELSE faults
          /\ run' = [run EXCEPT ![g][s] = IF broken THEN "none" ELSE "running"]
          /\ cancel' = [cancel EXCEPT ![s] = g]
          /\ active' = active
    BY <1>4 DEF StartNext
  <2>2. faults' = 0 => ~broken /\ faults = 0
    BY <1>1, <2>1
  <2>3. NoLeakedSlot'
    <3> SUFFICES ASSUME faults' = 0, NEW h \in Gens, NEW t \in Sessions
                 PROVE  /\ t \in active'[h] <=> run'[h][t] # "none"
                        /\ t \in active'[h] => queue'[h][t] # <<>>
      BY DEF NoLeakedSlot
    <3>1. /\ t \in active[h] <=> run[h][t] # "none"
          /\ t \in active[h] => queue[h][t] # <<>>
      BY <2>2 DEF NoLeakedSlot
    <3>2. run'[h][t] = IF h = g /\ t = s THEN "running" ELSE run[h][t]
      BY <1>1, <2>1, <2>2
    <3> QED BY <1>2, <1>3, <1>4, <2>1, <3>1, <3>2
  <2>4. WorkConserving'
    <3> SUFFICES ASSUME faults' = 0, active[gen] # {}, Cardinality(active[gen]) < MaxConcurrent
                 PROVE  Candidates(queue'[gen], active[gen]) = {}
      BY <2>1 DEF WorkConserving
    <3>1. Candidates(queue[gen], active[gen]) = {}
      BY <2>2 DEF WorkConserving
    <3>2. \A t \in Sessions \ active[gen] : queue'[gen][t] = queue[gen][t]
      BY <1>1, <1>2, <1>3
    <3> QED BY <3>1, <3>2 DEF Candidates
  <2>5. Abortable'
    <3> SUFFICES ASSUME gen = 1, NEW t \in Sessions, run'[gen][t] # "none"
                 PROVE  cancel'[t] = gen
      BY DEF Abortable
    <3>1. CASE t = s
      BY <1>1, <1>3, <2>1, <3>1
    <3>2. CASE t # s
      <4>1. run[gen][t] # "none"
        BY <1>1, <2>1, <3>2
      <4>2. cancel[t] = gen
        BY <1>2, <4>1 DEF Abortable
      <4> QED BY <1>1, <2>1, <3>2, <4>2
    <3> QED BY <3>1, <3>2
  <2> QED BY <2>3, <2>4, <2>5
<1>5. CASE queue'[g][s] = <<>>
  <2> DEFINE act == [active EXCEPT ![g] = @ \ {s}]
             rn  == [run EXCEPT ![g][s] = "none"]
             cn  == [cancel EXCEPT ![s] = 0]
  <2>1. act \in [Gens -> SUBSET Sessions] /\ rn \in [Gens -> [Sessions -> RunState]]
    BY <1>1 DEF RunState
  <2>2. faults = 0 => \A h \in Gens, t \in Sessions :
           /\ t \in act[h] <=> rn[h][t] # "none"
           /\ t \in act[h] => queue'[h][t] # <<>>
    <3> SUFFICES ASSUME faults = 0, NEW h \in Gens, NEW t \in Sessions
                 PROVE  /\ t \in act[h] <=> rn[h][t] # "none"
                        /\ t \in act[h] => queue'[h][t] # <<>>
      OBVIOUS
    <3>1. /\ t \in active[h] <=> run[h][t] # "none"
          /\ t \in active[h] => queue[h][t] # <<>>
      BY DEF NoLeakedSlot
    <3>2. /\ act[h] = IF h = g THEN active[h] \ {s} ELSE active[h]
          /\ rn[h][t] = IF h = g /\ t = s THEN "none" ELSE run[h][t]
      BY <1>1
    <3> QED BY <1>3, <3>1, <3>2
  <2>3. gen = 1 => \A t \in Sessions : rn[gen][t] # "none" => cn[t] = gen
    <3> SUFFICES ASSUME gen = 1, NEW t \in Sessions, rn[gen][t] # "none" PROVE cn[t] = gen
      OBVIOUS
    <3>1. t # s /\ run[gen][t] # "none"
      BY <1>1, <1>3
    <3>2. cancel[t] = gen
      BY <1>2, <3>1 DEF Abortable
    <3> QED BY <1>1, <3>1, <3>2
  <2>4. \/ Dispatch(queue', act, rn, cn, act[gen], faults)
        \/ faults' = faults + 1 /\ active' = act /\ run' = rn /\ cancel' = cn
    BY <1>5 DEF ReleaseSlot
  <2> HIDE DEF act, rn, cn
  <2>5. CASE Dispatch(queue', act, rn, cn, act[gen], faults)
    BY <1>1, <2>1, <2>2, <2>3, <2>5, DispatchFaultless
  <2>6. CASE faults' = faults + 1 /\ active' = act /\ run' = rn /\ cancel' = cn
    <3>1. faults' # 0
      BY <1>1, <2>6
    <3> QED BY <2>3, <2>6, <3>1 DEF NoLeakedSlot, WorkConserving, Abortable
  <2> QED BY <2>4, <2>5, <2>6
<1> QED BY <1>4, <1>5

\* Recovery misses no pending job, and the jobs of a recovered queue are in its order.
LEMMA RecoveredQueueSorted ==
  ASSUME line \in [Jobs -> Nat], LineDistinct, NEW s \in Sessions
  PROVE  /\ Len(RecoveredQueue(s)) = Cardinality({j \in Pending : SessionOf[j] = s})
         /\ \A j \in Pending : SessionOf[j] = s =>
              \E i \in 1..Len(RecoveredQueue(s)) : RecoveredQueue(s)[i] = j
         /\ \A i \in 1..Len(RecoveredQueue(s)) :
              /\ RecoveredQueue(s)[i] \in Pending /\ SessionOf[RecoveredQueue(s)[i]] = s
              /\ Cardinality({k \in {j \in Pending : SessionOf[j] = s} :
                                RecoverBefore(k, RecoveredQueue(s)[i])}) = i - 1
<1> USE JobQueueAssumption DEF JobQueueAssumption
<1> DEFINE mine == {j \in Pending : SessionOf[j] = s}
           at(i) == CHOOSE j \in mine : Cardinality({k \in mine : RecoverBefore(k, j)}) = i - 1
           n == Cardinality(mine)
           rank(j) == Cardinality({k \in mine : RecoverBefore(k, j)})
<1>1. mine \in SUBSET Jobs /\ IsFiniteSet(mine)
  <2>1. mine \in SUBSET Jobs
    BY DEF Pending
  <2> QED BY <2>1, FS_Subset
<1>2. StrictOrder(mine, RecoverOrder)
  BY DEF StrictOrder, RecoverOrder, RecoverBefore, LineDistinct, Pending
<1>3. n \in Nat
  BY <1>1, FS_CardinalityType
<1>4. \A j \in mine : rank(j) = Cardinality(Below(mine, RecoverOrder, j))
  <2>1. \A j \in mine : {k \in mine : RecoverBefore(k, j)} = Below(mine, RecoverOrder, j)
    BY <1>1 DEF Below, RecoverOrder
  <2> QED BY <2>1
<1>5. /\ \A j \in mine : rank(j) \in 0..(n - 1)
      /\ \A j, k \in mine : rank(j) = rank(k) => j = k
      /\ \A i \in 1..n : \E j \in mine : rank(j) = i - 1
  <2> HIDE DEF mine, rank
  <2>1. \A j \in mine : rank(j) \in 0..(n - 1)
    BY <1>1, <1>2, <1>4, RankBound DEF n
  <2>2. \A j, k \in mine : rank(j) = rank(k) => j = k
    BY <1>1, <1>2, <1>4, RankInjective
  <2>3. \A i \in 1..n : \E j \in mine : rank(j) = i - 1
    <3> SUFFICES ASSUME NEW i \in 1..n PROVE \E j \in mine : rank(j) = i - 1
      OBVIOUS
    <3>1. i \in 1..Cardinality(mine)
      BY DEF n
    <3>2. PICK j \in mine : Cardinality(Below(mine, RecoverOrder, j)) = i - 1
      BY <1>1, <1>2, <3>1, RankOnto
    <3> QED BY <1>4, <3>2
  <2> QED BY <2>1, <2>2, <2>3
<1>6. /\ Len(RecoveredQueue(s)) = n
      /\ \A i \in 1..n : RecoveredQueue(s)[i] = at(i)
  <2>1. RecoveredQueue(s) = [i \in 1..n |-> at(i)]
    BY DEF RecoveredQueue
  <2> HIDE DEF mine, n, at
  <2> QED BY <2>1, <1>3
<1>7. \A i \in 1..n : at(i) \in mine /\ rank(at(i)) = i - 1
  <2> SUFFICES ASSUME NEW i \in 1..n PROVE at(i) \in mine /\ rank(at(i)) = i - 1
    OBVIOUS
  <2>1. at(i) = CHOOSE j \in mine : rank(j) = i - 1
    OBVIOUS
  <2>2. \E j \in mine : rank(j) = i - 1
    BY <1>5
  <2> HIDE DEF mine, at, rank
  <2> QED BY <2>1, <2>2
<1>8. ASSUME NEW j \in mine PROVE \E i \in 1..n : RecoveredQueue(s)[i] = j
  <2> DEFINE i == rank(j) + 1
  <2>1. rank(j) \in 0..(n - 1)
    BY <1>5
  <2>2. i \in 1..n /\ i - 1 = rank(j)
    <3> HIDE DEF rank, n
    <3> QED BY <1>3, <2>1
  <2> HIDE DEF i
  <2>3. at(i) \in mine /\ rank(at(i)) = rank(j)
    BY <1>7, <2>2
  <2>4. at(i) = j
    <3> HIDE DEF mine, at, rank
    <3> QED BY <1>5, <2>3
  <2> QED BY <1>6, <2>2, <2>4
<1>9. \A i \in 1..n : RecoveredQueue(s)[i] \in mine /\ rank(RecoveredQueue(s)[i]) = i - 1
  <2> HIDE DEF mine, at, rank, n
  <2> QED BY <1>6, <1>7
<1>10. /\ \A j \in Pending : SessionOf[j] = s => j \in mine
       /\ \A j \in mine : j \in Pending /\ SessionOf[j] = s
  OBVIOUS
<1> QED BY <1>6, <1>8, <1>9, <1>10

\* What recovery compacts the log to is what it has put into the queues.
LEMMA InitializeLog == ASSUME IInv, Initialize PROVE LogMatchesMemory'
<1>1. /\ line' = CompactedLog(Pending)
      /\ queue' = [queue EXCEPT ![gen] = [s \in Sessions |-> RecoveredQueue(s)]]
      /\ queue \in [Gens -> [Sessions -> Seq(Jobs)]] /\ gen \in Gens /\ gen' = gen
      /\ line \in [Jobs -> Nat] /\ LineDistinct
  BY DEF Initialize, history, IInv, TypeOK
<1>2. Pending' = Pending
  <2>1. \A j \in Jobs : line'[j] > 0 <=> j \in Pending
    BY <1>1, CompactedLogLines DEF Pending
  <2> QED BY <2>1 DEF Pending
<1>3. \A s \in Sessions : queue'[gen][s] = RecoveredQueue(s)
  BY <1>1
<1>4. ASSUME NEW j \in Pending PROVE j \in JobsIn(queue'[gen])
  <2>1. SessionOf[j] \in Sessions
    BY JobQueueAssumption DEF JobQueueAssumption, Pending
  <2>2. \E i \in 1..Len(RecoveredQueue(SessionOf[j])) : RecoveredQueue(SessionOf[j])[i] = j
    BY <1>1, <2>1, RecoveredQueueSorted
  <2> QED BY <1>3, <2>1, <2>2 DEF JobsIn
<1>5. JobsIn(queue'[gen]) \subseteq Pending
  <2>1. \A s \in Sessions : \A i \in 1..Len(RecoveredQueue(s)) : RecoveredQueue(s)[i] \in Pending
    BY <1>1, RecoveredQueueSorted
  <2> QED BY <1>3, <2>1 DEF JobsIn
<1> QED BY <1>1, <1>2, <1>4, <1>5 DEF LogMatchesMemory

\* The line enqueue appends recovers to the entry it puts at the tail.
LEMMA EnqueueLog ==
  ASSUME NEW j \in Jobs, IInv, LogMatchesMemory, Enqueue(j), faults' = 0 => faults = 0
  PROVE  LogMatchesMemory'
<1> SUFFICES ASSUME faults = 0, gen = 1 PROVE Pending' = JobsIn(queue'[gen])
  BY DEF LogMatchesMemory, Enqueue
<1>1. /\ phase # "down" /\ fate[j] = "new" /\ fate' = [fate EXCEPT ![j] = "pending"]
      /\ queue' = [queue EXCEPT ![gen][SessionOf[j]] = Append(@, j)]
      /\ \E n \in 1..Cardinality(Jobs) : line' = [line EXCEPT ![j] = n]
  BY DEF Enqueue
<1>2. /\ TypeOK /\ Homed /\ NoDuplicate /\ HeldKnown /\ gen \in Gens
      /\ line \in [Jobs -> Nat] /\ queue \in [Gens -> [Sessions -> Seq(Jobs)]]
      /\ SessionOf[j] \in Sessions
  BY JobQueueAssumption DEF IInv, TypeOK, JobQueueAssumption
<1>3. Pending' = Pending \cup {j}
  BY <1>1, <1>2 DEF Pending
<1>4. Pending = JobsIn(queue[gen])
  BY <1>1 DEF LogMatchesMemory
<1>5. JobsIn(queue'[gen]) \subseteq Pending \cup {j}
  <2> SUFFICES ASSUME NEW x \in JobsIn(queue'[gen]), x # j PROVE x \in JobsIn(queue[gen])
    BY <1>4
  <2>s. PICK s \in Sessions : \E i \in 1..Len(queue'[gen][s]) : queue'[gen][s][i] = x
    BY DEF JobsIn
  <2>a. PICK i \in 1..Len(queue'[gen][s]) : queue'[gen][s][i] = x
    BY <2>s
  <2>1. i \in 1..Len(queue[gen][s]) /\ queue'[gen][s][i] = queue[gen][s][i]
    BY <1>1, <1>2, <2>a, AppendingHolds
  <2> QED BY <2>a, <2>1 DEF JobsIn
<1>6. ASSUME NEW s \in Sessions, NEW i \in 1..Len(queue[gen][s])
      PROVE  i \in 1..Len(queue'[gen][s]) /\ queue'[gen][s][i] = queue[gen][s][i]
  <2>1. queue[gen][s] \in Seq(Jobs)
    BY <1>2
  <2>2. queue'[gen][s] = IF s = SessionOf[j] THEN Append(queue[gen][s], j) ELSE queue[gen][s]
    BY <1>1, <1>2
  <2> QED BY <2>1, <2>2
<1>7. JobsIn(queue[gen]) \subseteq JobsIn(queue'[gen])
  BY <1>6 DEF JobsIn
<1>8. j \in JobsIn(queue'[gen])
  <2> DEFINE s == SessionOf[j]
  <2>1. queue'[gen][s] = Append(queue[gen][s], j) /\ queue[gen][s] \in Seq(Jobs)
    BY <1>1, <1>2
  <2>2. Len(queue'[gen][s]) \in 1..Len(queue'[gen][s]) /\ queue'[gen][s][Len(queue'[gen][s])] = j
    BY <2>1
  <2> HIDE DEF s
  <2>3. s \in Sessions
    BY <1>2 DEF s
  <2> QED BY <2>2, <2>3 DEF JobsIn
<1> QED BY <1>3, <1>4, <1>5, <1>7, <1>8

\* The terminal line of processSession takes out of the log what shift takes out of the queue.
LEMMA FinishLog ==
  ASSUME IInv, LogMatchesMemory, NEW g \in Gens, NEW s \in Sessions, run[g][s] # "none",
         faults' = 0 => faults = 0, gen' = gen, phase' = phase,
         queue' = [queue EXCEPT ![g][s] = Tail(@)],
         line' = [line EXCEPT ![Head(queue[g][s])] = 0]
  PROVE  LogMatchesMemory'
<1> DEFINE job == Head(queue[g][s])
<1> SUFFICES ASSUME faults = 0, gen = 1 PROVE Pending' = JobsIn(queue'[gen])
  BY DEF LogMatchesMemory
<1>1. queue[g][s] # <<>> /\ phase # "down" /\ ~(g > gen) /\ g = gen
  BY RunFacts DEF Gens
<1>2. /\ TypeOK /\ Homed /\ NoDuplicate
      /\ line \in [Jobs -> Nat] /\ queue \in [Gens -> [Sessions -> Seq(Jobs)]]
  BY DEF IInv, TypeOK
<1>3. Pending = JobsIn(queue[gen])
  BY <1>1 DEF LogMatchesMemory
<1>4. /\ job \in Jobs /\ Shrinks
      /\ \A h \in Gens, t \in Sessions : \A i \in 1..Len(queue'[h][t]) : queue'[h][t][i] # job
  BY <1>1, <1>2, HeadLeaves
<1>5. Pending' = Pending \ {job}
  BY <1>2, <1>4 DEF Pending
<1>6. ASSUME NEW t \in Sessions, NEW i \in 1..Len(queue'[gen][t])
      PROVE  queue'[gen][t][i] \in JobsIn(queue[gen]) \ {job}
  <2>1. PICK d \in {0, 1} :
          i + d \in 1..Len(queue[gen][t]) /\ queue'[gen][t][i] = queue[gen][t][i + d]
    BY <1>1, <1>4 DEF Shrinks
  <2> QED BY <1>1, <1>4, <2>1 DEF JobsIn
<1>7. ASSUME NEW t \in Sessions, NEW i \in 1..Len(queue[gen][t]), queue[gen][t][i] # job
      PROVE  \E k \in 1..Len(queue'[gen][t]) : queue'[gen][t][k] = queue[gen][t][i]
  <2>1. queue[gen][t] \in Seq(Jobs)
    BY <1>1, <1>2
  <2>2. CASE t = s
    <3>1. queue'[gen][t] = Tail(queue[gen][t]) /\ job = queue[gen][t][1]
      BY <1>1, <1>2, <2>1, <2>2
    <3>2. i # 1
      BY <1>7, <3>1
    <3>3. i - 1 \in 1..Len(queue'[gen][t]) /\ queue'[gen][t][i - 1] = queue[gen][t][i]
      <4> HIDE DEF job
      <4>1. i \in 1..Len(queue[gen][t]) /\ i # 1 /\ queue[gen][t] # <<>>
        BY <3>2
      <4>2. /\ i - 1 \in 1..Len(Tail(queue[gen][t]))
            /\ Tail(queue[gen][t])[i - 1] = queue[gen][t][(i - 1) + 1]
        BY <2>1, <4>1
      <4>3. (i - 1) + 1 = i
        OBVIOUS
      <4>4. queue'[gen][t] = Tail(queue[gen][t])
        BY <3>1
      <4> QED BY <4>2, <4>3, <4>4
    <3> QED BY <3>3
  <2>3. CASE t # s
    <3>1. queue'[gen][t] = queue[gen][t]
      BY <1>1, <1>2, <2>3
    <3> QED BY <3>1
  <2> QED BY <2>2, <2>3
<1>8. JobsIn(queue'[gen]) \subseteq JobsIn(queue[gen]) \ {job}
  <2> SUFFICES ASSUME NEW x \in JobsIn(queue'[gen]) PROVE x \in JobsIn(queue[gen]) \ {job}
    OBVIOUS
  <2>1. PICK t \in Sessions : \E i \in 1..Len(queue'[gen][t]) : queue'[gen][t][i] = x
    BY DEF JobsIn
  <2> QED BY <1>6, <2>1
<1>9. JobsIn(queue[gen]) \ {job} \subseteq JobsIn(queue'[gen])
  <2> HIDE DEF job
  <2> SUFFICES ASSUME NEW t \in Sessions, NEW i \in 1..Len(queue[gen][t]), queue[gen][t][i] # job
               PROVE  queue[gen][t][i] \in JobsIn(queue'[gen])
    BY DEF JobsIn
  <2> QED BY <1>7 DEF JobsIn
<1> QED BY <1>3, <1>5, <1>8, <1>9

\* The service starts empty.
LEMMA FaultlessInit == Init => Faultless
<1> SUFFICES ASSUME Init PROVE Faultless
  OBVIOUS
<1>1. /\ \A g \in Gens : active[g] = {}
      /\ \A g \in Gens, s \in Sessions : run[g][s] = "none"
      /\ gen \in Gens /\ phase = "down"
  BY JobQueueAssumption DEF Init, NoRun, NoActive, Gens, JobQueueAssumption
<1>a. NoLeakedSlot /\ WorkConserving /\ Abortable
  BY <1>1 DEF NoLeakedSlot, WorkConserving, Abortable
<1>2. LogMatchesMemory
  BY <1>1 DEF LogMatchesMemory
<1> QED BY <1>a, <1>2 DEF Faultless

\* Start-up begins no run, so all slots stay free.
LEMMA InitializeFaultless == IInv /\ Faultless /\ Initialize => Faultless'
<1> SUFFICES ASSUME IInv, Faultless, Initialize PROVE Faultless'
  OBVIOUS
<1>1. /\ phase = "down" /\ gen' = gen /\ gen \in Gens /\ run = NoRun
      /\ UNCHANGED <<active, run, cancel, faults>>
      /\ active \in [Gens -> SUBSET Sessions]
  BY DEF Initialize, history, IInv, LaterEmpty, TypeOK
<1>2. faults = 0 => \A g \in Gens : active[g] = {}
  BY <1>1 DEF Faultless, NoLeakedSlot, NoRun
<1>3. NoLeakedSlot'
  BY <1>1, <1>2 DEF NoLeakedSlot, NoRun
<1>4. WorkConserving' /\ Abortable'
  BY <1>1, <1>2 DEF WorkConserving, Abortable, NoRun
<1> QED BY <1>3, <1>4, InitializeLog DEF Faultless

\* An enqueue without a fault, with the dispatch it ends in.
LEMMA EnqueueFaultless ==
  ASSUME NEW j \in Jobs, IInv, Faultless, Enqueue(j)
  PROVE  Faultless'
<1>1. /\ Dispatch(queue', active, run, cancel, reported, faults)
      /\ queue' = [queue EXCEPT ![gen][SessionOf[j]] = Append(@, j)]
      /\ fate[j] = "new" /\ fate' = [fate EXCEPT ![j] = "pending"]
      /\ phase # "down" /\ gen' = gen /\ phase' = phase
  BY DEF Enqueue
<1>2. /\ TypeOK /\ Homed /\ NoDuplicate /\ HeldKnown /\ gen \in Gens
      /\ active \in [Gens -> SUBSET Sessions] /\ run \in [Gens -> [Sessions -> RunState]]
      /\ faults \in Nat
  BY DEF IInv, TypeOK
<1>3. \A h \in Gens, t \in Sessions : queue[h][t] # <<>> => queue'[h][t] # <<>>
  BY <1>1, <1>2, AppendingHolds
<1>4. faults = 0 => \A g \in Gens, s \in Sessions :
        /\ s \in active[g] <=> run[g][s] # "none"
        /\ s \in active[g] => queue'[g][s] # <<>>
  BY <1>3 DEF Faultless, NoLeakedSlot
<1>5. gen = 1 => \A s \in Sessions : run[gen][s] # "none" => cancel[s] = gen
  BY <1>1 DEF Faultless, Abortable
<1>6. NoLeakedSlot' /\ WorkConserving' /\ Abortable'
  BY <1>1, <1>2, <1>4, <1>5, DispatchFaultless
<1>7. faults' = 0 => faults = 0
  <2> DEFINE q == queue'
  <2>1. Dispatch(q, active, run, cancel, reported, faults)
    BY <1>1
  <2> HIDE DEF q
  <2>2. \E P \in SUBSET Candidates(q[gen], active[gen]) : \E broken \in SUBSET P :
          Dispatched(q, active, run, cancel, reported, faults, P, broken)
    BY <1>2, <2>1, DispatchEffect
  <2>3. faults' \in Nat /\ faults' >= faults
    BY <2>2 DEF Dispatched
  <2> QED BY <1>2, <2>3
<1>8. LogMatchesMemory'
  BY <1>7, EnqueueLog DEF Faultless
<1> QED BY <1>6, <1>8 DEF Faultless

\* The end of a run without a fault frees its slot and dispatches the next session.
LEMMA FinishFaultless ==
  ASSUME NEW g \in Gens, NEW s \in Sessions, NEW outcome \in Outcomes,
         IInv, Faultless, Finish(g, s, outcome)
  PROVE  Faultless'
<1>1. /\ run[g][s] # "none"
      /\ queue' = [queue EXCEPT ![g][s] = Tail(@)]
      /\ line' = [line EXCEPT ![Head(queue[g][s])] = 0]
      /\ gen' = gen /\ phase' = phase
  BY DEF Finish, Settle
<1>2. /\ gen \in Gens /\ faults \in Nat /\ queue \in [Gens -> [Sessions -> Seq(Jobs)]]
      /\ active \in [Gens -> SUBSET Sessions]
  BY DEF IInv, TypeOK
<1>3. IF queue'[g][s] # <<>> THEN StartNext(g, s) ELSE ReleaseSlot(g, s)
  <2>1. queue'[g][s] = Tail(queue[g][s])
    BY <1>1, <1>2
  <2> QED BY <2>1 DEF Finish
<1>4. NoLeakedSlot' /\ WorkConserving' /\ Abortable'
  BY <1>1, <1>3, LoopFaultless DEF Faultless
<1>5. faults' = 0 => faults = 0
  <2>1. CASE StartNext(g, s)
    BY <1>2, <2>1 DEF StartNext
  <2>2. CASE ReleaseSlot(g, s)
    <3> DEFINE q   == queue'
               act == [active EXCEPT ![g] = @ \ {s}]
               rn  == [run EXCEPT ![g][s] = "none"]
               cn  == [cancel EXCEPT ![s] = 0]
               rep == act[gen]
    <3>1. Dispatch(q, act, rn, cn, rep, faults) \/ faults' = faults + 1
      BY <2>2 DEF ReleaseSlot
    <3>2. act \in [Gens -> SUBSET Sessions]
      BY <1>2
    <3> HIDE DEF q, act, rn, cn, rep
    <3>3. CASE Dispatch(q, act, rn, cn, rep, faults)
      <4>1. \E P \in SUBSET Candidates(q[gen], act[gen]) : \E broken \in SUBSET P :
              Dispatched(q, act, rn, cn, rep, faults, P, broken)
        BY <1>2, <3>2, <3>3, DispatchEffect
      <4>2. faults' \in Nat /\ faults' >= faults
        BY <4>1 DEF Dispatched
      <4> QED BY <1>2, <4>2
    <3> QED BY <1>2, <3>1, <3>3
  <2> QED BY <1>3, <2>1, <2>2
<1>6. LogMatchesMemory'
  BY <1>1, <1>5, FinishLog DEF Faultless
<1> QED BY <1>4, <1>6 DEF Faultless

\* A write that throws is a fault, and an abort needs no run that is gone.
LEMMA FinishThrowsFaultless ==
  ASSUME NEW g \in Gens, NEW s \in Sessions, NEW logged \in BOOLEAN,
         IInv, Faultless, FinishThrows(g, s, logged)
  PROVE  Faultless'
<1>1. /\ faults' = faults + 1 /\ faults \in Nat
      /\ run' = [run EXCEPT ![g][s] = "none"] /\ cancel' = [cancel EXCEPT ![s] = 0]
      /\ run \in [Gens -> [Sessions -> RunState]] /\ cancel \in [Sessions -> 0..MaxGen]
      /\ gen' = gen /\ phase' = phase /\ gen \in Gens /\ ~(g > gen) /\ phase # "down"
  BY RunFacts DEF FinishThrows, IInv, TypeOK
<1>2. Abortable'
  <2> SUFFICES ASSUME gen = 1, NEW t \in Sessions, run'[gen][t] # "none"
               PROVE  cancel'[t] = gen
    BY <1>1 DEF Abortable
  <2>1. g = gen
    BY <1>1 DEF Gens
  <2>2. t # s /\ run[gen][t] # "none"
    BY <1>1, <2>1
  <2>3. cancel[t] = gen
    BY <1>1, <2>2 DEF Faultless, Abortable
  <2> QED BY <1>1, <2>2, <2>3
<1>3. faults' # 0
  BY <1>1
<1> QED BY <1>2, <1>3 DEF Faultless, NoLeakedSlot, WorkConserving, LogMatchesMemory

\* A stop without a fault empties the waiting entries and leaves the run its slot.
LEMMA StopFaultless ==
  ASSUME NEW s \in Sessions, NEW rewritten \in BOOLEAN, IInv, Faultless, Stop(s, rewritten)
  PROVE  Faultless'
<1>1. /\ gen \in Gens /\ gen' = gen /\ phase' = phase /\ phase # "down"
      /\ active' = active /\ cancel' = cancel
      /\ faults' = (IF rewritten THEN faults ELSE faults + 1)
      /\ queue' = [queue EXCEPT ![gen][s] = Kept(s)]
      /\ queue \in [Gens -> [Sessions -> Seq(Jobs)]] /\ faults \in Nat
      /\ run \in [Gens -> [Sessions -> RunState]] /\ cancel \in [Sessions -> 0..MaxGen]
      /\ active \in [Gens -> SUBSET Sessions]
  BY DEF Stop, IInv, TypeOK
<1>2. queue[gen][s] \in Seq(Jobs)
  BY <1>1
<1>3. /\ Kept(s) \in Seq(Jobs)
      /\ queue[gen][s] = <<>> => Kept(s) = <<>>
      /\ s \in active[gen] /\ queue[gen][s] # <<>> => Kept(s) # <<>>
  BY <1>2 DEF Kept
<1>4. faults' = 0 => faults = 0 /\ rewritten
  BY <1>1
<1>5. \A g \in Gens, t \in Sessions :
        queue'[g][t] = IF g = gen /\ t = s THEN Kept(s) ELSE queue[g][t]
  BY <1>1
<1>6. \A g \in Gens, t \in Sessions : run'[g][t] # "none" <=> run[g][t] # "none"
  <2>1. CASE run' = run
    BY <2>1
  <2>2. CASE run' # run
    <3>1. cancel[s] # 0 /\ run[cancel[s]][s] = "running" /\ run' = [run EXCEPT ![cancel[s]][s] = "aborted"]
      BY <2>2 DEF Stop
    <3>2. cancel[s] \in Gens
      BY <1>1, <3>1, JobQueueAssumption DEF Gens, JobQueueAssumption
    <3> QED BY <1>1, <3>1, <3>2
  <2> QED BY <2>1, <2>2
<1>7. NoLeakedSlot'
  <2> SUFFICES ASSUME faults' = 0, NEW g \in Gens, NEW t \in Sessions
               PROVE  /\ t \in active[g] <=> run'[g][t] # "none"
                      /\ t \in active[g] => queue'[g][t] # <<>>
    BY <1>1 DEF NoLeakedSlot
  <2>1. /\ t \in active[g] <=> run[g][t] # "none"
        /\ t \in active[g] => queue[g][t] # <<>>
    BY <1>4 DEF Faultless, NoLeakedSlot
  <2> QED BY <1>3, <1>5, <1>6, <2>1
<1>8. WorkConserving'
  <2> SUFFICES ASSUME faults' = 0, active[gen] # {}, Cardinality(active[gen]) < MaxConcurrent
               PROVE  Candidates(queue'[gen], active[gen]) = {}
    BY <1>1 DEF WorkConserving
  <2>1. Candidates(queue[gen], active[gen]) = {}
    BY <1>4 DEF Faultless, WorkConserving
  <2>2. \A t \in Sessions : queue'[gen][t] # <<>> => queue[gen][t] # <<>>
    BY <1>1, <1>3, <1>5
  <2> QED BY <2>1, <2>2 DEF Candidates
<1>9. Abortable'
  BY <1>1, <1>6 DEF Faultless, Abortable
<1>10. LogMatchesMemory'
  <2> SUFFICES ASSUME faults' = 0, gen = 1 PROVE Pending' = JobsIn(queue'[gen])
    BY <1>1 DEF LogMatchesMemory
  <2>1. CASE queue[gen][s] = <<>>
    <3>1. queue' = queue
      BY <1>1, <1>3, <2>1
    <3>2. line' = line
      BY <2>1 DEF Stop
    <3>3. Pending = JobsIn(queue[gen])
      BY <1>1, <1>4 DEF Faultless, LogMatchesMemory
    <3> QED BY <3>1, <3>2, <3>3 DEF Pending
  <2>2. CASE queue[gen][s] # <<>>
    <3>1. line' = CompactedLog(JobsIn(queue'[gen]))
      BY <1>1, <1>4, <2>2 DEF Stop
    <3>2. \A t \in Sessions : queue'[gen][t] \in Seq(Jobs)
      BY <1>1, <1>3, <1>5
    <3>3. JobsIn(queue'[gen]) \in SUBSET Jobs
      <4>1. \A t \in Sessions : \A i \in 1..Len(queue'[gen][t]) : queue'[gen][t][i] \in Jobs
        BY <3>2
      <4> QED BY <4>1 DEF JobsIn
    <3>4. \A j \in Jobs : line'[j] > 0 <=> j \in JobsIn(queue'[gen])
      BY <3>1, <3>3, CompactedLogLines
    <3> QED BY <3>3, <3>4 DEF Pending
  <2> QED BY <2>1, <2>2
<1> QED BY <1>7, <1>8, <1>9, <1>10 DEF Faultless

\* The maps made after a removal are empty, and so are their slots.
LEMMA RemoveRuntimeFaultless == IInv /\ Faultless /\ RemoveRuntime => Faultless'
<1> SUFFICES ASSUME IInv, Faultless, RemoveRuntime PROVE Faultless'
  OBVIOUS
<1>1. /\ gen' = gen + 1 /\ gen' \in Gens /\ gen \in Gens /\ gen' > gen /\ gen' # 1
      /\ UNCHANGED <<queue, active, run, cancel, faults>>
      /\ active \in [Gens -> SUBSET Sessions]
  BY JobQueueAssumption DEF RemoveRuntime, history, IInv, TypeOK, Gens, JobQueueAssumption
<1>2. NoLeakedSlot'
  BY <1>1 DEF Faultless, NoLeakedSlot
<1>3. WorkConserving'
  <2> SUFFICES ASSUME faults = 0 PROVE active[gen'] = {}
    BY <1>1 DEF WorkConserving
  <2>1. \A s \in Sessions : queue[gen'][s] = <<>>
    BY <1>1 DEF IInv, LaterEmpty
  <2>2. \A s \in Sessions : s \notin active[gen']
    BY <1>1, <2>1 DEF Faultless, NoLeakedSlot
  <2> QED BY <1>1, <2>2
<1> QED BY <1>1, <1>2, <1>3 DEF Faultless, Abortable, LogMatchesMemory

\* Every step without a fault keeps the slots and the log exact.
LEMMA NextFaultless == IInv /\ Faultless /\ [Next]_vars => Faultless'
<1> SUFFICES ASSUME IInv, Faultless, [Next]_vars PROVE Faultless'
  OBVIOUS
<1>1. CASE Initialize
  BY <1>1, InitializeFaultless
<1>2. ASSUME NEW j \in Jobs, Enqueue(j) PROVE Faultless'
  BY <1>2, EnqueueFaultless
<1>3. ASSUME NEW g \in Gens, NEW s \in Sessions, NEW outcome \in Outcomes, Finish(g, s, outcome)
      PROVE  Faultless'
  BY <1>3, FinishFaultless
<1>4. ASSUME NEW g \in Gens, NEW s \in Sessions, NEW logged \in BOOLEAN, FinishThrows(g, s, logged)
      PROVE  Faultless'
  BY <1>4, FinishThrowsFaultless
<1>5. ASSUME NEW s \in Sessions, NEW rewritten \in BOOLEAN, Stop(s, rewritten) PROVE Faultless'
  BY <1>5, StopFaultless
<1>6. CASE RemoveRuntime
  BY <1>6, RemoveRuntimeFaultless
<1>7. CASE Exit \/ Crash
  <2>1. LoseMemory
    BY <1>7 DEF Exit, Crash
  <2>2. NoLeakedSlot' /\ WorkConserving'
    BY <2>1, JobQueueAssumption
    DEF LoseMemory, Idle, NoActive, NoRun, NoLeakedSlot, WorkConserving, Gens, JobQueueAssumption
  <2>3. Abortable' /\ LogMatchesMemory'
    BY <2>1 DEF LoseMemory, Abortable, LogMatchesMemory
  <2> QED BY <2>2, <2>3 DEF Faultless
<1>8. CASE /\ UNCHANGED <<gen, queue, active, run, cancel, line, faults>>
           /\ phase = "down" => phase' = "down"
  <2>1. NoLeakedSlot' /\ WorkConserving'
    BY <1>8 DEF Faultless, NoLeakedSlot, WorkConserving
  <2>2. Abortable' /\ LogMatchesMemory'
    BY <1>8 DEF Faultless, Abortable, LogMatchesMemory, Pending
  <2> QED BY <2>1, <2>2 DEF Faultless
<1>9. Shutdown \/ UNCHANGED vars \/ (\E ok \in BOOLEAN : RuntimeRemoved(ok))
        => /\ UNCHANGED <<gen, queue, active, run, cancel, line, faults>>
           /\ phase = "down" => phase' = "down"
  BY DEF Shutdown, RuntimeRemoved, vars, memory, history
<1> QED BY <1>1, <1>2, <1>3, <1>4, <1>5, <1>6, <1>7, <1>8, <1>9 DEF Next

\* In every state before the first fault.
LEMMA FaultlessInvariance == Spec => [](IInv /\ Faultless)
<1>1. Init => IInv /\ Faultless
  BY InitIInv, FaultlessInit
<1>2. IInv /\ Faultless /\ [Next]_vars => IInv' /\ Faultless'
  BY NextIInv, NextFaultless
<1> QED BY <1>1, <1>2, PTL DEF Spec

\* Without a fault a session holds a slot exactly while a processSession runs it, for a
\* job at its head (dispatchAgent and the two ends of processSession, job-queue.ts).
THEOREM NoSlotLeaks == Spec => []NoLeakedSlot
<1>1. Faultless => NoLeakedSlot
  BY DEF Faultless
<1> QED BY <1>1, FaultlessInvariance, PTL

\* Without a fault, while any session runs, no session waits beside a free slot.
THEOREM SlotsAreUsed == Spec => []WorkConserving
<1>1. Faultless => WorkConserving
  BY DEF Faultless
<1> QED BY <1>1, FaultlessInvariance, PTL

\* Whatever store call throws, a run of the service's only maps can be aborted by /stop:
\* startSession registers the controller before runJob and nothing replaces it.
THEOREM RunsAreAbortable == Spec => []Abortable
<1>1. Faultless => Abortable
  BY DEF Faultless
<1> QED BY <1>1, FaultlessInvariance, PTL

\* Without a fault or a removal the log recovers to exactly the jobs in memory, in every
\* state between two handlers (enqueue, the terminal events, stopSession, initialize).
THEOREM LogIsExact == Spec => []LogMatchesMemory
<1>1. Faultless => LogMatchesMemory
  BY DEF Faultless
<1> QED BY <1>1, FaultlessInvariance, PTL

\* The effect of one dispatch on the report: a handler without a fault that changes the
\* active sessions writes them.
LEMMA DispatchReport ==
  ASSUME NEW q, NEW act \in [Gens -> SUBSET Sessions], NEW rn, NEW cn, NEW rep, NEW f \in Nat,
         gen \in Gens, gen' = gen, Dispatch(q, act, rn, cn, rep, f),
         faults' = f
  PROVE  reported' = active'[gen] \/ (active'[gen] = act[gen] /\ reported' = rep)
<1>1. PICK P \in SUBSET Candidates(q[gen], act[gen]) : \E broken \in SUBSET P :
        Dispatched(q, act, rn, cn, rep, f, P, broken)
  BY DispatchEffect
<1>2. /\ active'[gen] = act[gen] \cup P
      /\ reported' = IF P = {} THEN rep ELSE act[gen] \cup P
  BY <1>1 DEF Dispatched
<1> QED BY <1>2

\* The runtime state file follows the active runs: the handler that changes them without
\* a fault writes them (the calls of syncRuntimeState in startSession and processSession).
THEOREM ReportIsCurrent == Spec => ReportFollows
<1> DEFINE A == active'[gen] # active[gen] /\ phase' # "down" /\ faults' = faults /\ gen' = 1
                  => reported' = active'[gen]
<1>1. IInv /\ [Next]_vars => [A]_vars
  <2> SUFFICES ASSUME IInv, Next, active'[gen] # active[gen], phase' # "down", faults' = faults,
                      gen' = 1
               PROVE  reported' = active'[gen]
    OBVIOUS
  <2>0. /\ gen \in Gens /\ faults \in Nat /\ active \in [Gens -> SUBSET Sessions]
        /\ queue \in [Gens -> [Sessions -> Seq(Jobs)]]
    BY DEF IInv, TypeOK
  <2> DEFINE q == queue'
  <2>1. ASSUME NEW j \in Jobs, Enqueue(j) PROVE reported' = active'[gen]
    <3>1. Dispatch(q, active, run, cancel, reported, faults) /\ gen' = gen
      BY <2>1 DEF Enqueue
    <3> HIDE DEF q
    <3> QED BY <2>0, <3>1, DispatchReport
  <2>2. ASSUME NEW g \in Gens, NEW s \in Sessions, NEW outcome \in Outcomes, Finish(g, s, outcome)
        PROVE  reported' = active'[gen]
    <3> DEFINE act == [active EXCEPT ![g] = @ \ {s}]
               rn  == [run EXCEPT ![g][s] = "none"]
               cn  == [cancel EXCEPT ![s] = 0]
               rep == act[gen]
    <3>1. ReleaseSlot(g, s) /\ gen' = gen
      BY <2>2 DEF Finish, StartNext
    <3>2. Dispatch(q, act, rn, cn, rep, faults) \/ faults' = faults + 1
      BY <3>1 DEF ReleaseSlot
    <3>3. act \in [Gens -> SUBSET Sessions] /\ faults' # faults + 1
      BY <2>0
    <3>4. rep = act[gen]
      OBVIOUS
    <3> HIDE DEF q, act, rn, cn, rep
    <3>5. reported' = active'[gen] \/ (active'[gen] = act[gen] /\ reported' = rep)
      BY <2>0, <3>1, <3>2, <3>3, DispatchReport
    <3> QED BY <3>4, <3>5
  <2>3. RemoveRuntime => gen' # 1
    BY <2>0 DEF RemoveRuntime, Gens
  <2>4. Exit \/ Crash => phase' = "down"
    BY DEF Exit, Crash, LoseMemory
  <2>5. ASSUME NEW g \in Gens, NEW s \in Sessions, NEW logged \in BOOLEAN
        PROVE  FinishThrows(g, s, logged) => active' = active
    BY DEF FinishThrows
  <2>6. ASSUME NEW s \in Sessions, NEW rewritten \in BOOLEAN
        PROVE  Stop(s, rewritten) => active' = active
    BY DEF Stop
  <2>7. Initialize \/ Shutdown \/ (\E ok \in BOOLEAN : RuntimeRemoved(ok)) => active' = active
    BY DEF Initialize, Shutdown, RuntimeRemoved, memory
  <2> QED BY <2>1, <2>2, <2>3, <2>4, <2>5, <2>6, <2>7 DEF Next
<1> QED BY <1>1, Invariance, PTL DEF Spec, ReportFollows

-----------------------------------------------------------------------------
(* The refinement of DurableFifo. *)

\* As many jobs as places, where no job has two.
LEMMA PrefixSize ==
  ASSUME NEW q \in Seq(Jobs), NEW n \in 0..Len(q),
         \A i, k \in 1..Len(q) : q[i] = q[k] => i = k
  PROVE  Cardinality({q[i] : i \in 1..n}) = n
<1> DEFINE S == 1..n
           T == {q[i] : i \in 1..n}
           f == [i \in S |-> q[i]]
<1>1. n \in Nat /\ n <= Len(q)
  OBVIOUS
<1>2. IsFiniteSet(S) /\ Cardinality(S) = n
  <2>1. 1 \in Int /\ n \in Int
    OBVIOUS
  <2>2. IsFiniteSet(S) /\ Cardinality(S) = IF 1 > n THEN 0 ELSE n - 1 + 1
    BY <2>1, FS_Interval, Zenon
  <2> QED BY <1>1, <2>2
<1>3. \A i \in S : i \in 1..Len(q)
  BY <1>1
<1>4. f \in Bijection(S, T)
  <2>1. f \in [S -> T]
    OBVIOUS
  <2>2. \A i, k \in S : f[i] = f[k] => i = k
    BY <1>3
  <2>3. \A x \in T : \E i \in S : f[i] = x
    OBVIOUS
  <2> HIDE DEF S, T, f
  <2>4. f \in Surjection(S, T)
    BY <2>1, <2>3 DEF Surjection
  <2>5. IsInjective(f)
    BY <2>1, <2>2 DEF IsInjective
  <2>6. f \in Injection(S, T)
    BY <2>1, <2>5 DEF Injection
  <2> QED BY <2>4, <2>6 DEF Bijection
<1>5. Cardinality(T) = Cardinality(S)
  <2> HIDE DEF S, T, f
  <2> QED BY <1>2, <1>4, FS_Bijection DEF ExistsBijection
<1> QED BY <1>2, <1>5

\* A queue of all the pending jobs of a session in the order of their creation is what
\* recovery makes of the log.
LEMMA RecoveredIs ==
  ASSUME line \in [Jobs -> Nat], LineDistinct, NEW s \in Sessions, NEW q \in Seq(Jobs),
         \A i \in 1..Len(q) : q[i] \in Pending /\ SessionOf[q[i]] = s,
         \A j \in Pending : SessionOf[j] = s => \E i \in 1..Len(q) : q[i] = j,
         \A i, k \in 1..Len(q) : i < k => CreatedAt[q[i]] < CreatedAt[q[k]]
  PROVE  RecoveredQueue(s) = q
<1> USE JobQueueAssumption DEF JobQueueAssumption
<1> DEFINE mine == {j \in Pending : SessionOf[j] = s}
           rank(j) == Cardinality({k \in mine : RecoverBefore(k, j)})
<1>1. mine = {q[i] : i \in 1..Len(q)}
  OBVIOUS
<1>2. \A i \in 1..Len(q) : q[i] \in Jobs /\ CreatedAt[q[i]] \in Nat
  <2>1. \A i \in 1..Len(q) : q[i] \in Jobs
    OBVIOUS
  <2>2. \A j \in Jobs : CreatedAt[j] \in Nat
    OBVIOUS
  <2> QED BY <2>1, <2>2
<1>3. \A i, k \in 1..Len(q) : q[i] = q[k] => i = k
  BY <1>2
<1>4. ASSUME NEW i \in 1..Len(q) PROVE q[i] \in mine /\ rank(q[i]) = i - 1
  <2>1. i - 1 \in 0..Len(q)
    OBVIOUS
  <2>2. \A m \in 1..Len(q) : RecoverBefore(q[m], q[i]) <=> m < i
    <3> SUFFICES ASSUME NEW m \in 1..Len(q) PROVE RecoverBefore(q[m], q[i]) <=> m < i
      OBVIOUS
    <3>1. CASE m < i
      BY <3>1 DEF RecoverBefore
    <3>2. CASE m = i
      <4>1. line[q[i]] \in Nat
        BY <1>2
      <4> QED BY <1>2, <3>2, <4>1 DEF RecoverBefore
    <3>3. CASE i < m
      <4>1. CreatedAt[q[i]] < CreatedAt[q[m]]
        BY <3>3
      <4> QED BY <1>2, <3>3, <4>1 DEF RecoverBefore
    <3> QED BY <3>1, <3>2, <3>3
  <2>3. {k \in mine : RecoverBefore(k, q[i])} = {q[m] : m \in 1..(i - 1)}
    <3>1. \A m \in 1..(i - 1) : m \in 1..Len(q) /\ m < i
      OBVIOUS
    <3>2. \A m \in 1..Len(q) : m < i => m \in 1..(i - 1)
      OBVIOUS
    <3>3. ASSUME NEW k \in mine, RecoverBefore(k, q[i])
          PROVE  k \in {q[m] : m \in 1..(i - 1)}
      <4>1. PICK m \in 1..Len(q) : k = q[m]
        BY <1>1
      <4>2. m \in 1..(i - 1)
        BY <2>2, <3>2, <3>3, <4>1
      <4> QED BY <4>1, <4>2
    <3>4. ASSUME NEW m \in 1..(i - 1) PROVE q[m] \in mine /\ RecoverBefore(q[m], q[i])
      BY <1>1, <2>2, <3>1
    <3> HIDE DEF mine
    <3> QED BY <3>3, <3>4
  <2>4. Cardinality({q[m] : m \in 1..(i - 1)}) = i - 1
    BY <1>3, <2>1, PrefixSize
  <2> QED BY <2>3, <2>4
<1>5. /\ Len(RecoveredQueue(s)) = Cardinality(mine)
      /\ \A i \in 1..Len(RecoveredQueue(s)) :
           RecoveredQueue(s)[i] \in mine /\ rank(RecoveredQueue(s)[i]) = i - 1
  BY RecoveredQueueSorted
<1>6. Cardinality(mine) = Len(q)
  <2>1. Len(q) \in 0..Len(q)
    <3>1. Len(q) \in Nat
      OBVIOUS
    <3> QED BY ONLY <3>1
  <2>2. Cardinality({q[i] : i \in 1..Len(q)}) = Len(q)
    BY <1>3, <2>1, PrefixSize
  <2> QED BY <1>1, <2>2
<1>7. \A j, k \in mine : rank(j) = rank(k) => j = k
  <2>1. mine \in SUBSET Jobs /\ IsFiniteSet(mine)
    <3>1. mine \in SUBSET Jobs
      BY DEF Pending
    <3> QED BY <3>1, FS_Subset
  <2>2. StrictOrder(mine, RecoverOrder)
    BY DEF StrictOrder, RecoverOrder, RecoverBefore, LineDistinct, Pending
  <2>3. \A j \in mine : {k \in mine : RecoverBefore(k, j)} = Below(mine, RecoverOrder, j)
    BY <2>1 DEF Below, RecoverOrder
  <2>4. \A j \in mine : rank(j) = Cardinality(Below(mine, RecoverOrder, j))
    BY <2>3
  <2> HIDE DEF mine, rank
  <2> QED BY <2>1, <2>2, <2>4, RankInjective
<1>8. \A i \in 1..Len(q) : RecoveredQueue(s)[i] = q[i]
  <2> HIDE DEF mine, rank
  <2> QED BY <1>4, <1>5, <1>6, <1>7
<1>9. RecoveredQueue(s) \in Seq(Jobs)
  BY RecoveredQueueJobs
<1> QED BY <1>5, <1>6, <1>8, <1>9

\* What a step keeps of a queue stays in its order.
LEMMA ShrinkingOldest ==
  ASSUME OldestFirst, Shrinks, gen \in Gens, gen' = gen
  PROVE  OldestFirst'
<1> SUFFICES ASSUME NEW s \in Sessions, NEW i \in 1..Len(queue'[gen][s]),
                    NEW k \in 1..Len(queue'[gen][s]), i < k
             PROVE  CreatedAt[queue'[gen][s][i]] < CreatedAt[queue'[gen][s][k]]
  BY DEF OldestFirst
<1>1. PICK d \in {0, 1} : \A m \in 1..Len(queue'[gen][s]) :
        m + d \in 1..Len(queue[gen][s]) /\ queue'[gen][s][m] = queue[gen][s][m + d]
  BY DEF Shrinks
<1>2. i + d < k + d
  BY <1>1
<1>3. CreatedAt[queue[gen][s][i + d]] < CreatedAt[queue[gen][s][k + d]]
  BY <1>1, <1>2 DEF OldestFirst
<1> QED BY <1>1, <1>3

\* Every queue is in the order of creation: a job is accepted at a time no earlier than
\* that of any other, and recovery sorts by it.
LEMMA NextOldest == NoTies /\ IInv /\ OldestFirst /\ [Next]_vars => OldestFirst'
<1> SUFFICES ASSUME NoTies, IInv, OldestFirst, [Next]_vars PROVE OldestFirst'
  OBVIOUS
<1> USE JobQueueAssumption DEF JobQueueAssumption
<1>0. /\ TypeOK /\ Homed /\ NoDuplicate /\ HeldKnown /\ gen \in Gens
      /\ queue \in [Gens -> [Sessions -> Seq(Jobs)]]
      /\ line \in [Jobs -> Nat] /\ LineDistinct
  BY DEF IInv, TypeOK
<1>1. CASE Initialize
  <2>1. gen' = gen /\ \A s \in Sessions : queue'[gen][s] = RecoveredQueue(s)
    BY <1>0, <1>1 DEF Initialize
  <2> SUFFICES ASSUME NEW s \in Sessions, NEW i \in 1..Len(RecoveredQueue(s)),
                      NEW k \in 1..Len(RecoveredQueue(s)), i < k
               PROVE  CreatedAt[RecoveredQueue(s)[i]] < CreatedAt[RecoveredQueue(s)[k]]
    BY <2>1 DEF OldestFirst
  <2> DEFINE a == RecoveredQueue(s)[i]
             b == RecoveredQueue(s)[k]
             mine == {j \in Pending : SessionOf[j] = s}
  <2>2. /\ a \in mine /\ Cardinality({j \in mine : RecoverBefore(j, a)}) = i - 1
        /\ b \in mine /\ Cardinality({j \in mine : RecoverBefore(j, b)}) = k - 1
    BY <1>0, RecoveredQueueSorted
  <2>3. mine \in SUBSET Jobs /\ IsFiniteSet(mine)
    <3>1. mine \in SUBSET Jobs
      BY DEF Pending
    <3> QED BY <3>1, FS_Subset
  <2>4. StrictOrder(mine, RecoverOrder)
    BY <1>0 DEF StrictOrder, RecoverOrder, RecoverBefore, LineDistinct, Pending
  <2>5. \A x \in mine : {j \in mine : RecoverBefore(j, x)} = Below(mine, RecoverOrder, x)
    BY <2>3 DEF Below, RecoverOrder
  <2> HIDE DEF mine, a, b
  <2>6. ~ (<<b, a>> \in RecoverOrder)
    <3> SUFFICES ASSUME <<b, a>> \in RecoverOrder PROVE FALSE
      OBVIOUS
    <3>1. Cardinality(Below(mine, RecoverOrder, b)) < Cardinality(Below(mine, RecoverOrder, a))
      BY <2>2, <2>3, <2>4, RankIncreases
    <3>2. k - 1 < i - 1
      BY <2>2, <2>5, <3>1
    <3> QED BY <3>2
  <2>7. a # b
    <3>1. i - 1 # k - 1
      OBVIOUS
    <3> QED BY <2>2, <3>1
  <2>8. RecoverBefore(a, b)
    BY <2>2, <2>4, <2>6, <2>7 DEF StrictOrder, RecoverOrder
  <2>9. a \in Jobs /\ b \in Jobs /\ SessionOf[a] = SessionOf[b]
    BY <2>2, <2>3 DEF mine
  <2>10. CreatedAt[a] # CreatedAt[b]
    BY <2>7, <2>9 DEF NoTies
  <2>11. CreatedAt[a] < CreatedAt[b]
    BY <2>8, <2>10 DEF RecoverBefore
  <2> QED BY <2>11 DEF a, b
<1>2. ASSUME NEW j \in Jobs, Enqueue(j) PROVE OldestFirst'
  <2>1. /\ gen' = gen /\ fate[j] = "new" /\ fate' = [fate EXCEPT ![j] = "pending"]
        /\ queue' = [queue EXCEPT ![gen][SessionOf[j]] = Append(@, j)]
        /\ \A k \in Jobs : fate[k] # "new" => CreatedAt[k] <= CreatedAt[j]
    BY <1>2 DEF Enqueue
  <2> SUFFICES ASSUME NEW s \in Sessions, NEW i \in 1..Len(queue'[gen][s]),
                      NEW k \in 1..Len(queue'[gen][s]), i < k
               PROVE  CreatedAt[queue'[gen][s][i]] < CreatedAt[queue'[gen][s][k]]
    BY <2>1 DEF OldestFirst
  <2>2. queue[gen][s] \in Seq(Jobs)
    BY <1>0
  <2>3. CASE s # SessionOf[j]
    <3>1. queue'[gen][s] = queue[gen][s]
      BY <1>0, <2>1, <2>3
    <3> QED BY <3>1 DEF OldestFirst
  <2>4. CASE s = SessionOf[j]
    <3>1. queue'[gen][s] = Append(queue[gen][s], j)
      BY <1>0, <2>1, <2>4
    <3>2. i \in 1..Len(queue[gen][s]) /\ queue'[gen][s][i] = queue[gen][s][i]
      BY <2>2, <3>1
    <3>3. CASE k \in 1..Len(queue[gen][s])
      <4>1. queue'[gen][s][k] = queue[gen][s][k]
        BY <2>2, <3>1, <3>3
      <4> QED BY <3>2, <3>3, <4>1 DEF OldestFirst
    <3>4. CASE k \notin 1..Len(queue[gen][s])
      <4>1. queue'[gen][s][k] = j
        BY <2>2, <3>1, <3>4
      <4> DEFINE a == queue[gen][s][i]
      <4>2. a \in Jobs /\ fate[a] # "new" /\ SessionOf[a] = s
        BY <1>0, <2>2, <3>2 DEF HeldKnown, Homed
      <4>3. CreatedAt[a] <= CreatedAt[j] /\ a # j
        BY <2>1, <4>2
      <4>4. CreatedAt[a] # CreatedAt[j]
        BY <2>4, <4>2, <4>3 DEF NoTies
      <4>5. CreatedAt[a] \in Nat /\ CreatedAt[j] \in Nat
        BY <4>2
      <4> HIDE DEF a
      <4>6. CreatedAt[a] < CreatedAt[j]
        BY <4>3, <4>4, <4>5
      <4> QED BY <3>2, <4>1, <4>6 DEF a
    <3> QED BY <3>3, <3>4
  <2> QED BY <2>3, <2>4
<1>3. ASSUME NEW g \in Gens, NEW s \in Sessions, run[g][s] # "none",
             queue' = [queue EXCEPT ![g][s] = Tail(@)], gen' = gen
      PROVE  OldestFirst'
  <2>1. queue[g][s] # <<>>
    BY <1>3, RunFacts
  <2>2. Shrinks
    BY <1>0, <1>3, <2>1, HeadLeaves
  <2> QED BY <1>0, <1>3, <2>2, ShrinkingOldest
<1>4. ASSUME NEW s \in Sessions, NEW rewritten \in BOOLEAN, Stop(s, rewritten) PROVE OldestFirst'
  <2>1. queue' = [queue EXCEPT ![gen][s] = Kept(s)] /\ gen' = gen
    BY <1>4 DEF Stop
  <2>2. queue[gen][s] \in Seq(Jobs)
    BY <1>0
  <2>3. \A i \in 1..Len(Kept(s)) : i \in 1..Len(queue[gen][s]) /\ Kept(s)[i] = queue[gen][s][i]
    BY <2>2 DEF Kept
  <2>4. \A g \in Gens, t \in Sessions :
          queue'[g][t] = IF g = gen /\ t = s THEN Kept(s) ELSE queue[g][t]
    BY <1>0, <2>1
  <2>5. Shrinks
    <3> SUFFICES ASSUME NEW g \in Gens, NEW t \in Sessions
                 PROVE  \A i \in 1..Len(queue'[g][t]) :
                          i + 0 \in 1..Len(queue[g][t]) /\ queue'[g][t][i] = queue[g][t][i + 0]
      BY DEF Shrinks
    <3> QED BY <2>3, <2>4
  <2> QED BY <1>0, <2>1, <2>5, ShrinkingOldest
<1>5. CASE Exit \/ Crash
  <2>1. LoseMemory
    BY <1>5 DEF Exit, Crash
  <2>2. gen' \in Gens /\ \A g \in Gens, s \in Sessions : queue'[g][s] = <<>>
    BY <2>1 DEF LoseMemory, Idle, Gens
  <2> QED BY <2>2 DEF OldestFirst
<1>6. CASE RemoveRuntime
  <2>1. gen' \in Gens /\ gen' > gen /\ queue' = queue
    BY <1>0, <1>6 DEF RemoveRuntime, Gens
  <2>2. \A s \in Sessions : queue[gen'][s] = <<>>
    BY <2>1 DEF IInv, LaterEmpty
  <2> QED BY <2>1, <2>2 DEF OldestFirst
<1>7. CASE queue' = queue /\ gen' = gen
  BY <1>7 DEF OldestFirst
<1>8. Shutdown \/ UNCHANGED vars \/ (\E ok \in BOOLEAN : RuntimeRemoved(ok))
        => queue' = queue /\ gen' = gen
  BY DEF Shutdown, RuntimeRemoved, vars, memory
<1>9. ASSUME NEW g \in Gens, NEW s \in Sessions, NEW outcome \in Outcomes, Finish(g, s, outcome)
      PROVE  OldestFirst'
  BY <1>3, <1>9 DEF Finish
<1>10. ASSUME NEW g \in Gens, NEW s \in Sessions, NEW logged \in BOOLEAN, FinishThrows(g, s, logged)
       PROVE  OldestFirst'
  BY <1>3, <1>10 DEF FinishThrows
<1> QED BY <1>1, <1>2, <1>4, <1>5, <1>6, <1>7, <1>8, <1>9, <1>10 DEF Next

\* What the refinement needs to know of a state: no fault has happened.
FifoInv == IInv /\ Faultless /\ OldestFirst /\ faults = 0 /\ gen = 1

\* The two variables of DurableFifo, as JobQueueProps maps them.
FifoView == [s \in Sessions |-> IF phase = "down" THEN RecoveredQueue(s) ELSE queue[gen][s]]
RunView  == {s \in Sessions : run[gen][s] # "none"}

\* In a running process the log recovers to the queues themselves, order included.
LEMMA UpRecovers ==
  ASSUME FifoInv, phase # "down"
  PROVE  \A s \in Sessions : RecoveredQueue(s) = queue[gen][s]
<1> SUFFICES ASSUME NEW s \in Sessions PROVE RecoveredQueue(s) = queue[gen][s]
  OBVIOUS
<1> DEFINE q == queue[gen][s]
<1>1. /\ gen \in Gens /\ line \in [Jobs -> Nat] /\ LineDistinct /\ Homed
      /\ queue \in [Gens -> [Sessions -> Seq(Jobs)]]
  BY DEF FifoInv, IInv, TypeOK
<1>2. Pending = JobsIn(queue[gen])
  BY DEF FifoInv, Faultless, LogMatchesMemory
<1>3. \A i \in 1..Len(q) : q[i] \in Pending /\ SessionOf[q[i]] = s
  BY <1>1, <1>2 DEF JobsIn, Homed
<1>4. ASSUME NEW j \in Pending, SessionOf[j] = s PROVE \E i \in 1..Len(q) : q[i] = j
  <2>1. PICK t \in Sessions : \E i \in 1..Len(queue[gen][t]) : queue[gen][t][i] = j
    BY <1>2 DEF JobsIn
  <2>2. t = s
    BY <1>1, <1>4, <2>1 DEF Homed
  <2> QED BY <2>1, <2>2
<1>5. \A i, k \in 1..Len(q) : i < k => CreatedAt[q[i]] < CreatedAt[q[k]]
  BY DEF FifoInv, OldestFirst
<1>6. q \in Seq(Jobs)
  BY <1>1
<1> HIDE DEF q
<1>7. RecoveredQueue(s) = q
  BY <1>1, <1>3, <1>4, <1>5, <1>6, RecoveredIs
<1> QED BY <1>7 DEF q

\* The log and the memory of a process that runs are one, so the view is the queues.
\* The sessions that run are those that hold a slot, so they are not too many, and each
\* has a job at its head.
ViewAgrees ==
  /\ phase # "down" => FifoView = queue[gen]
  /\ RunView = active[gen]
  /\ RunView \in SUBSET Sessions
  /\ Cardinality(RunView) <= MaxConcurrent
  /\ phase # "down" => \A s \in RunView : FifoView[s] # <<>>

\* Where the invariant holds, the queue of the abstract specification is read off the maps ...
LEMMA FifoInvAgrees == FifoInv => ViewAgrees
<1> SUFFICES ASSUME FifoInv PROVE ViewAgrees
  OBVIOUS
<1>1. gen \in Gens /\ active[gen] \in SUBSET Sessions /\ queue[gen] \in [Sessions -> Seq(Jobs)]
  BY DEF FifoInv, IInv, TypeOK
<1>2. RunView = active[gen]
  BY <1>1 DEF FifoInv, Faultless, NoLeakedSlot, RunView
<1>3. Cardinality(active[gen]) <= MaxConcurrent
  BY <1>1 DEF FifoInv, IInv, SlotLimit
<1>4. phase # "down" => \A s \in RunView : FifoView[s] # <<>>
  BY <1>1 DEF FifoInv, IInv, RunHasHead, FifoView, RunView
<1>5. phase # "down" => FifoView = queue[gen]
  BY <1>1 DEF FifoView
<1> QED BY <1>1, <1>2, <1>3, <1>4, <1>5 DEF ViewAgrees

\* ... and in the next state as well.
LEMMA FifoInvAgreesNext == FifoInv' => ViewAgrees'
BY FifoInvAgrees, PTL

\* A process that starts shows what the log held.
LEMMA InitializeView ==
  ASSUME FifoInv, Initialize
  PROVE  FifoView' = FifoView /\ RunView' = RunView
<1>1. /\ phase = "down" /\ phase' # "down" /\ gen' = gen /\ run' = run /\ gen \in Gens
      /\ queue' = [queue EXCEPT ![gen] = [s \in Sessions |-> RecoveredQueue(s)]]
      /\ queue \in [Gens -> [Sessions -> Seq(Jobs)]]
  BY DEF Initialize, FifoInv, IInv, TypeOK
<1>2. \A s \in Sessions : queue'[gen][s] = RecoveredQueue(s)
  BY <1>1
<1>3. FifoView = [s \in Sessions |-> RecoveredQueue(s)]
  BY <1>1 DEF FifoView
<1>4. FifoView' = [s \in Sessions |-> queue'[gen][s]]
  BY <1>1 DEF FifoView
<1>5. RunView' = RunView
  BY <1>1 DEF RunView
<1> QED BY <1>2, <1>3, <1>4, <1>5

\* A process that goes leaves in the log what it had in memory.
LEMMA LoseMemoryView ==
  ASSUME FifoInv, LoseMemory, phase # "down",
         \/ line' = line
         \/ line' = CompactedLog({}) /\ JobsIn(queue[gen]) = {}
  PROVE  FifoView' = FifoView /\ RunView' = {}
<1>1. /\ gen \in Gens /\ line \in [Jobs -> Nat]
      /\ queue \in [Gens -> [Sessions -> Seq(Jobs)]]
      /\ phase' = "down" /\ gen' \in Gens /\ run' = NoRun
  BY JobQueueAssumption DEF FifoInv, IInv, TypeOK, LoseMemory, Gens, JobQueueAssumption
<1>2. RunView' = {}
  BY <1>1 DEF RunView, NoRun
<1>3. FifoView = queue[gen]
  BY FifoInvAgrees DEF ViewAgrees
<1>4. FifoView' = [s \in Sessions |-> RecoveredQueue(s)']
  BY <1>1 DEF FifoView
<1>5. ASSUME NEW s \in Sessions PROVE RecoveredQueue(s)' = queue[gen][s]
  <2>1. CASE line' = line
    <3>1. RecoveredQueue(s)' = RecoveredQueue(s)
      BY <2>1 DEF RecoveredQueue, Pending, RecoverBefore
    <3> QED BY <3>1, UpRecovers
  <2>2. CASE line' = CompactedLog({}) /\ JobsIn(queue[gen]) = {}
    <3>1. Pending' = {}
      BY <2>2, CompactedLogLines DEF Pending
    <3>2. RecoveredQueue(s)' = <<>>
      <4> DEFINE mine == {j \in Pending' : SessionOf[j] = s}
                 at(i) == CHOOSE j \in mine : Cardinality({k \in mine : RecoverBefore(k, j)'}) = i - 1
      <4>1. mine = {} /\ Cardinality(mine) = 0
        BY <3>1, FS_EmptySet
      <4>2. RecoveredQueue(s)' = [i \in 1..Cardinality(mine) |-> at(i)]
        BY DEF RecoveredQueue
      <4> HIDE DEF at, mine
      <4>3. 1..Cardinality(mine) = {}
        BY <4>1
      <4> QED BY <4>2, <4>3
    <3>3. queue[gen][s] = <<>>
      <4>1. queue[gen][s] \in Seq(Jobs)
        BY <1>1
      <4>2. Len(queue[gen][s]) = 0
        <5>1. \A i \in 1..Len(queue[gen][s]) : queue[gen][s][i] \in JobsIn(queue[gen])
          BY DEF JobsIn
        <5>2. Len(queue[gen][s]) \in Nat
          BY <4>1
        <5> QED BY <2>2, <5>1, <5>2
      <4> QED BY <4>1, <4>2
    <3> QED BY <3>2, <3>3
  <2> QED BY <2>1, <2>2
<1>6. queue[gen] = [s \in Sessions |-> queue[gen][s]]
  BY <1>1
<1> QED BY <1>2, <1>3, <1>4, <1>5, <1>6

\* Accepting a job appends it to its session's FIFO and stops nobody.
LEMMA EnqueueAccepts ==
  ASSUME NEW j \in Jobs, FifoInv, FifoInv', Enqueue(j)
  PROVE  /\ \A s \in Sessions : \A i \in 1..Len(FifoView[s]) : FifoView[s][i] # j
         /\ FifoView' = [FifoView EXCEPT ![SessionOf[j]] = Append(@, j)]
         /\ RunView \subseteq RunView'
<1>1. /\ phase # "down" /\ phase' # "down" /\ gen' = gen /\ fate[j] = "new"
      /\ queue' = [queue EXCEPT ![gen][SessionOf[j]] = Append(@, j)]
      /\ Dispatch(queue', active, run, cancel, reported, faults)
  BY DEF Enqueue
<1>2. /\ gen \in Gens /\ HeldKnown /\ active \in [Gens -> SUBSET Sessions]
      /\ queue \in [Gens -> [Sessions -> Seq(Jobs)]] /\ faults \in Nat
  BY DEF FifoInv, IInv, TypeOK
<1>3. FifoView = queue[gen] /\ FifoView' = queue'[gen]
  BY <1>1, FifoInvAgrees, FifoInvAgreesNext DEF ViewAgrees
<1>4. \A s \in Sessions : \A i \in 1..Len(queue[gen][s]) : queue[gen][s][i] # j
  BY <1>1, <1>2 DEF HeldKnown
<1>5. queue'[gen] = [queue[gen] EXCEPT ![SessionOf[j]] = Append(@, j)]
  BY <1>1, <1>2
<1>6. active[gen] \subseteq active'[gen]
  <2> DEFINE q == queue'
  <2>1. Dispatch(q, active, run, cancel, reported, faults)
    BY <1>1
  <2> HIDE DEF q
  <2>2. \E P \in SUBSET Candidates(q[gen], active[gen]) : \E broken \in SUBSET P :
          Dispatched(q, active, run, cancel, reported, faults, P, broken)
    BY <1>2, <2>1, DispatchEffect
  <2>3. \E P : active' = [active EXCEPT ![gen] = @ \cup P]
    BY <2>2 DEF Dispatched
  <2> QED BY <1>2, <2>3
<1>7. RunView = active[gen] /\ RunView' = active'[gen]
  BY <1>1, FifoInvAgrees, FifoInvAgreesNext DEF ViewAgrees
<1> QED BY <1>3, <1>4, <1>5, <1>6, <1>7

\* The end of a run takes the head of its session, and stops no other session.
LEMMA FinishFinishes ==
  ASSUME NEW g \in Gens, NEW s \in Sessions, NEW outcome \in Outcomes,
         FifoInv, FifoInv', Finish(g, s, outcome)
  PROVE  /\ s \in RunView
         /\ FifoView' = [FifoView EXCEPT ![s] = Tail(@)]
         /\ RunView \ {s} \subseteq RunView'
         /\ phase' # "down"
<1>1. /\ run[g][s] # "none" /\ gen' = gen /\ phase' = phase
      /\ queue' = [queue EXCEPT ![g][s] = Tail(@)]
  BY DEF Finish
<1>2. /\ gen \in Gens /\ active \in [Gens -> SUBSET Sessions]
      /\ queue \in [Gens -> [Sessions -> Seq(Jobs)]] /\ faults \in Nat
      /\ faults = 0 /\ faults' = 0 /\ IInv
  BY DEF FifoInv, IInv, TypeOK
<1>3. ~(g > gen) /\ phase # "down" /\ g = gen
  BY <1>1, <1>2, RunFacts DEF FifoInv, Gens
<1>4. FifoView = queue[gen] /\ FifoView' = queue'[gen]
  BY <1>1, <1>3, FifoInvAgrees, FifoInvAgreesNext DEF ViewAgrees
<1>5. queue'[gen] = [queue[gen] EXCEPT ![s] = Tail(@)]
  BY <1>1, <1>2, <1>3
<1>6. RunView = active[gen] /\ RunView' = active'[gen]
  BY <1>1, <1>3, FifoInvAgrees, FifoInvAgreesNext DEF ViewAgrees
<1>7. s \in RunView
  BY <1>1, <1>3 DEF RunView
<1>8. active[gen] \ {s} \subseteq active'[gen]
  <2>1. CASE StartNext(g, s)
    BY <2>1 DEF StartNext
  <2>2. CASE ReleaseSlot(g, s)
    <3> DEFINE q   == queue'
               act == [active EXCEPT ![g] = @ \ {s}]
               rn  == [run EXCEPT ![g][s] = "none"]
               cn  == [cancel EXCEPT ![s] = 0]
               rep == act[gen]
    <3>1. Dispatch(q, act, rn, cn, rep, faults)
      BY <1>2, <2>2 DEF ReleaseSlot
    <3>2. act \in [Gens -> SUBSET Sessions] /\ act[gen] = active[gen] \ {s}
      BY <1>2, <1>3
    <3> HIDE DEF q, act, rn, cn, rep
    <3>3. \E P \in SUBSET Candidates(q[gen], act[gen]) : \E broken \in SUBSET P :
            Dispatched(q, act, rn, cn, rep, faults, P, broken)
      BY <1>2, <3>1, <3>2, DispatchEffect
    <3>4. \E P : active' = [act EXCEPT ![gen] = @ \cup P]
      BY <3>3 DEF Dispatched
    <3> QED BY <1>2, <3>2, <3>4
  <2> QED BY <2>1, <2>2 DEF Finish
<1> QED BY <1>1, <1>3, <1>4, <1>5, <1>6, <1>7, <1>8

\* A stop leaves of its session's FIFO the head that runs.
LEMMA StopStops ==
  ASSUME NEW s \in Sessions, NEW rewritten \in BOOLEAN, FifoInv, FifoInv', Stop(s, rewritten)
  PROVE  /\ FifoView' = [FifoView EXCEPT ![s] = IF s \in RunView THEN <<Head(@)>> ELSE <<>>]
         /\ RunView' = RunView
<1>1. /\ phase # "down" /\ phase' = phase /\ gen' = gen /\ active' = active
      /\ queue' = [queue EXCEPT ![gen][s] = Kept(s)]
  BY DEF Stop
<1>2. /\ gen \in Gens /\ queue \in [Gens -> [Sessions -> Seq(Jobs)]]
  BY DEF FifoInv, IInv, TypeOK
<1>3. FifoView = queue[gen] /\ FifoView' = queue'[gen]
  BY <1>1, FifoInvAgrees, FifoInvAgreesNext DEF ViewAgrees
<1>4. RunView = active[gen] /\ RunView' = active'[gen]
  BY <1>1, FifoInvAgrees, FifoInvAgreesNext DEF ViewAgrees
<1>5. s \in active[gen] => queue[gen][s] # <<>>
  BY <1>2 DEF FifoInv, Faultless, NoLeakedSlot
<1>6. Kept(s) = IF s \in RunView THEN <<Head(queue[gen][s])>> ELSE <<>>
  BY <1>4, <1>5 DEF Kept
<1>7. queue'[gen] = [queue[gen] EXCEPT ![s] = Kept(s)]
  BY <1>1, <1>2
<1> QED BY <1>1, <1>3, <1>4, <1>6, <1>7

\* Every step of the queue is a step of DurableFifo, or invisible in it.
LEMMA FifoStep ==
  ASSUME MaxFaults = 0, MaxGen = 1, FifoInv, FifoInv', [Next]_vars
  PROVE  \/ \E j \in Jobs :
              /\ \A s \in Sessions : \A i \in 1..Len(FifoView[s]) : FifoView[s][i] # j
              /\ FifoView' = [FifoView EXCEPT ![SessionOf[j]] = Append(@, j)]
              /\ RunView \subseteq RunView' /\ phase' # "down"
         \/ \E s \in Sessions :
              /\ s \in RunView
              /\ FifoView' = [FifoView EXCEPT ![s] = Tail(@)]
              /\ RunView \ {s} \subseteq RunView' /\ phase' # "down"
         \/ \E s \in Sessions :
              /\ FifoView' = [FifoView EXCEPT ![s] = IF s \in RunView THEN <<Head(@)>> ELSE <<>>]
              /\ RunView' = RunView
         \/ RunView' = {} /\ FifoView' = FifoView
         \/ RunView' = RunView /\ FifoView' = FifoView
<1>0. /\ faults = 0 /\ gen = 1 /\ gen \in Gens /\ active \in [Gens -> SUBSET Sessions]
      /\ phase = "down" => RunView = {}
  BY DEF FifoInv, IInv, TypeOK, LaterEmpty, NoRun, RunView
<1>1. CASE Initialize
  BY <1>1, InitializeView
<1>2. ASSUME NEW j \in Jobs, Enqueue(j)
      PROVE  \E k \in Jobs :
               /\ \A s \in Sessions : \A i \in 1..Len(FifoView[s]) : FifoView[s][i] # k
               /\ FifoView' = [FifoView EXCEPT ![SessionOf[k]] = Append(@, k)]
               /\ RunView \subseteq RunView' /\ phase' # "down"
  <2>1. phase' # "down"
    BY <1>2 DEF Enqueue
  <2> QED BY <1>2, <2>1, EnqueueAccepts
<1>3. ASSUME NEW g \in Gens, NEW s \in Sessions, NEW outcome \in Outcomes, Finish(g, s, outcome)
      PROVE  \E t \in Sessions :
               /\ t \in RunView
               /\ FifoView' = [FifoView EXCEPT ![t] = Tail(@)]
               /\ RunView \ {t} \subseteq RunView' /\ phase' # "down"
  BY <1>3, FinishFinishes
<1>4. ASSUME NEW g \in Gens, NEW s \in Sessions, NEW logged \in BOOLEAN
      PROVE  ~FinishThrows(g, s, logged)
  BY <1>0 DEF FinishThrows
<1>5. ASSUME NEW s \in Sessions, NEW rewritten \in BOOLEAN, Stop(s, rewritten)
      PROVE  \E t \in Sessions :
               /\ FifoView' = [FifoView EXCEPT ![t] = IF t \in RunView THEN <<Head(@)>> ELSE <<>>]
               /\ RunView' = RunView
  BY <1>5, StopStops
<1>6. ~RemoveRuntime
  BY <1>0 DEF RemoveRuntime
<1>7. CASE Exit
  <2>1. LoseMemory /\ phase # "down"
    BY <1>7 DEF Exit
  <2>2. line' = line \/ (line' = CompactedLog({}) /\ JobsIn(queue[gen]) = {})
    BY <1>7 DEF Exit
  <2>3. FifoView' = FifoView /\ RunView' = {}
    BY <2>1, <2>2, LoseMemoryView
  <2> QED BY <2>3
<1>8. CASE Crash
  <2>1. LoseMemory /\ phase # "down" /\ line' = line
    BY <1>8 DEF Crash
  <2>2. FifoView' = FifoView /\ RunView' = {}
    BY <2>1, LoseMemoryView
  <2> QED BY <2>2
<1>9. CASE UNCHANGED <<gen, queue, run, line>> /\ (phase' = "down" <=> phase = "down")
  <2>1. \A s \in Sessions : RecoveredQueue(s)' = RecoveredQueue(s)
    BY <1>9 DEF RecoveredQueue, Pending, RecoverBefore
  <2>2. FifoView' = FifoView /\ RunView' = RunView
    BY <1>9, <2>1 DEF FifoView, RunView
  <2> QED BY <2>2
<1>10. Shutdown \/ UNCHANGED vars \/ (\E ok \in BOOLEAN : RuntimeRemoved(ok))
         => UNCHANGED <<gen, queue, run, line>> /\ (phase' = "down" <=> phase = "down")
  BY DEF Shutdown, RuntimeRemoved, vars, memory, history
<1> QED BY <1>1, <1>2, <1>3, <1>4, <1>5, <1>6, <1>7, <1>8, <1>9, <1>10 DEF Next

\* DurableFifo begins with nothing.
LEMMA FifoInitially ==
  ASSUME Init
  PROVE  FifoView = [s \in Sessions |-> <<>>] /\ RunView = {}
<1>1. IInv /\ phase = "down" /\ gen \in Gens /\ run = NoRun /\ Pending = {}
  BY InitIInv DEF Init, Pending, IInv, TypeOK
<1>2. ASSUME NEW s \in Sessions PROVE RecoveredQueue(s) = <<>>
  <2>1. {j \in Pending : SessionOf[j] = s} = {} /\ Cardinality({}) = 0
    BY <1>1, FS_EmptySet
  <2>2. RecoveredQueue(s) \in Seq(Jobs) /\ Len(RecoveredQueue(s)) = 0
    BY <1>1, <2>1, RecoveredQueueJobs, RecoveredQueueSorted DEF IInv, TypeOK
  <2> QED BY <2>2
<1>3. FifoView = [s \in Sessions |-> <<>>]
  BY <1>1, <1>2 DEF FifoView
<1>4. RunView = {}
  BY <1>1 DEF RunView, NoRun
<1> QED BY <1>3, <1>4

\* A queue whose store calls succeed and whose runtime is not removed is a durable FIFO:
\* an accepted job waits in its session's FIFO, in memory and in the log, only its head
\* runs, and a crash, an exit, a start and the compactions in them lose, repeat and
\* reorder nothing.  NoTies: two jobs of one session created in one millisecond come
\* back from a compaction in the order of their random ids (compactQueueLog).
THEOREM QueueIsDurableFifo ==
  ASSUME MaxFaults = 0, MaxGen = 1, NoTies
  PROVE  Spec => RefinesDurableFifo
<1>1. Init => Fifo!Init
  <2> SUFFICES ASSUME Init PROVE Fifo!Init
    OBVIOUS
  <2>1. FifoView = [s \in Sessions |-> <<>>] /\ RunView = {}
    BY FifoInitially
  <2> QED BY <2>1 DEF Fifo!Init, FifoView, RunView
<1>2. FifoInv /\ FifoInv' /\ [Next]_vars => [Fifo!Next]_(Fifo!vars)
  <2> SUFFICES ASSUME FifoInv, FifoInv', [Next]_vars PROVE Fifo!Next \/ UNCHANGED Fifo!vars
    OBVIOUS
  <2>1. phase' # "down" => /\ RunView' \in SUBSET Sessions
                           /\ Cardinality(RunView') <= MaxConcurrent
                           /\ \A s \in RunView' : FifoView'[s] # <<>>
    BY FifoInvAgreesNext DEF ViewAgrees
  <2>0. \A S : Fifo!Cardinality(S) = Cardinality(S)
    BY DEF Fifo!Cardinality, Cardinality
  <2>2. ASSUME NEW j \in Jobs,
               \A s \in Sessions : \A i \in 1..Len(FifoView[s]) : FifoView[s][i] # j,
               FifoView' = [FifoView EXCEPT ![SessionOf[j]] = Append(@, j)],
               RunView \subseteq RunView', phase' # "down"
        PROVE  Fifo!Accept(j)
    BY <2>0, <2>1, <2>2 DEF Fifo!Accept, Fifo!Begin, FifoView, RunView
  <2>3. ASSUME NEW s \in Sessions, s \in RunView,
               FifoView' = [FifoView EXCEPT ![s] = Tail(@)],
               RunView \ {s} \subseteq RunView', phase' # "down"
        PROVE  Fifo!Finish(s)
    BY <2>0, <2>1, <2>3 DEF Fifo!Finish, Fifo!Begin, FifoView, RunView
  <2>4. ASSUME NEW s \in Sessions,
               FifoView' = [FifoView EXCEPT ![s] = IF s \in RunView THEN <<Head(@)>> ELSE <<>>],
               RunView' = RunView
        PROVE  Fifo!Stop(s)
    BY <2>4 DEF Fifo!Stop, FifoView, RunView
  <2>5. RunView' = {} /\ FifoView' = FifoView => Fifo!Crash
    BY DEF Fifo!Crash, FifoView, RunView
  <2>6. RunView' = RunView /\ FifoView' = FifoView => UNCHANGED Fifo!vars
    BY DEF Fifo!vars, FifoView, RunView
  <2> QED BY <2>2, <2>3, <2>4, <2>5, <2>6, FifoStep DEF Fifo!Next
<1>3. Spec => []FifoInv
  <2>1. Init => OldestFirst
    BY InitIInv DEF IInv, TypeOK, Init, Idle, OldestFirst
  <2>2. IInv /\ OldestFirst /\ [Next]_vars => OldestFirst'
    BY NextOldest
  <2>3. IInv => faults = 0 /\ gen = 1
    BY DEF IInv, TypeOK, Gens
  <2> QED BY <2>1, <2>2, <2>3, FaultlessInvariance, PTL DEF Spec, FifoInv
<1> QED BY <1>1, <1>2, <1>3, PTL DEF Spec, Fifo!Spec, RefinesDurableFifo
=============================================================================
