---------------------- MODULE PersonaMaintenanceProofs ----------------------
(***************************************************************************)
(* What holds of PersonaMaintenance for every number of scenes, lines,     *)
(* tasks, faults and crashes.                                              *)
(*                                                                         *)
(* A step changes three things that hardly meet: the logs, the queue with  *)
(* the session at its head, and the retry files.  Each has its part of the *)
(* invariant and its few kinds of steps; every action is one of each.      *)
(***************************************************************************)
EXTENDS PersonaMaintenanceProps, SequenceTheorems, TLAPS

\* The sequences whose lines are in the order of arrival.
Ordered(seq) == \A i, j \in 1..Len(seq) : i < j => seq[i] < seq[j]

\* What is in a log or was taken out of one has been recorded, and in one scene.
LinesAreRecorded ==
  /\ consumed \subseteq 1..recorded
  /\ \A s \in Scenes : Ran(log[s]) \subseteq 1..recorded
  /\ \A s, t \in Scenes : s # t => Ran(log[s]) \cap Ran(log[t]) = {}

\* A session runs for a task in the queue, and a Formation session in a scene.
SessionHasTask ==
  /\ session # "none" => chain # <<>>
  /\ session = "formation" => scene \in Scenes

\* A retry file counts no more attempts than there were sessions over each of its lines.
AttemptsWereMade ==
  \A s \in Scenes : \A l \in Ran(retry[s].signature) : retry[s].attempts <= tries[l]

PInv == TypeOK /\ LinesAreRecorded /\ SessionHasTask /\ AttemptsWereMade
        /\ SnapshotIsPrefix /\ ConsumedStaysOut /\ FlagsMatchQueue
-----------------------------------------------------------------------------
(* Lines. *)

\* Rewriting a log without its first lines keeps the order of the others and loses none.
LEMMA SuffixFacts ==
  ASSUME NEW seq \in Seq(1..MaxLines), Ordered(seq), NEW n \in Nat, n <= Len(seq)
  PROVE  LET rest == SubSeq(seq, n + 1, Len(seq))
             first == Ran(SubSeq(seq, 1, n))
         IN /\ rest \in Seq(1..MaxLines) /\ Ordered(rest)
            /\ Ran(rest) \cup first = Ran(seq) /\ Ran(rest) \cap first = {}
<1> DEFINE rest == SubSeq(seq, n + 1, Len(seq))
           head == SubSeq(seq, 1, n)
<1>1. Len(seq) \in Nat /\ \A i \in 1..Len(seq) : seq[i] \in 1..MaxLines
  <2>1. Len(seq) \in Nat  OBVIOUS
  <2>2. \A i \in 1..Len(seq) : seq[i] \in 1..MaxLines  BY ElementOfSeq
  <2> QED  BY <2>1, <2>2
<1>2. /\ rest \in Seq(1..MaxLines) /\ Len(rest) = Len(seq) - n
      /\ \A i \in 1..Len(rest) : rest[i] = seq[n + i]
  <2>1. n + 1 \in Int /\ Len(seq) \in Int /\ \A i \in (n + 1)..Len(seq) : seq[i] \in 1..MaxLines
    BY <1>1
  <2>2. /\ rest \in Seq(1..MaxLines)
        /\ Len(rest) = IF n + 1 <= Len(seq) THEN Len(seq) - (n + 1) + 1 ELSE 0
        /\ \A i \in 1..(Len(seq) - (n + 1) + 1) : rest[i] = seq[n + 1 + i - 1]
    BY <2>1, SubSeqProperties
  <2> HIDE DEF rest
  <2>3. Len(rest) = Len(seq) - n  BY <1>1, <2>2
  <2>4. \A i \in 1..Len(rest) : rest[i] = seq[n + i]
    <3> SUFFICES ASSUME NEW i \in 1..Len(rest) PROVE rest[i] = seq[n + i]
      OBVIOUS
    <3>1. n + 1 + i - 1 = n + i /\ i \in 1..(Len(seq) - (n + 1) + 1)  BY <1>1, <2>3
    <3> QED  BY <3>1, <2>2
  <2> QED  BY <2>2, <2>3, <2>4
<1>3. Len(head) = n /\ \A i \in 1..n : head[i] = seq[i]
  <2>1. \A i \in 1..n : seq[i] \in 1..MaxLines  BY <1>1
  <2>2. /\ Len(head) = IF 1 <= n THEN n - 1 + 1 ELSE 0
        /\ \A i \in 1..(n - 1 + 1) : head[i] = seq[1 + i - 1]
    BY <2>1, SubSeqProperties
  <2> HIDE DEF head
  <2>3. \A i \in 1..n : 1 + i - 1 = i  OBVIOUS
  <2> QED  BY <2>2, <2>3
<1> HIDE DEF rest, head
<1>4. Ordered(rest)
  <2> SUFFICES ASSUME NEW i \in 1..Len(rest), NEW j \in 1..Len(rest), i < j
               PROVE  rest[i] < rest[j]
    BY DEF Ordered
  <2>1. n + i \in 1..Len(seq) /\ n + j \in 1..Len(seq) /\ n + i < n + j  BY <1>1, <1>2
  <2>2. seq[n + i] < seq[n + j]  BY <2>1 DEF Ordered
  <2> QED  BY <1>2, <2>2
<1>5. Ran(rest) \cup Ran(head) = Ran(seq)
  <2>1. ASSUME NEW i \in 1..Len(seq) PROVE seq[i] \in Ran(rest) \cup Ran(head)
    <3>1. CASE i <= n
      <4>1. i \in 1..n  BY <3>1
      <4> QED  BY <1>3, <4>1 DEF Ran
    <3>2. CASE i > n
      <4>1. i - n \in 1..Len(rest) /\ n + (i - n) = i  BY <1>1, <1>2, <3>2
      <4> QED  BY <1>2, <4>1 DEF Ran
    <3> QED  BY <3>1, <3>2
  <2>2. \A i \in 1..Len(rest) : n + i \in 1..Len(seq)  BY <1>1, <1>2
  <2>3. \A i \in 1..n : i \in 1..Len(seq)  BY <1>1
  <2>4. Ran(seq) \subseteq Ran(rest) \cup Ran(head)  BY <2>1 DEF Ran
  <2>5. Ran(rest) \subseteq Ran(seq)  BY <1>2, <2>2 DEF Ran
  <2>6. Ran(head) \subseteq Ran(seq)  BY <1>3, <2>3 DEF Ran
  <2> QED  BY <2>4, <2>5, <2>6
<1>6. Ran(rest) \cap Ran(head) = {}
  <2> SUFFICES ASSUME NEW i \in 1..Len(rest), NEW j \in 1..n, rest[i] = head[j] PROVE FALSE
    BY <1>3 DEF Ran
  <2>1. n + i \in 1..Len(seq) /\ j \in 1..Len(seq) /\ j < n + i  BY <1>1, <1>2
  <2>2. seq[j] < seq[n + i]  BY <2>1 DEF Ordered
  <2>3. seq[j] = seq[n + i]  BY <1>2, <1>3
  <2>4. seq[j] \in Nat /\ seq[n + i] \in Nat  BY <1>1, <2>1
  <2> QED  BY <2>2, <2>3, <2>4
<1> QED  BY <1>2, <1>4, <1>5, <1>6 DEF rest, head

\* The empty log.
LEMMA NoLines == <<>> \in Seq(1..MaxLines) /\ Ordered(<<>>) /\ Ran(<<>>) = {}
<1>1. \A i \in 1..Len(<<>>) : FALSE  OBVIOUS
<1> QED  BY <1>1 DEF Ordered, Ran

\* What a running Formation session read is in the log of its scene, in its order.
LEMMA SnapshotFacts ==
  ASSUME PInv, session = "formation"
  PROVE  /\ scene \in Scenes /\ lines \in Seq(1..MaxLines) /\ Ordered(lines)
         /\ Ran(lines) \subseteq Ran(log[scene])
<1>1. scene \in Scenes  BY DEF PInv, SessionHasTask
<1>2. lines \in Seq(1..MaxLines) /\ log[scene] \in Seq(1..MaxLines)
  BY <1>1 DEF PInv, TypeOK
<1>3. /\ Len(lines) <= Len(log[scene])
      /\ \A i \in 1..Len(lines) : log[scene][i] = lines[i]
  BY DEF PInv, SnapshotIsPrefix
<1>4. Ordered(log[scene])  BY <1>1 DEF PInv, ConsumedStaysOut, Ordered
<1>5. \A i \in 1..Len(lines) : i \in 1..Len(log[scene])  BY <1>2, <1>3
<1>6. Ordered(lines)  BY <1>3, <1>4, <1>5 DEF Ordered
<1>7. Ran(lines) \subseteq Ran(log[scene])  BY <1>3, <1>5 DEF Ran
<1> QED  BY <1>1, <1>2, <1>6, <1>7

\* A rewrite of the log of the session's scene to rest, with the lines gone consumed.
Takes(rest, gone) ==
  /\ rest \in Seq(1..MaxLines) /\ Ordered(rest)
  /\ Ran(rest) \subseteq Ran(log[scene])
  /\ gone \subseteq Ran(log[scene]) /\ Ran(rest) \cap gone = {}

\* The two ways a session's end leaves the log: what is left of its lines, or nothing.
LEMMA SessionTakes ==
  ASSUME PInv, session = "formation", NEW n \in Nat, n <= Len(lines)
  PROVE  /\ Takes(SubSeq(lines, n + 1, Len(lines)), Taken(n)) /\ Takes(<<>>, Taken(n))
         /\ Ran(lines) \subseteq Ran(SubSeq(lines, n + 1, Len(lines))) \cup Taken(n)
<1> DEFINE rest == SubSeq(lines, n + 1, Len(lines))
<1>1. /\ lines \in Seq(1..MaxLines) /\ Ordered(lines) /\ Ran(lines) \subseteq Ran(log[scene])
  BY SnapshotFacts
<1>2. /\ rest \in Seq(1..MaxLines) /\ Ordered(rest)
      /\ Ran(rest) \cup Taken(n) = Ran(lines) /\ Ran(rest) \cap Taken(n) = {}
  BY <1>1, SuffixFacts DEF Taken
<1> HIDE DEF rest
<1>3. Takes(rest, Taken(n)) /\ Takes(<<>>, Taken(n))
  BY <1>1, <1>2, NoLines DEF Takes
<1> QED  BY <1>2, <1>3 DEF rest

LogsKept == /\ log' \in [Scenes -> Seq(1..MaxLines)] /\ consumed' \in SUBSET (1..MaxLines)
            /\ LinesAreRecorded' /\ ConsumedStaysOut'

\* A message appends a line no log has held.
LEMMA RecordLogs == ASSUME PInv, NEW s \in Scenes, Record(s) PROVE LogsKept
<1> USE DEF PInv
<1> DEFINE seq == log[s]
           longer == Append(seq, recorded + 1)
<1>1. /\ log \in [Scenes -> Seq(1..MaxLines)] /\ recorded \in Nat /\ recorded + 1 \in 1..MaxLines
      /\ consumed \in SUBSET (1..MaxLines) /\ seq \in Seq(1..MaxLines)
  BY PersonaMaintenanceAssumption DEF TypeOK, Record
<1>2. /\ log' = [log EXCEPT ![s] = longer] /\ consumed' = consumed /\ recorded' = recorded + 1
  BY DEF Record, WithLine, history
<1>3. /\ longer \in Seq(1..MaxLines) /\ Len(longer) = Len(seq) + 1
      /\ \A i \in 1..Len(seq) : longer[i] = seq[i]
      /\ longer[Len(seq) + 1] = recorded + 1
  BY <1>1, AppendProperties
<1>4. Ran(seq) \subseteq 1..recorded /\ Ran(seq) \cap consumed = {} /\ Ordered(seq)
  BY DEF LinesAreRecorded, ConsumedStaysOut, Ordered
<1>5. Len(seq) \in Nat  BY <1>1
<1> HIDE DEF longer, seq
<1>6. Ran(longer) = Ran(seq) \cup {recorded + 1}
  <2>1. \A i \in 1..(Len(seq) + 1) : i \in 1..Len(seq) \/ i = Len(seq) + 1  BY <1>5
  <2>2. \A i \in 1..Len(seq) : i \in 1..(Len(seq) + 1)  BY <1>5
  <2>3. Len(seq) + 1 \in 1..(Len(seq) + 1)  BY <1>5
  <2> QED  BY <1>3, <2>1, <2>2, <2>3 DEF Ran
<1>7. Ordered(longer)
  <2> SUFFICES ASSUME NEW i \in 1..(Len(seq) + 1), NEW j \in 1..(Len(seq) + 1), i < j
               PROVE  longer[i] < longer[j]
    BY <1>3 DEF Ordered
  <2>1. i \in 1..Len(seq)  BY <1>5
  <2>2. CASE j \in 1..Len(seq)  BY <1>3, <1>4, <2>1, <2>2 DEF Ordered
  <2>3. CASE j = Len(seq) + 1
    <3>1. seq[i] \in 1..recorded  BY <1>4, <2>1 DEF Ran
    <3> QED  BY <1>1, <1>3, <2>1, <2>3, <3>1
  <2> QED  BY <1>5, <2>2, <2>3
<1>8. log' \in [Scenes -> Seq(1..MaxLines)]  BY <1>1, <1>2, <1>3
<1>9. \A t \in Scenes : log'[t] = IF t = s THEN longer ELSE log[t]  BY <1>1, <1>2
<1>10. recorded + 1 \notin consumed /\ \A t \in Scenes : recorded + 1 \notin Ran(log[t])
  BY <1>1 DEF LinesAreRecorded
<1>11. 1..recorded \subseteq 1..(recorded + 1) /\ recorded + 1 \in 1..(recorded + 1)  BY <1>1
<1>12. \A t \in Scenes : Ran(log'[t]) = IF t = s THEN Ran(seq) \cup {recorded + 1} ELSE Ran(log[t])
  BY <1>6, <1>9
<1>13. LinesAreRecorded'
  <2>0. /\ consumed \subseteq 1..recorded /\ \A t \in Scenes : Ran(log[t]) \subseteq 1..recorded
        /\ \A t, u \in Scenes : t # u => Ran(log[t]) \cap Ran(log[u]) = {}
    BY DEF LinesAreRecorded
  <2>1. consumed \subseteq 1..(recorded + 1)  BY <1>11, <2>0
  <2>2. \A t \in Scenes : Ran(log'[t]) \subseteq 1..(recorded + 1)
    BY <1>4, <1>11, <1>12, <2>0
  <2>3. ASSUME NEW t \in Scenes, NEW u \in Scenes, t # u
        PROVE  Ran(log'[t]) \cap Ran(log'[u]) = {}
    BY <1>10, <1>12, <2>0, <2>3 DEF seq
  <2> QED  BY <1>2, <2>1, <2>2, <2>3 DEF LinesAreRecorded, Ran
<1>14. ConsumedStaysOut'
  <2>1. \A t \in Scenes : Ran(log'[t]) \cap consumed = {}
    BY <1>4, <1>10, <1>12 DEF ConsumedStaysOut
  <2>2. \A t \in Scenes : Ordered(log'[t])  BY <1>7, <1>9 DEF ConsumedStaysOut, Ordered
  <2> QED  BY <1>2, <2>1, <2>2 DEF ConsumedStaysOut, Ordered, Ran
<1> QED  BY <1>1, <1>2, <1>8, <1>13, <1>14 DEF LogsKept

\* A rewrite takes lines out of one log, and what it consumed is in none.
LEMMA RewriteLogs ==
  ASSUME PInv, session = "formation", NEW rest, NEW gone, Takes(rest, gone),
         log' = [log EXCEPT ![scene] = rest], consumed' = consumed \cup gone,
         recorded' = recorded
  PROVE  LogsKept
<1> USE DEF PInv
<1>1. /\ log \in [Scenes -> Seq(1..MaxLines)] /\ consumed \in SUBSET (1..MaxLines)
      /\ scene \in Scenes /\ recorded \in 0..MaxLines
  BY SnapshotFacts DEF TypeOK
<1>2. \A t \in Scenes : log'[t] = IF t = scene THEN rest ELSE log[t]  BY <1>1
<1>3. \A t \in Scenes : Ran(log'[t]) \subseteq Ran(log[t])  BY <1>2 DEF Takes
<1>4. /\ consumed \subseteq 1..recorded /\ \A t \in Scenes : Ran(log[t]) \subseteq 1..recorded
      /\ \A t, u \in Scenes : t # u => Ran(log[t]) \cap Ran(log[u]) = {}
  BY DEF LinesAreRecorded
<1>5. gone \subseteq 1..recorded /\ 1..recorded \subseteq 1..MaxLines
  BY <1>1, <1>4, PersonaMaintenanceAssumption DEF Takes
<1>6. log' \in [Scenes -> Seq(1..MaxLines)] /\ consumed' \in SUBSET (1..MaxLines)
  BY <1>1, <1>5 DEF Takes
<1>7. LinesAreRecorded'
  <2>1. consumed' \subseteq 1..recorded  BY <1>4, <1>5
  <2>2. \A t \in Scenes : Ran(log'[t]) \subseteq 1..recorded  BY <1>3, <1>4
  <2>3. \A t, u \in Scenes : t # u => Ran(log'[t]) \cap Ran(log'[u]) = {}  BY <1>3, <1>4
  <2> QED  BY <2>1, <2>2, <2>3 DEF LinesAreRecorded, Ran
<1>8. ConsumedStaysOut'
  <2>1. ASSUME NEW t \in Scenes PROVE Ran(log'[t]) \cap consumed' = {}
    <3>1. Ran(log[t]) \cap consumed = {}  BY DEF ConsumedStaysOut
    <3>2. CASE t = scene
      <4>1. Ran(log'[t]) \cap gone = {}  BY <1>2, <3>2 DEF Takes
      <4> QED  BY <1>3, <3>1, <4>1
    <3>3. CASE t # scene
      <4>1. Ran(log[t]) \cap gone = {}  BY <1>1, <1>4, <3>3 DEF Takes
      <4> QED  BY <1>3, <3>1, <4>1
    <3> QED  BY <3>2, <3>3
  <2>2. \A t \in Scenes : Ordered(log'[t])  BY <1>2 DEF Takes, ConsumedStaysOut, Ordered
  <2> QED  BY <2>1, <2>2 DEF ConsumedStaysOut, Ordered, Ran
<1> QED  BY <1>6, <1>7, <1>8 DEF LogsKept
-----------------------------------------------------------------------------
(* The queue and its flags. *)

Queued(task, seq) == {i \in 1..Len(seq) : seq[i] = task}
Matches(flag, task, seq) ==
  /\ flag <=> Queued(task, seq) # {}
  /\ \A i, j \in Queued(task, seq) : i = j

\* The head leaves the queue, and its flag is cleared.
LEMMA TailMatches ==
  ASSUME NEW seq \in Seq(Tasks), seq # <<>>, NEW task, NEW flag \in BOOLEAN,
         Matches(flag, task, seq)
  PROVE  Matches(flag /\ Head(seq) # task, task, Tail(seq))
<1>1. /\ Len(seq) \in Nat /\ Len(seq) > 0 /\ Head(seq) = seq[1]
      /\ Len(Tail(seq)) = Len(seq) - 1
      /\ \A i \in 1..Len(Tail(seq)) : Tail(seq)[i] = seq[i + 1]
  BY HeadTailProperties
<1> DEFINE rest == Tail(seq)
<1> HIDE DEF rest
<1>2. Len(rest) = Len(seq) - 1 /\ \A i \in 1..Len(rest) : rest[i] = seq[i + 1]
  BY <1>1 DEF rest
<1>3. \A i \in Queued(task, rest) : i + 1 \in Queued(task, seq)
  <2>1. \A i \in 1..Len(rest) : i + 1 \in 1..Len(seq)  BY <1>1, <1>2
  <2> QED  BY <1>2, <2>1 DEF Queued
<1>4. \A i \in Queued(task, seq) : i # 1 => i - 1 \in Queued(task, rest)
  <2>1. \A i \in 1..Len(seq) : i # 1 => i - 1 \in 1..Len(rest) /\ (i - 1) + 1 = i
    BY <1>1, <1>2
  <2> QED  BY <1>2, <2>1 DEF Queued
<1>5. \A i, j \in Queued(task, rest) : i = j
  <2> SUFFICES ASSUME NEW i \in Queued(task, rest), NEW j \in Queued(task, rest) PROVE i = j
    OBVIOUS
  <2>1. i + 1 = j + 1  BY <1>3 DEF Matches
  <2>2. i \in Int /\ j \in Int  BY DEF Queued
  <2> QED  BY <2>1, <2>2
<1>6. 1 \in Queued(task, seq) <=> Head(seq) = task
  <2>1. 1 \in 1..Len(seq)  BY <1>1
  <2> QED  BY <1>1, <2>1 DEF Queued
<1>7. (flag /\ Head(seq) # task) <=> Queued(task, rest) # {}
  <2>1. ASSUME flag, Head(seq) # task PROVE Queued(task, rest) # {}
    <3>1. PICK i \in Queued(task, seq) : TRUE  BY <2>1 DEF Matches
    <3> QED  BY <1>4, <1>6, <2>1, <3>1
  <2>2. ASSUME NEW i \in Queued(task, rest) PROVE flag /\ Head(seq) # task
    <3>1. i + 1 \in Queued(task, seq)  BY <1>3
    <3>2. i + 1 # 1  BY DEF Queued
    <3>3. flag  BY <3>1 DEF Matches
    <3>4. 1 \notin Queued(task, seq)  BY <3>1, <3>2 DEF Matches
    <3> QED  BY <1>6, <3>3, <3>4
  <2> QED  BY <2>1, <2>2
<1> QED  BY <1>5, <1>7 DEF Matches, rest

\* A task joins the queue, one with a flag only while the flag is down.
LEMMA AppendMatches ==
  ASSUME NEW seq \in Seq(Tasks), NEW e \in Tasks, NEW task, NEW flag \in BOOLEAN,
         Matches(flag, task, seq), e = task => ~flag
  PROVE  Matches(flag \/ e = task, task, Append(seq, e))
<1> DEFINE longer == Append(seq, e)
<1>1. /\ Len(seq) \in Nat /\ Len(longer) = Len(seq) + 1
      /\ \A i \in 1..Len(seq) : longer[i] = seq[i]
      /\ longer[Len(seq) + 1] = e
  BY AppendProperties
<1> HIDE DEF longer
<1>2. 1..Len(longer) = (1..Len(seq)) \cup {Len(seq) + 1}  BY <1>1
<1>3. Queued(task, longer) = Queued(task, seq) \cup (IF e = task THEN {Len(seq) + 1} ELSE {})
  BY <1>1, <1>2 DEF Queued
<1>4. CASE e = task
  <2>1. Queued(task, seq) = {}  BY <1>4 DEF Matches
  <2> QED  BY <1>3, <1>4, <2>1 DEF Matches, longer
<1>5. CASE e # task  BY <1>3, <1>5 DEF Matches, longer
<1> QED  BY <1>4, <1>5

\* Each of the two flags says whether its kind of task is in the queue.
LEMMA FlagsMatch ==
  TypeOK => (FlagsMatchQueue <=> /\ Matches(sweepQueued, Sweep, chain)
                                 /\ Matches(dreamQueued, Dream, chain))
BY DEF TypeOK, FlagsMatchQueue, Matches, Queued

QueueKept ==
  /\ chain' \in Seq(Tasks) /\ session' \in {"none", "formation", "dream"}
  /\ scene' \in Scenes \cup {NoScene} /\ lines' \in Seq(1..MaxLines)
  /\ todo' \in SUBSET Scenes
  /\ sweepQueued' \in BOOLEAN /\ dreamQueued' \in BOOLEAN
  /\ SessionHasTask' /\ SnapshotIsPrefix' /\ FlagsMatchQueue'

\* The task at the head ends: its flag goes down with it.
LEMMA EndTaskQueue == ASSUME PInv, chain # <<>>, EndTask PROVE QueueKept
<1> USE DEF PInv
<1>1. /\ chain \in Seq(Tasks) /\ sweepQueued \in BOOLEAN /\ dreamQueued \in BOOLEAN
  BY DEF TypeOK
<1>2. /\ chain' = Tail(chain)
      /\ sweepQueued' = (sweepQueued /\ Head(chain) # Sweep)
      /\ dreamQueued' = (dreamQueued /\ Head(chain) # Dream)
      /\ session' = "none" /\ scene' = NoScene /\ lines' = <<>> /\ todo' = {}
  BY DEF EndTask
<1>3. Matches(sweepQueued, Sweep, chain) /\ Matches(dreamQueued, Dream, chain)
  BY FlagsMatch
<1>4. /\ Matches(sweepQueued /\ Head(chain) # Sweep, Sweep, Tail(chain))
      /\ Matches(dreamQueued /\ Head(chain) # Dream, Dream, Tail(chain))
  BY <1>1, <1>3, TailMatches
<1>5. Matches(sweepQueued', Sweep, chain') /\ Matches(dreamQueued', Dream, chain')
  BY <1>2, <1>4
<1>6. sweepQueued' \in BOOLEAN /\ dreamQueued' \in BOOLEAN  BY <1>2
<1>7. FlagsMatchQueue'  BY <1>5, <1>6 DEF FlagsMatchQueue, Matches, Queued
<1>8. chain' \in Seq(Tasks)  BY <1>1, <1>2, HeadTailProperties
<1>9. lines' \in Seq(1..MaxLines)  BY <1>2, NoLines
<1> QED  BY <1>2, <1>6, <1>7, <1>8, <1>9 DEF QueueKept, SessionHasTask, SnapshotIsPrefix

\* The task goes on to a scene: the session reads the log as it is then.
LEMMA BeginQueue ==
  ASSUME PInv, chain # <<>>, log' \in [Scenes -> Seq(1..MaxLines)], NEW s \in Scenes,
         session' = "formation", scene' = s, lines' = log'[s], log'[s] # <<>>,
         todo' \subseteq Scenes, UNCHANGED <<chain, flags>>
  PROVE  QueueKept
<1> USE DEF PInv
<1>1. lines' \in Seq(1..MaxLines) /\ Len(lines') \in Nat  OBVIOUS
<1>2. 0 < Len(lines')  BY <1>1
<1>3. SnapshotIsPrefix'  BY <1>1, <1>2 DEF SnapshotIsPrefix
<1>4. SessionHasTask'  BY DEF SessionHasTask
<1>5. FlagsMatchQueue'  BY DEF FlagsMatchQueue, flags
<1> QED  BY <1>1, <1>3, <1>4, <1>5 DEF QueueKept, TypeOK, flags

\* The first due scene, or the end of the task.
LEMMA GoOnQueue ==
  ASSUME PInv, chain # <<>>, LogsKept, NEW rest, rest \subseteq Scenes, GoOn(rest, log')
  PROVE  QueueKept
<1>1. PICK aged \in SUBSET Scenes :
        \/ EndTask
        \/ \E s \in {t \in rest : Due(log', t, aged)} :
             /\ session' = "formation" /\ scene' = s /\ lines' = log'[s]
             /\ todo' = After(rest, s)
             /\ UNCHANGED <<chain, flags>>
  BY DEF GoOn
<1>2. CASE EndTask  BY <1>2, EndTaskQueue
<1>3. ASSUME NEW s \in rest, Due(log', s, aged),
             session' = "formation", scene' = s, lines' = log'[s],
             todo' = After(rest, s), UNCHANGED <<chain, flags>>
      PROVE  QueueKept
  <2>1. log'[s] # <<>> /\ todo' \subseteq Scenes /\ s \in Scenes  BY <1>3 DEF Due, After
  <2> QED  BY <1>3, <2>1, BeginQueue DEF LogsKept
<1> QED  BY <1>1, <1>2, <1>3

\* While a session runs, messages append to its log and tasks join the queue.
LEMMA EnqueueQueue ==
  ASSUME PInv, NEW task \in Tasks, EnqueueMaintenance(task), UNCHANGED <<disk, running>>,
         task = Sweep => ~sweepQueued, task = Dream => ~dreamQueued,
         sweepQueued' = (sweepQueued \/ task = Sweep),
         dreamQueued' = (dreamQueued \/ task = Dream)
  PROVE  QueueKept
<1> USE DEF PInv
<1>1. /\ chain \in Seq(Tasks) /\ sweepQueued \in BOOLEAN /\ dreamQueued \in BOOLEAN
  BY DEF TypeOK
<1>2. chain' = Append(chain, task)  BY DEF EnqueueMaintenance
<1>3. chain' \in Seq(Tasks) /\ chain' # <<>>  BY <1>1, <1>2, AppendProperties
<1>4. Matches(sweepQueued, Sweep, chain) /\ Matches(dreamQueued, Dream, chain)
  BY FlagsMatch
<1>5. /\ Matches(sweepQueued \/ task = Sweep, Sweep, Append(chain, task))
      /\ Matches(dreamQueued \/ task = Dream, Dream, Append(chain, task))
  BY <1>1, <1>4, AppendMatches
<1>6. Matches(sweepQueued', Sweep, chain') /\ Matches(dreamQueued', Dream, chain')
  BY <1>2, <1>5
<1>7. sweepQueued' \in BOOLEAN /\ dreamQueued' \in BOOLEAN  OBVIOUS
<1>8. FlagsMatchQueue'  BY <1>6, <1>7 DEF FlagsMatchQueue, Matches, Queued
<1>9. SessionHasTask' /\ SnapshotIsPrefix'
  BY <1>3 DEF SessionHasTask, SnapshotIsPrefix, disk, running
<1> QED  BY <1>3, <1>7, <1>8, <1>9 DEF QueueKept, TypeOK, running

\* A restart forgets the queue, its flags and the session.
LEMMA RestartQueue == ASSUME Restart PROVE QueueKept
<1>1. /\ chain' = <<>> /\ session' = "none" /\ scene' = NoScene /\ lines' = <<>>
      /\ todo' = {} /\ sweepQueued' = FALSE /\ dreamQueued' = FALSE
  BY DEF Restart
<1>2. <<>> \in Seq(Tasks) /\ \A i \in 1..Len(<<>>) : FALSE  OBVIOUS
<1>3. FlagsMatchQueue'  BY <1>1, <1>2 DEF FlagsMatchQueue
<1> QED  BY <1>1, <1>2, <1>3, NoLines DEF QueueKept, SessionHasTask, SnapshotIsPrefix
-----------------------------------------------------------------------------
(* The attempts. *)

AttemptsKept ==
  /\ retry' \in [Scenes -> [signature : Seq(1..MaxLines), attempts : 0..(MaxRetries - 1)]]
  /\ tries' \in [1..MaxLines -> 0..MaxRetries]
  /\ AttemptsWereMade'

\* A failed session is one more over each of its lines.
LEMMA TriesGrow ==
  ASSUME PInv, Tried
  PROVE  /\ tries' \in [1..MaxLines -> 0..MaxRetries]
         /\ \A l \in 1..MaxLines :
              /\ tries[l] <= tries'[l]
              /\ l \in Ran(lines) /\ tries[l] < MaxRetries => tries'[l] = tries[l] + 1
<1>1. tries \in [1..MaxLines -> 0..MaxRetries] /\ MaxRetries \in Nat
  BY PersonaMaintenanceAssumption DEF PInv, TypeOK
<1>2. \A l \in 1..MaxLines : tries[l] \in 0..MaxRetries  BY <1>1
<1>3. \A l \in 1..MaxLines : tries'[l] =
        IF l \in Ran(lines) /\ tries[l] < MaxRetries THEN tries[l] + 1 ELSE tries[l]
  BY DEF Tried
<1>4. \A l \in 1..MaxLines : tries'[l] \in 0..MaxRetries /\ tries[l] <= tries'[l]
  BY <1>1, <1>2, <1>3
<1>5. tries' \in [1..MaxLines -> 0..MaxRetries]  BY <1>4 DEF Tried
<1> QED  BY <1>3, <1>4, <1>5

\* The lines of a signature are lines.
LEMMA SignatureLines ==
  ASSUME NEW seq \in Seq(1..MaxLines)
  PROVE  Ran(seq) \subseteq 1..MaxLines
<1>1. \A i \in 1..Len(seq) : seq[i] \in 1..MaxLines  BY ElementOfSeq
<1> QED  BY <1>1 DEF Ran

\* Retry files that stay, or are removed, after whatever was tried.
LEMMA KeepsAttempts ==
  ASSUME PInv, UNCHANGED tries \/ Tried,
         NEW s \in Scenes, retry' = retry \/ retry' = [retry EXCEPT ![s] = NoRetry]
  PROVE  AttemptsKept
<1> USE DEF PInv
<1>1. /\ retry \in [Scenes -> [signature : Seq(1..MaxLines), attempts : 0..(MaxRetries - 1)]]
      /\ tries \in [1..MaxLines -> 0..MaxRetries]
      /\ MaxRetries \in Nat \ {0}
  BY PersonaMaintenanceAssumption DEF TypeOK
<1>2. /\ tries' \in [1..MaxLines -> 0..MaxRetries]
      /\ \A l \in 1..MaxLines : tries[l] <= tries'[l]
  <2>1. CASE UNCHANGED tries
    <3>1. \A l \in 1..MaxLines : tries[l] \in 0..MaxRetries  BY <1>1
    <3> QED  BY <1>1, <2>1, <3>1
  <2>2. CASE Tried  BY <2>2, TriesGrow
  <2> QED  BY <2>1, <2>2
<1>3. NoRetry \in [signature : Seq(1..MaxLines), attempts : 0..(MaxRetries - 1)]
  BY <1>1, NoLines DEF NoRetry
<1>4. retry' \in [Scenes -> [signature : Seq(1..MaxLines), attempts : 0..(MaxRetries - 1)]]
  BY <1>1, <1>3
<1>5. AttemptsWereMade'
  <2> SUFFICES ASSUME NEW t \in Scenes, NEW l \in Ran(retry'[t].signature)
               PROVE  retry'[t].attempts <= tries'[l]
    BY DEF AttemptsWereMade, Ran
  <2>1. retry'[t] = NoRetry \/ retry'[t] = retry[t]  BY <1>1
  <2>2. retry'[t] # NoRetry  BY NoLines DEF NoRetry
  <2>3. l \in 1..MaxLines  BY <1>1, <2>1, <2>2, SignatureLines
  <2>4. retry[t].attempts <= tries[l]  BY <2>1, <2>2 DEF AttemptsWereMade
  <2>5. retry[t].attempts \in Nat /\ tries[l] \in Nat /\ tries'[l] \in Nat
    <3>1. tries[l] \in 0..MaxRetries /\ tries'[l] \in 0..MaxRetries  BY <1>1, <1>2, <2>3
    <3>2. retry[t].attempts \in 0..(MaxRetries - 1)  BY <1>1
    <3> QED  BY <1>1, <3>1, <3>2
  <2>6. tries[l] <= tries'[l]  BY <1>2, <2>3
  <2> QED  BY <2>1, <2>2, <2>4, <2>5, <2>6
<1> QED  BY <1>2, <1>4, <1>5 DEF AttemptsKept

\* What the next failure counts, and how often each of its lines was tried.
LEMMA AttemptFacts ==
  ASSUME PInv, session = "formation", Tried
  PROVE  /\ Attempts \in 1..MaxRetries
         /\ \A l \in Ran(lines) : l \in 1..MaxLines /\ Attempts <= tries'[l]
<1> USE DEF PInv
<1>1. /\ scene \in Scenes /\ lines \in Seq(1..MaxLines) /\ MaxRetries \in Nat \ {0}
  BY SnapshotFacts, PersonaMaintenanceAssumption
<1>2. retry[scene].attempts \in 0..(MaxRetries - 1)  BY <1>1 DEF TypeOK
<1>3. Attempts \in 1..MaxRetries  BY <1>1, <1>2 DEF Attempts
<1>4. ASSUME NEW l \in Ran(lines) PROVE l \in 1..MaxLines /\ Attempts <= tries'[l]
  <2>1. l \in 1..MaxLines  BY <1>1, SignatureLines
  <2>2. tries[l] \in 0..MaxRetries /\ tries'[l] \in 0..MaxRetries
    BY <2>1, TriesGrow DEF TypeOK
  <2>3. Attempts - 1 <= tries[l]
    <3>1. CASE retry[scene].signature = lines
      <4>1. retry[scene].attempts <= tries[l]  BY <1>1, <3>1 DEF AttemptsWereMade
      <4> QED  BY <1>2, <2>2, <3>1, <4>1 DEF Attempts
    <3>2. CASE retry[scene].signature # lines  BY <2>2, <3>2 DEF Attempts
    <3> QED  BY <3>1, <3>2
  <2>4. tries[l] < MaxRetries => tries'[l] = tries[l] + 1  BY <2>1, TriesGrow
  <2>5. tries[l] <= tries'[l]  BY <2>1, TriesGrow
  <2> QED  BY <1>1, <1>3, <2>1, <2>2, <2>3, <2>4, <2>5
<1> QED  BY <1>3, <1>4

\* A log is only dropped when its lines have been tried MaxRetries times.
LEMMA DiscardsTried ==
  ASSUME PInv, session = "formation", Tried, Discards
  PROVE  \A l \in Ran(lines) : tries'[l] = MaxRetries
<1>1. \A l \in Ran(lines) : tries'[l] \in 0..MaxRetries  BY AttemptFacts, TriesGrow
<1> QED  BY <1>1, AttemptFacts, PersonaMaintenanceAssumption DEF Discards

\* The failure is counted in the retry file.
LEMMA CountsAttempt ==
  ASSUME PInv, session = "formation", Tried, ~Discards,
         retry' = [retry EXCEPT ![scene] = [signature |-> lines, attempts |-> Attempts]]
  PROVE  AttemptsKept
<1> USE DEF PInv
<1> DEFINE counted == [signature |-> lines, attempts |-> Attempts]
<1>1. /\ retry \in [Scenes -> [signature : Seq(1..MaxLines), attempts : 0..(MaxRetries - 1)]]
      /\ scene \in Scenes /\ lines \in Seq(1..MaxLines) /\ MaxRetries \in Nat \ {0}
  BY SnapshotFacts, PersonaMaintenanceAssumption DEF TypeOK
<1>2. Attempts \in 0..(MaxRetries - 1)  BY <1>1, AttemptFacts DEF Discards
<1>3. /\ counted \in [signature : Seq(1..MaxLines), attempts : 0..(MaxRetries - 1)]
      /\ counted.signature = lines /\ counted.attempts = Attempts
  BY <1>1, <1>2
<1>4. retry' = [retry EXCEPT ![scene] = counted]  OBVIOUS
<1> HIDE DEF counted
<1>5. retry' \in [Scenes -> [signature : Seq(1..MaxLines), attempts : 0..(MaxRetries - 1)]]
  BY <1>1, <1>3, <1>4
<1>6. AttemptsWereMade'
  <2> SUFFICES ASSUME NEW t \in Scenes, NEW l \in Ran(retry'[t].signature)
               PROVE  retry'[t].attempts <= tries'[l]
    BY DEF AttemptsWereMade, Ran
  <2>1. CASE t = scene  BY <1>1, <1>3, <1>4, <2>1, AttemptFacts
  <2>2. CASE t # scene
    <3>1. retry'[t] = retry[t]  BY <1>1, <1>4, <2>2
    <3>2. l \in 1..MaxLines  BY <1>1, <3>1, SignatureLines
    <3>3. retry[t].attempts <= tries[l] /\ tries[l] <= tries'[l]
      BY <3>1, <3>2, TriesGrow DEF AttemptsWereMade
    <3>4. retry[t].attempts \in Nat /\ tries[l] \in Nat /\ tries'[l] \in Nat
      <4>1. tries[l] \in 0..MaxRetries /\ tries'[l] \in 0..MaxRetries
        BY <3>2, TriesGrow DEF TypeOK
      <4>2. retry[t].attempts \in 0..(MaxRetries - 1)  BY <1>1
      <4> QED  BY <1>1, <4>1, <4>2
    <3> QED  BY <3>1, <3>3, <3>4
  <2> QED  BY <2>1, <2>2
<1> QED  BY <1>5, <1>6, TriesGrow DEF AttemptsKept
-----------------------------------------------------------------------------
(* The actions. *)

\* ReadLinesAreHandled of one step.
Handled ==
  \A s \in Scenes : \A l \in Left(s) :
    /\ session = "formation" /\ scene = s
    /\ l \in Ran(lines) => l \in consumed' \/ tries'[l] = MaxRetries

\* The parts of the invariant make it up.
LEMMA Together ==
  ASSUME LogsKept, QueueKept, AttemptsKept,
         recorded' \in 0..MaxLines, faults' \in 0..MaxFaults, crashes' \in 0..MaxCrashes
  PROVE  PInv'
BY DEF PInv, LogsKept, QueueKept, AttemptsKept, TypeOK

\* Bounds of the counters that a fault or a crash raises.
LEMMA Counters ==
  PInv => /\ recorded \in 0..MaxLines /\ faults \in 0..MaxFaults /\ crashes \in 0..MaxCrashes
          /\ recorded < MaxLines => recorded + 1 \in 0..MaxLines
          /\ faults < MaxFaults => faults + 1 \in 0..MaxFaults
          /\ crashes < MaxCrashes => crashes + 1 \in 0..MaxCrashes
BY PersonaMaintenanceAssumption DEF PInv, TypeOK

\* A step that leaves the logs alone.
LEMMA SameLogs ==
  ASSUME PInv, UNCHANGED <<log, consumed, recorded>>
  PROVE  LogsKept /\ Handled
<1>1. LogsKept
  <2>1. log' \in [Scenes -> Seq(1..MaxLines)] /\ consumed' \in SUBSET (1..MaxLines)
    BY DEF PInv, TypeOK
  <2>2. LinesAreRecorded'
    <3>1. /\ consumed' \subseteq 1..recorded'
          /\ \A s \in Scenes : Ran(log'[s]) \subseteq 1..recorded'
          /\ \A s, t \in Scenes : s # t => Ran(log'[s]) \cap Ran(log'[t]) = {}
      BY DEF PInv, LinesAreRecorded
    <3> QED  BY <3>1 DEF LinesAreRecorded, Ran
  <2>3. ConsumedStaysOut'  BY DEF PInv, ConsumedStaysOut, Ran
  <2> QED  BY <2>1, <2>2, <2>3 DEF LogsKept
<1>2. \A s \in Scenes : Left(s) = {}  BY DEF Left, Ran
<1> QED  BY <1>1, <1>2 DEF Handled

\* A step that touches neither the retry files nor the count of attempts keeps them in agreement.
LEMMA SameAttempts == PInv /\ UNCHANGED <<retry, tries>> => AttemptsKept
BY DEF PInv, TypeOK, AttemptsKept, AttemptsWereMade, Ran

\* A message arrives.
LEMMA RecordPInv == ASSUME PInv, NEW s \in Scenes, Record(s) PROVE PInv' /\ Handled
<1> USE DEF PInv
<1>1. LogsKept  BY RecordLogs
<1>2. /\ log' = [log EXCEPT ![s] = Append(@, recorded + 1)] /\ recorded < MaxLines
      /\ recorded' = recorded + 1
      /\ UNCHANGED <<retry, chain, session, scene, lines, todo, sweepQueued, dreamQueued,
                     faults, crashes, consumed, tries>>
  BY DEF Record, WithLine, running, flags, history
<1>3. recorded + 1 \in 1..MaxLines /\ log \in [Scenes -> Seq(1..MaxLines)]
  BY <1>2, Counters DEF TypeOK
<1>4. \A t \in Scenes :
        /\ Len(log[t]) <= Len(log'[t])
        /\ \A i \in 1..Len(log[t]) : i \in 1..Len(log'[t]) /\ log'[t][i] = log[t][i]
  <2> SUFFICES ASSUME NEW t \in Scenes
               PROVE  /\ Len(log[t]) <= Len(log'[t])
                      /\ \A i \in 1..Len(log[t]) : i \in 1..Len(log'[t]) /\ log'[t][i] = log[t][i]
    OBVIOUS
  <2>1. log[t] \in Seq(1..MaxLines) /\ Len(log[t]) \in Nat  BY <1>3
  <2>2. CASE t = s
    <3>1. log'[t] = Append(log[t], recorded + 1)  BY <1>2, <1>3, <2>2
    <3>2. /\ Len(log'[t]) = Len(log[t]) + 1
          /\ \A i \in 1..Len(log[t]) : log'[t][i] = log[t][i]
      BY <1>3, <2>1, <3>1, AppendProperties
    <3> QED  BY <2>1, <3>2
  <2>3. CASE t # s  BY <1>2, <1>3, <2>1, <2>3
  <2> QED  BY <2>2, <2>3
<1>5. SnapshotIsPrefix'
  <2> SUFFICES ASSUME session = "formation"
               PROVE  /\ 0 < Len(lines) /\ Len(lines) <= Len(log'[scene])
                      /\ \A i \in 1..Len(lines) : log'[scene][i] = lines[i]
    BY <1>2 DEF SnapshotIsPrefix
  <2>1. scene \in Scenes /\ lines \in Seq(1..MaxLines) /\ log[scene] \in Seq(1..MaxLines)
        /\ log'[scene] \in Seq(1..MaxLines)
    BY <1>1, <1>3, SnapshotFacts DEF LogsKept
  <2>2. /\ 0 < Len(lines) /\ Len(lines) <= Len(log[scene])
        /\ \A i \in 1..Len(lines) : log[scene][i] = lines[i]
    BY DEF SnapshotIsPrefix
  <2>3. Len(lines) \in Nat /\ Len(log[scene]) \in Nat /\ Len(log'[scene]) \in Nat  BY <2>1
  <2>4. \A i \in 1..Len(lines) : i \in 1..Len(log[scene])  BY <2>2, <2>3
  <2> QED  BY <1>4, <2>1, <2>2, <2>3, <2>4
<1>6. QueueKept
  BY <1>2, <1>5 DEF QueueKept, TypeOK, SessionHasTask, FlagsMatchQueue
<1>7. AttemptsKept  BY <1>2, SameAttempts
<1>8. PInv'  BY <1>1, <1>2, <1>6, <1>7, Counters, Together
<1>9. \A t \in Scenes : Left(t) = {}
  <2>1. \A t \in Scenes : Ran(log[t]) \subseteq Ran(log'[t])  BY <1>4 DEF Ran
  <2> QED  BY <2>1 DEF Left, Ran
<1> QED  BY <1>8, <1>9 DEF Handled

\* A task is queued.
LEMMA EnqueuePInv ==
  ASSUME PInv, (\E s \in Scenes : ScheduleFormation(s)) \/ QueueBacklogSweep \/ RequestDream
  PROVE  PInv' /\ Handled
<1> USE DEF PInv
<1>1. /\ UNCHANGED <<log, consumed, recorded>> /\ UNCHANGED <<retry, tries>>
      /\ UNCHANGED <<disk, running>> /\ UNCHANGED <<faults, crashes>>
  BY DEF ScheduleFormation, QueueBacklogSweep, RequestDream, disk, running, history
<1>2. sweepQueued \in BOOLEAN /\ dreamQueued \in BOOLEAN  BY DEF TypeOK
<1>3. Sweep # Dream /\ \A s \in Scenes : Turn(s) # Sweep /\ Turn(s) # Dream
  BY DEF Sweep, Dream, Turn
<1>4. Sweep \in Tasks /\ Dream \in Tasks /\ \A s \in Scenes : Turn(s) \in Tasks
  BY DEF Tasks
<1>5. QueueKept
  <2>1. ASSUME NEW s \in Scenes, ScheduleFormation(s) PROVE QueueKept
    <3>1. EnqueueMaintenance(Turn(s)) /\ UNCHANGED flags  BY <2>1 DEF ScheduleFormation
    <3> QED  BY <1>1, <1>2, <1>3, <1>4, <3>1, EnqueueQueue DEF flags
  <2>2. CASE QueueBacklogSweep
    <3>1. EnqueueMaintenance(Sweep) /\ ~sweepQueued /\ sweepQueued' = TRUE /\ dreamQueued' = dreamQueued
      BY <2>2 DEF QueueBacklogSweep
    <3> QED  BY <1>1, <1>2, <1>3, <1>4, <3>1, EnqueueQueue
  <2>3. CASE RequestDream
    <3>1. EnqueueMaintenance(Dream) /\ ~dreamQueued /\ dreamQueued' = TRUE /\ sweepQueued' = sweepQueued
      BY <2>3 DEF RequestDream
    <3> QED  BY <1>1, <1>2, <1>3, <1>4, <3>1, EnqueueQueue
  <2> QED  BY <2>1, <2>2, <2>3
<1> QED  BY <1>1, <1>5, SameLogs, SameAttempts, Counters, Together

\* A task begins, or ends before or after a Dream session.
LEMMA StartPInv == ASSUME PInv, Start \/ DreamEnds PROVE PInv' /\ Handled
<1> USE DEF PInv
<1>1. /\ UNCHANGED <<log, consumed, recorded>> /\ UNCHANGED <<retry, tries>>
      /\ UNCHANGED <<faults, crashes>>
  BY DEF Start, DreamEnds, disk, history
<1>2. chain # <<>>  BY DEF Start, DreamEnds, SessionHasTask
<1>3. LogsKept /\ Handled  BY <1>1, SameLogs
<1>4. QueueKept
  <2>1. CASE EndTask  BY <1>2, <2>1, EndTaskQueue
  <2>2. CASE /\ session' = "dream" /\ UNCHANGED <<chain, scene, lines, todo, flags>>
    BY <1>1, <1>2, <2>2
    DEF QueueKept, TypeOK, SessionHasTask, SnapshotIsPrefix, FlagsMatchQueue, flags
  <2>3. CASE GoOn({s \in Scenes : log[s] # <<>>}, log)
    <3>1. GoOn({s \in Scenes : log[s] # <<>>}, log')  BY <1>1, <2>3
    <3> QED  BY <1>2, <1>3, <3>1, GoOnQueue
  <2>4. ASSUME NEW s \in Scenes, GoOn({s}, log) PROVE QueueKept
    <3>1. GoOn({s}, log')  BY <1>1, <2>4
    <3> QED  BY <1>2, <1>3, <3>1, GoOnQueue
  <2> QED  BY <2>1, <2>2, <2>3, <2>4 DEF Start, DreamEnds
<1> QED  BY <1>1, <1>3, <1>4, SameAttempts, Counters, Together
\* A rewrite lets go of no line that was read, unless consumed or tried often enough.
LEMMA RewriteHandled ==
  ASSUME PInv, session = "formation", NEW rest, log' = [log EXCEPT ![scene] = rest],
         \A l \in Ran(lines) : l \in Ran(rest) \/ l \in consumed' \/ tries'[l] = MaxRetries
  PROVE  Handled
<1>1. log \in [Scenes -> Seq(1..MaxLines)] /\ scene \in Scenes
  BY SnapshotFacts DEF PInv, TypeOK
<1>2. \A s \in Scenes : Ran(log[s])' = IF s = scene THEN Ran(rest) ELSE Ran(log[s])
  BY <1>1 DEF Ran
<1>3. \A s \in Scenes : \A l \in Left(s) : s = scene /\ l \notin Ran(rest)
  BY <1>2 DEF Left
<1> QED  BY <1>3 DEF Handled

\* The session's end rewrites the log with what is left of its lines.
LEMMA RewriteStep ==
  ASSUME PInv, session = "formation", NEW n \in Nat, n <= Len(lines),
         log' = Rewritten(n), consumed' = consumed \cup Taken(n), recorded' = recorded
  PROVE  LogsKept /\ Handled
<1> DEFINE rest == SubSeq(lines, n + 1, Len(lines))
<1>1. Takes(rest, Taken(n)) /\ Ran(lines) \subseteq Ran(rest) \cup Taken(n)
  BY SessionTakes
<1>2. log' = [log EXCEPT ![scene] = rest]  BY DEF Rewritten
<1> HIDE DEF rest
<1>3. LogsKept  BY <1>1, <1>2, RewriteLogs
<1>4. Handled  BY <1>1, <1>2, RewriteHandled
<1> QED  BY <1>3, <1>4

\* The last failure over the lines drops the log.
LEMMA DropStep ==
  ASSUME PInv, session = "formation", NEW n \in Nat, n <= Len(lines), Tried, Discards,
         log' = [log EXCEPT ![scene] = <<>>], consumed' = consumed \cup Taken(n),
         recorded' = recorded
  PROVE  LogsKept /\ Handled
<1>1. Takes(<<>>, Taken(n))  BY SessionTakes
<1>2. LogsKept  BY <1>1, RewriteLogs
<1>3. Handled  BY DiscardsTried, RewriteHandled
<1> QED  BY <1>2, <1>3

\* A session that consumed nothing has taken no line.
LEMMA NothingTaken ==
  ASSUME PInv, session = "formation"
  PROVE  Taken(0) = {} /\ 0 <= Len(lines) /\ Len(lines) \in Nat
<1>1. lines \in Seq(1..MaxLines)  BY SnapshotFacts
<1>2. SubSeq(lines, 1, 0) = <<>>  BY SubSeqEmpty
<1>3. Taken(0) = Ran(<<>>)  BY <1>2 DEF Taken
<1>4. Len(lines) \in Nat  BY <1>1
<1> QED  BY <1>3, <1>4, NoLines

\* The failure handler, over the log or over what a late fault left of it.
LEMMA FailureKeeps ==
  ASSUME PInv, session = "formation", NEW n \in Nat, n <= Len(lines),
         HandleFailure(Rewritten(n)) \/ (HandleFailure(log) /\ n = 0), consumed' = consumed \cup Taken(n), recorded' = recorded
  PROVE  LogsKept /\ Handled /\ AttemptsKept
<1>0. scene \in Scenes /\ log \in [Scenes -> Seq(1..MaxLines)] /\ Tried
  BY SnapshotFacts DEF HandleFailure, PInv, TypeOK
<1> PICK lg \in {Rewritten(n), log} : HandleFailure(lg) /\ (lg = log => lg = Rewritten(n) \/ n = 0)
  OBVIOUS
<1>1. CASE Discards
  <2>1. /\ log' = [lg EXCEPT ![scene] = <<>>]
        /\ retry' = [retry EXCEPT ![scene] = NoRetry]
    BY <1>1 DEF HandleFailure
  <2>2. log' = [log EXCEPT ![scene] = <<>>]  BY <1>0, <2>1 DEF Rewritten
  <2> QED  BY <1>0, <1>1, <2>1, <2>2, DropStep, KeepsAttempts
<1>2. CASE ~Discards
  <2>1. /\ log' = lg
        /\ retry' = [retry EXCEPT ![scene] = [signature |-> lines, attempts |-> Attempts]]
    BY <1>2 DEF HandleFailure
  <2>2. AttemptsKept  BY <1>0, <1>2, <2>1, CountsAttempt
  <2>3. CASE lg = Rewritten(n)  BY <2>1, <2>2, <2>3, RewriteStep
  <2>4. CASE lg = log /\ n = 0
    <3>1. Taken(0) = {}  BY NothingTaken
    <3>2. consumed' = consumed  BY <2>4, <3>1
    <3> QED  BY <2>1, <2>2, <2>4, <3>2, SameLogs
  <2> QED  BY <2>2, <2>3, <2>4
<1> QED  BY <1>1, <1>2

\* A Formation session ends, one way or another.
LEMMA SessionEndsPInv == ASSUME PInv, SessionEnds PROVE PInv' /\ Handled
<1> USE DEF PInv
<1>1. session = "formation" /\ chain # <<>> /\ scene \in Scenes /\ todo \subseteq Scenes
      /\ Len(lines) \in Nat
  <2>1. session = "formation"  BY DEF SessionEnds, SessionFails, HandlerThrows, SessionApplies
  <2> QED  BY <2>1, SnapshotFacts, NothingTaken DEF SessionHasTask, TypeOK
<1>2. recorded' = recorded /\ crashes' = crashes /\ faults' \in 0..MaxFaults
  BY Counters
  DEF SessionEnds, SessionFails, HandlerThrows, SessionApplies, NoFault, LateFault
<1>3. ASSUME NEW n \in 0..MaxLines, SessionApplies(n) PROVE PInv' /\ Handled
  <2>1. LogsKept /\ Handled  BY <1>1, <1>2, <1>3, RewriteStep DEF SessionApplies
  <2>2. AttemptsKept  BY <1>1, <1>3, KeepsAttempts DEF SessionApplies
  <2>3. QueueKept  BY <1>1, <1>3, <2>1, GoOnQueue DEF SessionApplies
  <2> QED  BY <1>2, <2>1, <2>2, <2>3, Counters, Together
<1>4. ASSUME SessionFails PROVE PInv' /\ Handled
  <2>1. LogsKept /\ Handled /\ AttemptsKept
    <3>1. CASE HandleFailure(log) /\ consumed' = consumed
      BY <1>1, <1>2, <3>1, NothingTaken, FailureKeeps
    <3>2. ASSUME NEW n \in 0..Len(lines), HandleFailure(Rewritten(n)),
                 consumed' = consumed \cup Taken(n)
          PROVE  LogsKept /\ Handled /\ AttemptsKept
      <4>1. n \in Nat /\ n <= Len(lines) /\ recorded' = recorded  BY <1>1, <1>2
      <4> QED  BY <1>1, <3>2, <4>1, FailureKeeps
    <3> QED  BY <1>4, <3>1, <3>2 DEF SessionFails
  <2>2. QueueKept  BY <1>1, <1>4, <2>1, GoOnQueue DEF SessionFails
  <2> QED  BY <1>2, <2>1, <2>2, Counters, Together
<1>5. ASSUME HandlerThrows PROVE PInv' /\ Handled
  <2>1. Tried /\ EndTask  BY <1>5 DEF HandlerThrows
  <2>2. LogsKept /\ Handled /\ AttemptsKept
    <3>1. CASE UNCHANGED <<disk, consumed>>
      BY <1>1, <1>2, <2>1, <3>1, SameLogs, KeepsAttempts DEF disk
    <3>2. ASSUME NEW n \in 0..Len(lines), log' = Rewritten(n),
                 consumed' = consumed \cup Taken(n), UNCHANGED retry
          PROVE  LogsKept /\ Handled /\ AttemptsKept
      BY <1>1, <1>2, <2>1, <3>2, RewriteStep, KeepsAttempts
    <3>3. CASE /\ Discards /\ log' = [log EXCEPT ![scene] = <<>>]
               /\ retry' = [retry EXCEPT ![scene] = NoRetry] /\ UNCHANGED consumed
      BY <1>1, <1>2, <2>1, <3>3, NothingTaken, DropStep, KeepsAttempts
    <3> QED  BY <1>5, <3>1, <3>2, <3>3 DEF HandlerThrows
  <2>3. QueueKept  BY <1>1, <2>1, EndTaskQueue
  <2> QED  BY <1>2, <2>2, <2>3, Counters, Together
<1> QED  BY <1>3, <1>4, <1>5 DEF SessionEnds

\* The process dies between two stretches, or within the end of a session.
LEMMA CrashPInv ==
  ASSUME PInv, Crash \/ CrashDiscarding \/ \E n \in 0..MaxLines : CrashApplying(n)
  PROVE  PInv' /\ Handled
<1> USE DEF PInv
<1>1. Restart  BY DEF Crash, CrashDiscarding, CrashApplying
<1>2. /\ QueueKept /\ recorded' = recorded /\ faults' = faults
      /\ crashes' \in 0..MaxCrashes
  BY <1>1, RestartQueue, Counters DEF Restart
<1>3. CASE Crash
  <2>1. UNCHANGED <<log, consumed, recorded>> /\ UNCHANGED <<retry, tries>>
    BY <1>2, <1>3 DEF Crash, disk, history
  <2> QED  BY <1>2, <2>1, SameLogs, SameAttempts, Counters, Together
<1>4. CASE CrashDiscarding
  <2>1. LogsKept /\ Handled
    BY <1>2, <1>4, NothingTaken, DropStep DEF CrashDiscarding
  <2>2. AttemptsKept  BY <1>4, SnapshotFacts, KeepsAttempts DEF CrashDiscarding
  <2> QED  BY <1>2, <2>1, <2>2, Counters, Together
<1>5. ASSUME NEW n \in 0..MaxLines, CrashApplying(n) PROVE PInv' /\ Handled
  <2>1. LogsKept /\ Handled  BY <1>2, <1>5, RewriteStep DEF CrashApplying
  <2>2. AttemptsKept  BY <1>5, SameAttempts DEF CrashApplying
  <2> QED  BY <1>2, <2>1, <2>2, Counters, Together
<1> QED  BY <1>3, <1>4, <1>5

\* Every step keeps the invariant and handles the lines that were read.
LEMMA NextPInv == PInv /\ [Next]_vars => PInv' /\ Handled
<1> SUFFICES ASSUME PInv, [Next]_vars PROVE PInv' /\ Handled
  OBVIOUS
<1>1. CASE UNCHANGED vars
  <2>1. /\ UNCHANGED <<log, consumed, recorded>> /\ UNCHANGED <<retry, tries>>
        /\ UNCHANGED <<chain, session, scene, lines, todo, sweepQueued, dreamQueued,
                       faults, crashes>>
    BY <1>1 DEF vars, disk, running, flags, history
  <2>2. QueueKept
    BY <2>1 DEF PInv, QueueKept, TypeOK, SessionHasTask, SnapshotIsPrefix, FlagsMatchQueue
  <2> QED  BY <2>1, <2>2, SameLogs, SameAttempts, Counters, Together
<1>2. ASSUME NEW s \in Scenes, Record(s) PROVE PInv' /\ Handled  BY <1>2, RecordPInv
<1>3. CASE (\E s \in Scenes : ScheduleFormation(s)) \/ QueueBacklogSweep \/ RequestDream
  BY <1>3, EnqueuePInv
<1>4. CASE Start \/ DreamEnds  BY <1>4, StartPInv
<1>5. CASE SessionEnds  BY <1>5, SessionEndsPInv
<1>6. CASE Crash \/ CrashDiscarding \/ \E n \in 0..MaxLines : CrashApplying(n)
  BY <1>6, CrashPInv
<1> QED  BY <1>1, <1>2, <1>3, <1>4, <1>5, <1>6 DEF Next

\* A persona with no observations and an empty queue satisfies it.
LEMMA InitPInv == Init => PInv
<1> SUFFICES ASSUME Init PROVE PInv
  OBVIOUS
<1> USE DEF Init
<1>1. NoRetry \in [signature : Seq(1..MaxLines), attempts : 0..(MaxRetries - 1)]
  BY NoLines, PersonaMaintenanceAssumption DEF NoRetry
<1>2. <<>> \in Seq(Tasks) /\ \A i \in 1..Len(<<>>) : FALSE  OBVIOUS
<1>3. TypeOK
  <2>1. /\ log \in [Scenes -> Seq(1..MaxLines)] /\ lines \in Seq(1..MaxLines)
        /\ retry \in [Scenes -> [signature : Seq(1..MaxLines), attempts : 0..(MaxRetries - 1)]]
    BY <1>1, NoLines
  <2>2. tries \in [1..MaxLines -> 0..MaxRetries]  BY PersonaMaintenanceAssumption
  <2>3. 0 \in 0..MaxLines /\ 0 \in 0..MaxFaults /\ 0 \in 0..MaxCrashes
    BY PersonaMaintenanceAssumption
  <2> QED  BY <1>2, <2>1, <2>2, <2>3 DEF TypeOK
<1>4. LinesAreRecorded /\ ConsumedStaysOut
  BY NoLines DEF LinesAreRecorded, ConsumedStaysOut, Ordered
<1>5. AttemptsWereMade  BY NoLines DEF AttemptsWereMade, NoRetry
<1>6. SessionHasTask /\ SnapshotIsPrefix  BY DEF SessionHasTask, SnapshotIsPrefix
<1>7. FlagsMatchQueue  BY <1>2 DEF FlagsMatchQueue
<1> QED  BY <1>3, <1>4, <1>5, <1>6, <1>7 DEF PInv

\* The invariant holds in every state of the persona.
LEMMA Invariance == Spec => []PInv
<1>1. Init => PInv  BY InitPInv
<1>2. PInv /\ [Next]_vars => PInv'  BY NextPInv
<1> QED  BY <1>1, <1>2, PTL DEF Spec
-----------------------------------------------------------------------------
(* What it is for. *)

\* The type of every variable; with it, that a retry file never counts as many attempts
\* as drop the log: the one that would is the one that drops it.
THEOREM TypeCorrect == Spec => []TypeOK
<1>1. PInv => TypeOK  BY DEF PInv
<1> QED  BY <1>1, Invariance, PTL

\* However many messages arrive while a model session runs, and whichever tasks wait
\* behind it, what the session read is the head of the log it will rewrite
\* (runFormationSession, recordInbound).
THEOREM SnapshotsStayValid == Spec => []SnapshotIsPrefix
<1>1. PInv => SnapshotIsPrefix  BY DEF PInv
<1> QED  BY <1>1, Invariance, PTL

\* No crash, throw or retry puts a line that was folded into the memory back into a log,
\* and no log is ever out of order (consumeObservationLines).
THEOREM LinesAreConsumedOnce == Spec => []ConsumedStaysOut
<1>1. PInv => ConsumedStaysOut  BY DEF PInv
<1> QED  BY <1>1, Invariance, PTL

\* The sweep and Dream can always be queued again once they are over, and never twice
\* before (the finally blocks of queueBacklogSweep and requestDream).
THEOREM FlagsFollowTheQueue == Spec => []FlagsMatchQueue
<1>1. PInv => FlagsMatchQueue  BY DEF PInv
<1> QED  BY <1>1, Invariance, PTL

\* A line that a session was given leaves its log consumed or after MaxRetries sessions
\* over it have failed, also where the handler of a failure throws or the process dies
\* half way through (handleFormationFailure).
THEOREM LinesReadAreHandled == Spec => ReadLinesAreHandled
<1> DEFINE Step ==
       \A s \in Scenes : \A l \in Left(s) :
         /\ session = "formation" /\ scene = s
         /\ l \in Ran(lines) => l \in consumed' \/ tries'[l] = MaxRetries
<1>1. PInv /\ [Next]_vars => Step  BY NextPInv DEF Handled
<1>2. PInv /\ [Next]_vars => [Step]_vars  BY <1>1
<1> QED  BY <1>2, Invariance, PTL DEF Spec, ReadLinesAreHandled
=============================================================================
