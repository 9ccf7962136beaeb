------------------------------ MODULE TurnProofs ------------------------------
(***************************************************************************)
(* Proofs about Turn, for every number of turns at once and every sequence *)
(* of tool calls a model may make.                                         *)
(***************************************************************************)
EXTENDS TurnProps, TLAPS

-----------------------------------------------------------------------------
(* The inductive invariant. *)

\* A turn has an end when it is done, a result only once its worker has closed, and
\* what it holds (a docker command, a prefetch) only while it is under way.
StageOf(t) ==
  /\ end[t] = "" <=> phase[t] # "done"
  /\ phase[t] \notin {"deliver", "done"} => plan[t] = <<>> /\ sent[t] = 0
  /\ child[t] # "none" <=> phase[t] = "worker"
  /\ handle[t] # "none" => phase[t] # "done"
StageOK == \A t \in Turns : StageOf(t)

\* A stop that came before the worker's answer is on record where the turn will look:
\* in its signal, then in runCommand's flags, then in the way the turn ended.
HeldFor(t) ==
  /\ phase[t] \notin {"new", "queued", "deliver"}
  /\ phase[t] \in {"container", "context"} => stopped[t]
  /\ phase[t] = "worker" => Signalled(t)
StopHeld == \A t \in early : HeldFor(t)

\* A turn that awaits the container has a start under way to wake it.
WaitersServed == Waiters # {} <=> start # "none"

\* What may be delivered: the last text, or what a tool call recorded.
Outputs == {"outbound"} \cup UNION {{calls[i] : i \in DOMAIN calls} : calls \in Calls}

Typed == TypeOK /\ plan \in [Turns -> Seq(Outputs)] /\ sent \in [Turns -> Nat]

TInv ==
  /\ Typed
  /\ StageOK /\ StopHeld /\ WaitersServed
  /\ StoppedSaysNothing /\ RememberedIsSaid

-----------------------------------------------------------------------------
(* The end of jobs. *)

\* What every way a job may end leaves behind (the finally of runJob and onRemoved):
\* the invariant holds if those that complete were heard of by nobody's stop and have
\* sent all, and if the start under way still has its waiters.
LEMMA TurnsEnd ==
  ASSUME TInv, NEW T \in SUBSET Turns, NEW e \in {"complete", "fail", "cancel", "removed"},
         \A t \in T : phase[t] # "done", Ends(T, e), UNCHANGED <<plan, sent, early, plugin>>,
         container' \in {"missing", "exited", "running"},
         start' \in {"none", "inspect", "start", "run"}, WaitersServed',
         remembered' = remembered \cup (IF e = "complete" THEN T ELSE {}),
         e = "complete" => \A t \in T : t \notin early /\ sent[t] = Len(plan[t])
  PROVE  TInv'
<1> USE DEF TInv, Typed, TypeOK, Phases
<1>1. \A t \in Turns :
        /\ t \in T => /\ phase'[t] = "done" /\ end'[t] = e /\ handle'[t] = "none"
                      /\ child'[t] = "none"
        /\ t \notin T => /\ phase'[t] = phase[t] /\ end'[t] = end[t] /\ handle'[t] = handle[t]
                         /\ child'[t] = child[t] /\ aborted'[t] = aborted[t]
                         /\ timedOut'[t] = timedOut[t] /\ stopped'[t] = stopped[t]
  BY DEF Ends, Off
<1>2. Typed'  BY DEF Ends, Off
<1>3. StageOK'
  <2> SUFFICES ASSUME NEW t \in Turns PROVE StageOf(t)'  BY DEF StageOK
  <2>1. CASE t \in T  BY <2>1, <1>1 DEF StageOf
  <2>2. CASE t \notin T
    <3>1. StageOf(t)  BY DEF StageOK
    <3> QED  BY ONLY <2>2, <3>1, <1>1, t \in Turns, UNCHANGED <<plan, sent>> DEF StageOf
  <2> QED  BY <2>1, <2>2
<1>4. StopHeld'
  <2> SUFFICES ASSUME NEW t \in Turns, t \in early PROVE HeldFor(t)'  BY DEF StopHeld
  <2>1. CASE t \in T  BY <2>1, <1>1 DEF HeldFor
  <2>2. CASE t \notin T
    <3>1. HeldFor(t)  BY DEF StopHeld
    <3> QED  BY ONLY <2>2, <3>1, <1>1, t \in Turns DEF HeldFor, Signalled
  <2> QED  BY <2>1, <2>2
<1>5. \A t \in T : end[t] = ""  BY DEF StageOK, StageOf
<1>6. StoppedSaysNothing'
  <2> SUFFICES ASSUME NEW t \in early
               PROVE plan[t] = <<>> /\ end'[t] # "complete" /\ t \notin remembered'
    BY DEF StoppedSaysNothing
  <2>1. plan[t] = <<>> /\ end[t] # "complete" /\ t \notin remembered
    BY DEF StoppedSaysNothing
  <2> QED  BY <2>1, <1>1
<1>7. RememberedIsSaid'
  <2> SUFFICES ASSUME NEW t \in Turns
               PROVE /\ t \in remembered' <=> end'[t] = "complete"
                     /\ t \in remembered' => sent[t] = Len(plan[t])
    BY DEF RememberedIsSaid
  <2>1. /\ t \in remembered <=> end[t] = "complete"
        /\ t \in remembered => sent[t] = Len(plan[t])
    BY DEF RememberedIsSaid
  <2>2. CASE t \in T  BY <2>1, <2>2, <1>1, <1>5
  <2>3. CASE t \notin T  BY <2>1, <2>3, <1>1
  <2> QED  BY <2>2, <2>3
<1> QED  BY <1>2, <1>3, <1>4, <1>6, <1>7

\* A turn that ends and did not await the container leaves those that do as they are.
LEMMA OneTurnEnds ==
  ASSUME TInv, NEW t \in Turns, NEW e \in {"complete", "fail", "cancel", "removed"},
         phase[t] \notin {"container", "done"}, Ends({t}, e),
         UNCHANGED <<plan, sent, early, around>>,
         remembered' = remembered \cup (IF e = "complete" THEN {t} ELSE {}),
         e = "complete" => t \notin early /\ sent[t] = Len(plan[t])
  PROVE  TInv'
<1>1. Waiters' = Waiters
  <2>1. \A u \in Turns : phase'[u] = "container" <=> phase[u] = "container"
    BY DEF Ends, Off
  <2> QED  BY <2>1 DEF Waiters
<1>2. WaitersServed'  BY <1>1 DEF WaitersServed, TInv, around
<1>3. /\ container' \in {"missing", "exited", "running"}
      /\ start' \in {"none", "inspect", "start", "run"} /\ plugin' = plugin
  BY DEF TInv, Typed, TypeOK, around
<1> QED  BY <1>2, <1>3, TurnsEnd

-----------------------------------------------------------------------------
(* Every step keeps the invariant: the steps of one turn, those of the     *)
(* container and the plugin, and the ends of jobs.                         *)

\* Every step of a turn, of the workers and of docker keeps the invariant.
LEMMA NextTInv == TInv /\ [Next]_vars => TInv'
<1> SUFFICES ASSUME TInv, [Next]_vars PROVE TInv'
  OBVIOUS
<1> USE DEF TInv, Typed
<1>1. ASSUME NEW t \in Turns, Enqueue(t) PROVE TInv'
  <2> USE <1>1 DEF Enqueue, Goes, queueing, command, result, around
  <2>0. PICK h \in {"none", "pending"} : handle' = [handle EXCEPT ![t] = h]
    OBVIOUS
  <2>1. Typed'  BY <2>0 DEF TypeOK, Phases
  <2>2. StageOK'
    <3> SUFFICES ASSUME NEW u \in Turns PROVE StageOf(u)'  BY DEF StageOK
    <3>1. StageOf(u) /\ StageOf(t)  BY DEF StageOK
    <3> QED  BY <3>1, <2>0 DEF StageOf, TypeOK, Phases
  <2>3. StopHeld'
    <3> SUFFICES ASSUME NEW u \in early' PROVE HeldFor(u)'  BY DEF StopHeld
    <3>1. u \in early => HeldFor(u)  BY DEF StopHeld
    <3>2. u \in Turns  BY DEF TypeOK
    <3> QED  BY <3>1, <3>2 DEF HeldFor, Signalled, TypeOK, Phases
  <2>4. WaitersServed'  BY DEF WaitersServed, TypeOK, Phases, Waiters
  <2>5. StoppedSaysNothing'  BY DEF StoppedSaysNothing, StopHeld, HeldFor, StageOK, StageOf, TypeOK, Signalled
  <2>6. RememberedIsSaid'  BY DEF RememberedIsSaid, StageOK, StageOf, TypeOK
  <2> QED  BY <2>1, <2>2, <2>3, <2>4, <2>5, <2>6
<1>2. ASSUME NEW t \in Turns, SelectorEnds(t) PROVE TInv'
  <2> USE <1>2 DEF SelectorEnds, Goes, queueing, command, result, around
  <2>0. PICK h \in {"ready", "failed"} : handle' = [handle EXCEPT ![t] = h]
    OBVIOUS
  <2>1. Typed'  BY <2>0 DEF TypeOK, Phases
  <2>2. StageOK'
    <3> SUFFICES ASSUME NEW u \in Turns PROVE StageOf(u)'  BY DEF StageOK
    <3>1. StageOf(u) /\ StageOf(t)  BY DEF StageOK
    <3> QED  BY <3>1, <2>0 DEF StageOf, TypeOK, Phases
  <2>3. StopHeld'
    <3> SUFFICES ASSUME NEW u \in early' PROVE HeldFor(u)'  BY DEF StopHeld
    <3>1. u \in early => HeldFor(u)  BY DEF StopHeld
    <3>2. u \in Turns  BY DEF TypeOK
    <3> QED  BY <3>1, <3>2 DEF HeldFor, Signalled, TypeOK, Phases
  <2>4. WaitersServed'  BY DEF WaitersServed, TypeOK, Phases, Waiters
  <2>5. StoppedSaysNothing'  BY DEF StoppedSaysNothing, StopHeld, HeldFor, StageOK, StageOf, TypeOK, Signalled
  <2>6. RememberedIsSaid'  BY DEF RememberedIsSaid, StageOK, StageOf, TypeOK
  <2> QED  BY <2>1, <2>2, <2>3, <2>4, <2>5, <2>6
<1>3. ASSUME NEW t \in Turns, Begin(t) PROVE TInv'
  <2> USE <1>3 DEF Begin, Goes, queueing, command, result, around
  <2>1. Typed'  BY DEF TypeOK, Phases
  <2>2. StageOK'  BY DEF StageOK, StageOf, TypeOK, Phases
  <2>3. StopHeld'
    <3> SUFFICES ASSUME NEW u \in early' PROVE HeldFor(u)'  BY DEF StopHeld
    <3>1. u \in early => HeldFor(u)  BY DEF StopHeld
    <3>2. u \in Turns  BY DEF TypeOK
    <3> QED  BY <3>1, <3>2 DEF HeldFor, Signalled, TypeOK, Phases
  <2>4. WaitersServed'  BY DEF WaitersServed, TypeOK, Phases, Waiters
  <2>5. StoppedSaysNothing'  BY DEF StoppedSaysNothing, StopHeld, HeldFor, StageOK, StageOf, TypeOK, Signalled
  <2>6. RememberedIsSaid'  BY DEF RememberedIsSaid, StageOK, StageOf, TypeOK
  <2> QED  BY <2>1, <2>2, <2>3, <2>4, <2>5, <2>6
<1>4. ASSUME NEW t \in Turns, BuildContext(t) PROVE TInv'
  <2> USE <1>4 DEF BuildContext, Goes, queueing, command, result, around
  <2>1. Typed'  BY DEF TypeOK, Phases
  <2>2. StageOK'  BY DEF StageOK, StageOf, TypeOK, Phases
  <2>3. StopHeld'
    <3> SUFFICES ASSUME NEW u \in early' PROVE HeldFor(u)'  BY DEF StopHeld
    <3>1. u \in early => HeldFor(u)  BY DEF StopHeld
    <3>2. u \in Turns  BY DEF TypeOK
    <3> QED  BY <3>1, <3>2 DEF HeldFor, Signalled, TypeOK, Phases
  <2>4. WaitersServed'  BY DEF WaitersServed, TypeOK, Phases, Waiters
  <2>5. StoppedSaysNothing'  BY DEF StoppedSaysNothing, StopHeld, HeldFor, StageOK, StageOf, TypeOK, Signalled
  <2>6. RememberedIsSaid'  BY DEF RememberedIsSaid, StageOK, StageOf, TypeOK
  <2> QED  BY <2>1, <2>2, <2>3, <2>4, <2>5, <2>6
<1>5. ASSUME NEW t \in Turns, Stop(t) PROVE TInv'
  <2> USE <1>5 DEF Stop, Goes, queueing, command, result, around
  <2>1. Typed'  BY DEF TypeOK, Phases
  <2>2. StageOK'
    <3> SUFFICES ASSUME NEW u \in Turns PROVE StageOf(u)'  BY DEF StageOK
    <3>1. StageOf(u) /\ StageOf(t)  BY DEF StageOK
    <3> QED  BY <3>1 DEF StageOf, TypeOK, Phases, Running
  <2>3. StopHeld'
    <3> SUFFICES ASSUME NEW u \in early' PROVE HeldFor(u)'  BY DEF StopHeld
    <3>1. u \in early => HeldFor(u)  BY DEF StopHeld
    <3>2. u \in Turns  BY DEF TypeOK
    <3>3. CASE u = t
      <4>1. phase[t] \in {"container", "context", "worker", "deliver"}
        BY DEF Running, TypeOK, Phases
      <4>2. phase[t] # "deliver"  BY <3>1, <3>3 DEF HeldFor
      <4>3. CASE phase[t] = "worker" /\ ~timedOut[t]
        <5>1. aborted'[t] = TRUE /\ phase' = phase  BY <4>3 DEF TypeOK
        <5> QED  BY <5>1, <3>3, <4>3 DEF HeldFor, Signalled
      <4>4. CASE phase[t] = "worker" /\ timedOut[t]
        BY <3>3, <4>4 DEF HeldFor, Signalled
      <4>5. CASE phase[t] \in {"container", "context"}
        <5>1. stopped'[t] = TRUE /\ phase' = phase  BY DEF TypeOK
        <5> QED  BY <5>1, <3>3, <4>5 DEF HeldFor
      <4> QED  BY <4>1, <4>2, <4>3, <4>4, <4>5
    <3>4. CASE u # t
      <4>1. HeldFor(u)  BY <3>1, <3>4
      <4>2. /\ phase' = phase /\ stopped'[u] = stopped[u] /\ timedOut'[u] = timedOut[u]
            /\ aborted'[u] = aborted[u]
        BY <3>4, <3>2 DEF TypeOK
      <4> QED  BY ONLY <4>1, <4>2 DEF HeldFor, Signalled
    <3> QED  BY <3>3, <3>4
  <2>4. WaitersServed'  BY DEF WaitersServed, TypeOK, Phases, Waiters
  <2>5. StoppedSaysNothing'
    <3> SUFFICES ASSUME NEW u \in early'
                 PROVE  plan[u] = <<>> /\ end[u] # "complete" /\ u \notin remembered
      BY DEF StoppedSaysNothing
    <3>1. CASE u \in early  BY <3>1 DEF StoppedSaysNothing
    <3>2. CASE u \notin early
      <4>1. u = t /\ phase[t] \notin {"new", "queued", "done", "deliver"}
        <5>1. early' = early \/ (early' = early \cup {t} /\ phase[t] # "deliver")  OBVIOUS
        <5> QED  BY <5>1, <3>2 DEF Running
      <4>2. StageOf(t) /\ (t \in remembered <=> end[t] = "complete")
        BY DEF StageOK, RememberedIsSaid
      <4> QED  BY <4>1, <4>2 DEF StageOf
    <3> QED  BY <3>1, <3>2
  <2>6. RememberedIsSaid'  BY DEF RememberedIsSaid, StageOK, StageOf, TypeOK
  <2> QED  BY <2>1, <2>2, <2>3, <2>4, <2>5, <2>6
<1>6. ASSUME NEW t \in Turns, Timeout(t) PROVE TInv'
  <2> USE <1>6 DEF Timeout, Goes, queueing, command, result, around
  <2>1. Typed'  BY DEF TypeOK, Phases
  <2>2. StageOK'
    <3> SUFFICES ASSUME NEW u \in Turns PROVE StageOf(u)'  BY DEF StageOK
    <3>1. StageOf(u) /\ StageOf(t)  BY DEF StageOK
    <3> QED  BY <3>1 DEF StageOf, TypeOK, Phases
  <2>3. StopHeld'  BY DEF StopHeld, HeldFor, StageOK, StageOf, TypeOK, Phases, Signalled, Running
  <2>4. WaitersServed'  BY DEF WaitersServed, TypeOK, Phases, Waiters
  <2>5. StoppedSaysNothing'  BY DEF StoppedSaysNothing, StopHeld, HeldFor, StageOK, StageOf, TypeOK, Signalled
  <2>6. RememberedIsSaid'  BY DEF RememberedIsSaid, StageOK, StageOf, TypeOK
  <2> QED  BY <2>1, <2>2, <2>3, <2>4, <2>5, <2>6
<1>7. ASSUME NEW t \in Turns, Kill(t) PROVE TInv'
  <2> USE <1>7 DEF Kill, Goes, queueing, command, result, around
  <2>1. Typed'  BY DEF TypeOK, Phases
  <2>2. StageOK'  BY DEF StageOK, StageOf, TypeOK, Phases
  <2>3. StopHeld'  BY DEF StopHeld, HeldFor, StageOK, StageOf, TypeOK, Phases, Signalled, Running
  <2>4. WaitersServed'  BY DEF WaitersServed, TypeOK, Phases, Waiters
  <2>5. StoppedSaysNothing'  BY DEF StoppedSaysNothing, StopHeld, HeldFor, StageOK, StageOf, TypeOK, Signalled
  <2>6. RememberedIsSaid'  BY DEF RememberedIsSaid, StageOK, StageOf, TypeOK
  <2> QED  BY <2>1, <2>2, <2>3, <2>4, <2>5, <2>6
<1>8. ASSUME NEW t \in Turns, CloseWithResult(t) PROVE TInv'
  <2>1. PICK p \in Seq(Outputs) : plan' = [plan EXCEPT ![t] = p]
    <3>1. PICK calls \in Calls, text \in BOOLEAN :
            plan' = [plan EXCEPT ![t] = WorkerResult(calls, text)]
      BY <1>8 DEF CloseWithResult
    <3>2. Recorded(calls) \in Seq(Outputs)
      <4>1. Recorded(calls) \in Seq({calls[i] : i \in DOMAIN calls})  BY TurnAssumption
      <4>2. {calls[i] : i \in DOMAIN calls} \subseteq Outputs  BY DEF Outputs
      <4>3. \A S, U : S \subseteq U => Seq(S) \subseteq Seq(U)  OBVIOUS
      <4> QED  BY ONLY <4>1, <4>2, <4>3, Zenon
    <3>3. <<>> \in Seq(Outputs) /\ <<"outbound">> \in Seq(Outputs)
      <4>1. \A S : \A x \in S : <<>> \in Seq(S) /\ <<x>> \in Seq(S)  OBVIOUS
      <4>2. "outbound" \in Outputs  BY DEF Outputs
      <4> QED  BY ONLY <4>1, <4>2, Zenon
    <3>4. \A q, r \in Seq(Outputs) : q \o r \in Seq(Outputs)  OBVIOUS
    <3>5. WorkerResult(calls, text) \in Seq(Outputs)  BY <3>2, <3>3, <3>4, Zenon DEF WorkerResult
    <3> QED  BY <3>1, <3>5
  <2>2. /\ phase[t] = "worker" /\ ~Signalled(t)
        /\ phase' = [phase EXCEPT ![t] = "deliver"] /\ child' = [child EXCEPT ![t] = "none"]
        /\ UNCHANGED <<queueing, aborted, timedOut, sent, end, remembered, around, early>>
    BY <1>8 DEF CloseWithResult, Closes, Goes
  <2>3. t \notin early /\ sent[t] = 0  BY <2>2 DEF StopHeld, HeldFor, StageOK, StageOf
  <2> USE <2>1, <2>2, <2>3 DEF queueing, around
  <2>4. Typed'
    <3>1. plan' \in [Turns -> Seq(Outputs)]  OBVIOUS
    <3>2. \A u \in Turns : sent'[u] \in 0..Len(plan'[u])
      <4> SUFFICES ASSUME NEW u \in Turns PROVE sent[u] \in 0..Len(plan'[u])  BY DEF TypeOK
      <4>1. CASE u = t
        <5>1. plan'[u] = p /\ sent[u] = 0  BY <4>1
        <5>2. Len(p) \in Nat  OBVIOUS
        <5> QED  BY ONLY <5>1, <5>2
      <4>2. CASE u # t
        <5>1. plan'[u] = plan[u]  BY <4>2
        <5> QED  BY <5>1 DEF TypeOK
      <4> QED  BY <4>1, <4>2
    <3>3. phase' \in [Turns -> Phases] /\ child' \in [Turns -> {"none", "runs", "term", "killed"}]
      BY DEF TypeOK, Phases
    <3> QED  BY <3>1, <3>2, <3>3 DEF TypeOK
  <2>5. StageOK'
    <3> SUFFICES ASSUME NEW u \in Turns PROVE StageOf(u)'  BY DEF StageOK
    <3>1. StageOf(u) /\ StageOf(t)  BY DEF StageOK
    <3> QED  BY <3>1 DEF StageOf, TypeOK, Phases
  <2>6. StopHeld'
    <3> SUFFICES ASSUME NEW u \in early' PROVE HeldFor(u)'  BY DEF StopHeld
    <3>1. u \in early => HeldFor(u)  BY DEF StopHeld
    <3>2. u \in Turns  BY DEF TypeOK
    <3> QED  BY <3>1, <3>2 DEF HeldFor, Signalled, TypeOK, Phases
  <2>7. WaitersServed'  BY DEF WaitersServed, TypeOK, Phases, Waiters
  <2>8. StoppedSaysNothing'  BY DEF StoppedSaysNothing, StopHeld, HeldFor, StageOK, StageOf, TypeOK, Signalled
  <2>9. RememberedIsSaid'  BY DEF RememberedIsSaid, StageOK, StageOf, TypeOK
  <2> QED  BY <2>4, <2>5, <2>6, <2>7, <2>8, <2>9
<1>9. ASSUME NEW t \in Turns, Deliver(t) PROVE TInv'
  <2> USE <1>9 DEF Deliver, Goes, queueing, command, result, around
  <2>1. Typed'
    <3>1. sent[t] \in Nat /\ Len(plan[t]) \in Nat /\ sent[t] + 1 <= Len(plan[t])
      <4>0. plan[t] \in Seq(Outputs)  OBVIOUS
      <4>1. sent[t] \in Nat /\ Len(plan[t]) \in Nat
        BY ONLY <4>0, sent \in [Turns -> Nat], t \in Turns
      <4>2. sent[t] < Len(plan[t])  OBVIOUS
      <4> QED  BY ONLY <4>1, <4>2
    <3>2. sent' = [sent EXCEPT ![t] = sent[t] + 1]  OBVIOUS
    <3>3. \A u \in Turns : sent'[u] \in 0..Len(plan'[u])
      <4> SUFFICES ASSUME NEW u \in Turns PROVE sent'[u] \in 0..Len(plan[u])  OBVIOUS
      <4>1. sent[u] \in 0..Len(plan[u])  BY DEF TypeOK
      <4>2. sent'[u] = IF u = t THEN sent[t] + 1 ELSE sent[u]
        BY ONLY <3>2, sent \in [Turns -> Nat], u \in Turns, t \in Turns
      <4> QED  BY ONLY <4>1, <4>2, <3>1
    <3>4. (plan \in [Turns -> Seq(Outputs)])' /\ (sent \in [Turns -> Nat])'  BY <3>1, <3>2
    <3> QED  BY <3>3, <3>4 DEF TypeOK
  <2>2. StageOK'
    <3> SUFFICES ASSUME NEW u \in Turns PROVE StageOf(u)'  BY DEF StageOK
    <3>1. StageOf(u) /\ StageOf(t)  BY DEF StageOK
    <3> QED  BY <3>1 DEF StageOf, TypeOK, Phases
  <2>3. StopHeld'  BY DEF StopHeld, HeldFor, StageOK, StageOf, TypeOK, Phases, Signalled, Running
  <2>4. WaitersServed'  BY DEF WaitersServed, TypeOK, Phases, Waiters
  <2>5. StoppedSaysNothing'  BY DEF StoppedSaysNothing, StopHeld, HeldFor, StageOK, StageOf, TypeOK, Signalled
  <2>6. RememberedIsSaid'
    <3> SUFFICES ASSUME NEW u \in Turns
                 PROVE  /\ u \in remembered <=> end[u] = "complete"
                        /\ u \in remembered => sent'[u] = Len(plan[u])
      BY DEF RememberedIsSaid
    <3>1. /\ u \in remembered <=> end[u] = "complete"
          /\ u \in remembered => sent[u] = Len(plan[u])
      BY DEF RememberedIsSaid
    <3>2. CASE u = t
      <4>1. end[u] = ""  BY <3>2 DEF StageOK, StageOf
      <4> QED  BY <4>1, <3>1
    <3>3. CASE u # t
      <4>1. sent'[u] = sent[u]  BY <3>3
      <4> QED  BY <4>1, <3>1
    <3> QED  BY <3>2, <3>3
  <2> QED  BY <2>1, <2>2, <2>3, <2>4, <2>5, <2>6
<1>10. ASSUME Inspected PROVE TInv'
  <2> USE <1>10 DEF Inspected, Goes, queueing, command, result, around, Joined
  <2>0. /\ phase' \in [Turns -> Phases]
        /\ \A u \in Turns : \/ phase'[u] = phase[u]
                            \/ phase[u] = "container" /\ phase'[u] = "context"
        /\ start' = "none" => \A u \in Turns : phase'[u] # "container"
        /\ start' # "none" => phase' = phase
    <3>1. CASE start' = "none" /\ Joined  BY <3>1 DEF TypeOK, Phases
    <3>2. CASE start' # "none" /\ UNCHANGED phase  BY <3>2 DEF TypeOK
    <3> QED  BY <3>1, <3>2
  <2>1. Typed'  BY DEF TypeOK, Phases
  <2>2. StageOK'
    <3> SUFFICES ASSUME NEW u \in Turns PROVE StageOf(u)'  BY DEF StageOK
    <3>1. StageOf(u)   BY DEF StageOK
    <3> QED  BY <3>1, <2>0 DEF StageOf, TypeOK, Phases
  <2>3. StopHeld'
    <3> SUFFICES ASSUME NEW u \in early' PROVE HeldFor(u)'  BY DEF StopHeld
    <3>1. u \in early => HeldFor(u)  BY DEF StopHeld
    <3>2. u \in Turns  BY DEF TypeOK
    <3> QED  BY <3>1, <3>2, <2>0 DEF HeldFor, Signalled, TypeOK, Phases
  <2>4. WaitersServed'  BY <2>0 DEF WaitersServed, Waiters
  <2>5. StoppedSaysNothing'  BY DEF StoppedSaysNothing, StopHeld, HeldFor, StageOK, StageOf, TypeOK, Signalled
  <2>6. RememberedIsSaid'  BY DEF RememberedIsSaid, StageOK, StageOf, TypeOK
  <2> QED  BY <2>1, <2>2, <2>3, <2>4, <2>5, <2>6
<1>11. ASSUME Started PROVE TInv'
  <2> USE <1>11 DEF Started, Goes, queueing, command, result, around, Joined
  <2>1. Typed'  BY DEF TypeOK, Phases
  <2>2. StageOK'  BY DEF StageOK, StageOf, TypeOK, Phases
  <2>3. StopHeld'  BY DEF StopHeld, HeldFor, StageOK, StageOf, TypeOK, Phases, Signalled, Running
  <2>4. WaitersServed'  BY DEF WaitersServed, TypeOK, Phases, Waiters
  <2>5. StoppedSaysNothing'  BY DEF StoppedSaysNothing, StopHeld, HeldFor, StageOK, StageOf, TypeOK, Signalled
  <2>6. RememberedIsSaid'  BY DEF RememberedIsSaid, StageOK, StageOf, TypeOK
  <2> QED  BY <2>1, <2>2, <2>3, <2>4, <2>5, <2>6
<1>12. ASSUME PluginChanges PROVE TInv'
  <2> USE <1>12 DEF PluginChanges, Goes, queueing, command, result, around
  <2>1. Typed'  BY DEF TypeOK, Phases
  <2>2. StageOK'  BY DEF StageOK, StageOf, TypeOK, Phases
  <2>3. StopHeld'  BY DEF StopHeld, HeldFor, StageOK, StageOf, TypeOK, Phases, Signalled, Running
  <2>4. WaitersServed'  BY DEF WaitersServed, TypeOK, Phases, Waiters
  <2>5. StoppedSaysNothing'  BY DEF StoppedSaysNothing, StopHeld, HeldFor, StageOK, StageOf, TypeOK, Signalled
  <2>6. RememberedIsSaid'  BY DEF RememberedIsSaid, StageOK, StageOf, TypeOK
  <2> QED  BY <2>1, <2>2, <2>3, <2>4, <2>5, <2>6
<1>13. ASSUME ContainerStops PROVE TInv'
  <2> USE <1>13 DEF ContainerStops, Goes, queueing, command, result, around
  <2>1. Typed'  BY DEF TypeOK, Phases
  <2>2. StageOK'  BY DEF StageOK, StageOf, TypeOK, Phases
  <2>3. StopHeld'  BY DEF StopHeld, HeldFor, StageOK, StageOf, TypeOK, Phases, Signalled, Running
  <2>4. WaitersServed'  BY DEF WaitersServed, TypeOK, Phases, Waiters
  <2>5. StoppedSaysNothing'  BY DEF StoppedSaysNothing, StopHeld, HeldFor, StageOK, StageOf, TypeOK, Signalled
  <2>6. RememberedIsSaid'  BY DEF RememberedIsSaid, StageOK, StageOf, TypeOK
  <2> QED  BY <2>1, <2>2, <2>3, <2>4, <2>5, <2>6
<1>14. ASSUME NEW t \in Turns, BeginFails(t) PROVE TInv'
  BY <1>14, OneTurnEnds DEF BeginFails, Closes, around
<1>15. ASSUME NEW t \in Turns, ContextFails(t) PROVE TInv'
  BY <1>15, OneTurnEnds DEF ContextFails, Closes, around
<1>16. ASSUME NEW t \in Turns, StopQueued(t) PROVE TInv'
  BY <1>16, OneTurnEnds DEF StopQueued, Closes, around
<1>17. ASSUME NEW t \in Turns, CloseFails(t) PROVE TInv'
  BY <1>17, OneTurnEnds DEF CloseFails, Closes, around
<1>18. ASSUME NEW t \in Turns, DeliverFails(t) PROVE TInv'
  BY <1>18, OneTurnEnds DEF DeliverFails, Closes, around
<1>19. ASSUME NEW t \in Turns, RememberFails(t) PROVE TInv'
  BY <1>19, OneTurnEnds DEF RememberFails, Closes, around
<1>20. ASSUME NEW t \in Turns, CloseSignalled(t) PROVE TInv'
  <2>1. \E e \in {"fail", "cancel"} : Ends({t}, e)
    <3>1. CASE timedOut[t]  BY <1>20, <3>1 DEF CloseSignalled
    <3>2. CASE ~timedOut[t]  BY <1>20, <3>2 DEF CloseSignalled
    <3> QED  BY <3>1, <3>2
  <2>2. phase[t] = "worker" /\ UNCHANGED <<plan, sent, remembered, around, early>>
    BY <1>20 DEF CloseSignalled, Closes
  <2> QED  BY <2>1, <2>2, OneTurnEnds DEF around
<1>21. ASSUME NEW t \in Turns, Remember(t) PROVE TInv'
  <2>1. t \notin early  BY <1>21 DEF Remember, StopHeld, HeldFor
  <2> QED  BY <1>21, <2>1, OneTurnEnds DEF Remember, around
<1>22. ASSUME StartFails PROVE TInv'
  <2> USE <1>22 DEF StartFails
  <2>1. Waiters \in SUBSET Turns /\ \A t \in Waiters : phase[t] # "done"  BY DEF Waiters
  <2>2. Waiters' = {}  BY DEF Ends, Off, Waiters
  <2>3. WaitersServed'  BY <2>2 DEF WaitersServed
  <2>4. container' \in {"missing", "exited", "running"} /\ start' = "none"  BY DEF TypeOK
  <2> QED  BY <2>1, <2>3, <2>4, TurnsEnd
<1>23. CASE UNCHANGED vars
  <2> USE <1>23 DEF vars, command, queueing, result, around
  <2>1. Typed'  BY DEF TypeOK
  <2>2. StageOK'  BY DEF StageOK, StageOf, TypeOK, Phases
  <2>3. StopHeld'  BY DEF StopHeld, HeldFor, StageOK, StageOf, TypeOK, Phases, Signalled, Running
  <2>4. WaitersServed'  BY DEF WaitersServed, TypeOK, Phases, Waiters
  <2>5. StoppedSaysNothing'  BY DEF StoppedSaysNothing, StopHeld, HeldFor, StageOK, StageOf, TypeOK, Signalled
  <2>6. RememberedIsSaid'  BY DEF RememberedIsSaid, StageOK, StageOf, TypeOK
  <2> QED  BY <2>1, <2>2, <2>3, <2>4, <2>5, <2>6
<1> QED  BY <1>1, <1>2, <1>3, <1>4, <1>5, <1>6, <1>7, <1>8, <1>9, <1>10, <1>11, <1>12, <1>13, <1>14, <1>15, <1>16, <1>17, <1>18, <1>19, <1>20, <1>21, <1>22, <1>23 DEF Next

\* Before the first job it holds.
LEMMA InitTInv == Init => TInv
<1> SUFFICES ASSUME Init PROVE TInv
  OBVIOUS
<1> USE DEF Init
<1>1. Typed
  <2>1. plan = [t \in Turns |-> <<>>] /\ sent = [t \in Turns |-> 0]  OBVIOUS
  <2>2. <<>> \in Seq(Outputs) /\ Len(<<>>) = 0
    <3>1. \A S : <<>> \in Seq(S) /\ Len(<<>>) = 0  BY ONLY TRUE
    <3> QED  BY <3>1
  <2>3. plan \in [Turns -> Seq(Outputs)] /\ sent \in [Turns -> Nat]
    BY ONLY <2>1, <2>2
  <2>4. \A t \in Turns : sent[t] \in 0..Len(plan[t])
    <3> SUFFICES ASSUME NEW t \in Turns PROVE sent[t] \in 0..Len(plan[t])  OBVIOUS
    <3>1. sent[t] = 0 /\ plan[t] = <<>>  BY ONLY <2>1, t \in Turns
    <3>2. Len(plan[t]) = 0  BY ONLY <3>1, <2>2
    <3> QED  BY ONLY <3>1, <3>2
  <2> QED  BY <2>3, <2>4 DEF Typed, TypeOK, Phases
<1>2. StageOK /\ StopHeld /\ WaitersServed
  BY DEF StageOK, StageOf, StopHeld, WaitersServed, Waiters
<1>3. StoppedSaysNothing /\ RememberedIsSaid
  BY DEF StoppedSaysNothing, RememberedIsSaid
<1> QED  BY <1>1, <1>2, <1>3 DEF TInv

\* It holds in every state of the turns: what the theorems below rest on (runJob and its finally).
THEOREM Invariance == Spec => []TInv
<1>1. Init => TInv  BY InitTInv
<1>2. TInv /\ [Next]_vars => TInv'  BY NextTInv
<1> QED  BY <1>1, <1>2, PTL DEF Spec

-----------------------------------------------------------------------------
(* What it is for. *)

\* The type of every variable: of a turn no more is sent than its worker asked for.
THEOREM TypeCorrect == Spec => []TypeOK
<1>1. TInv => TypeOK  BY DEF TInv, Typed
<1> QED  BY <1>1, Invariance, PTL

\* However many turns share the agent and whatever the model calls: a turn stopped before
\* its worker has closed or timed out sends nothing and is not handed to Formation, also
\* when the stop came before there was a command to kill (worker-runner.ts, docker.ts).
THEOREM StopsAreSilent == Spec => []StoppedSaysNothing
<1>1. TInv => StoppedSaysNothing  BY DEF TInv
<1> QED  BY <1>1, Invariance, PTL

\* Formation hears of the turns that complete and of no others, and those have sent all
\* they had to: the jobs that fail half way through the delivery are not among them.
THEOREM MemoryIsOfWhatWasSaid == Spec => []RememberedIsSaid
<1>1. TInv => RememberedIsSaid  BY DEF TInv
<1> QED  BY <1>1, Invariance, PTL

\* However the turns of an agent come and go, a container start under way has a turn that
\* awaits it, a turn that awaits one has a start, and an ended turn has left neither a
\* docker command nor a prefetch (containerStartLocks, the finally of runJob, onRemoved).
THEOREM TurnsCleanUp == Spec => []NothingLeftBehind
<1>1. TInv => NothingLeftBehind
  BY DEF TInv, WaitersServed, StageOK, StageOf, NothingLeftBehind
<1> QED  BY <1>1, Invariance, PTL
=============================================================================
