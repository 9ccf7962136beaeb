---------------------------- MODULE ChannelsProofs ----------------------------
(***************************************************************************)
(* What holds of Channels for every number of plugins, replies, messages,  *)
(* configurations and outages.                                             *)
(*                                                                         *)
(* NeverStuck looks at one plugin at a time, and so does the invariant:    *)
(* a plugin that runs agrees with its own attempt, timer and events, and   *)
(* is in both maps.  A step gives one plugin new fields by the functions   *)
(* of Channels; what each of them keeps is a lemma over every plugin.      *)
(***************************************************************************)
EXTENDS ChannelsProps, TLAPS

\* The fields of a plugin.
Fields == [rev : 0..MaxRev, running : BOOLEAN, open : BOOLEAN,
           dial : {"no", "dialing", "opened"}, promise : BOOLEAN, timer : BOOLEAN,
           after : BOOLEAN, loss : BOOLEAN, ask : {"no", "info", "list", "known"}]
Known == Plugins \cup {NoPlugin}

Typed ==
  /\ plugin \in [Plugins -> Fields]
  /\ entry \in [plugin : Known, rev : 0..MaxRev] /\ served \in Known
  /\ wanted \in 0..MaxRev
  /\ send \in [Sends -> [at : {"idle", "connect", "delay", "call"}, plugin : Known, ran : BOOLEAN]]
  /\ inbox \in [Messages -> [at : {"none", "waiting", "handled", "lost"}, plugin : Known]]

\* A reply under way has a plugin.
SendsHavePlugins == \A s \in Sends : send[s].at # "idle" => send[s].plugin \in Plugins

\* A NapCat plugin that runs: its promise is that of an attempt, and no timer runs beside
\* it; a socket that opened and is gone again is known to be, or will be; without an
\* attempt or a connection there is a timer or an event.
Link(r) ==
  r.running =>
    /\ r.promise <=> r.dial # "no"
    /\ r.promise => ~r.timer
    /\ r.dial = "dialing" => ~r.open
    /\ r.dial = "opened" /\ ~r.open => r.loss \/ r.after
    /\ r.dial = "no" /\ ~r.open => r.timer \/ r.loss

LinksAgree == NapCat => \A p \in Plugins : Link(plugin[p])
AllExpected == \A p \in Plugins : Expected(p)

ChInv == Typed /\ SendsHavePlugins /\ LinksAgree /\ AllExpected

\* What runs is in both maps.
NoneForgotten == \A p \in Plugins : Remembered(p)
-----------------------------------------------------------------------------
(* The functions of a plugin. *)

\* q is a plugin r after a call: NapCat's agreement holds on, the question for a title is
\* as it was, no flush of an album is forgotten, and nothing makes it run.
Moved(r, q) ==
  /\ q \in Fields /\ q.ask = r.ask
  /\ q.running => r.running
  /\ NapCat /\ Link(r) => Link(q)
  /\ ~NapCat /\ r.timer => q.timer

\* A record of a plugin with one field changed; its other fields.
LEMMA FieldsOf ==
  ASSUME NEW r \in Fields
  PROVE  /\ r.running \in BOOLEAN /\ r.open \in BOOLEAN /\ r.promise \in BOOLEAN
         /\ r.timer \in BOOLEAN /\ r.after \in BOOLEAN /\ r.loss \in BOOLEAN
         /\ r.dial \in {"no", "dialing", "opened"}
BY DEF Fields

\* scheduleReconnect sets the timer and nothing else, and does where nothing else will
\* reconnect.
LEMMA ScheduleFacts ==
  ASSUME NEW r \in Fields
  PROVE  LET q == ScheduleReconnect(r)
         IN /\ q \in Fields /\ q.ask = r.ask /\ q.running = r.running /\ q.open = r.open
            /\ q.dial = r.dial /\ q.promise = r.promise /\ q.after = r.after
            /\ q.loss = r.loss
            /\ q.timer <=> r.timer \/ (r.running /\ ~r.promise /\ ~r.open)
BY DEF ScheduleReconnect, Fields

\* beginConnect starts an attempt unless one is in flight.
LEMMA BeginFacts ==
  ASSUME NEW r \in Fields
  PROVE  LET q == BeginConnect(r)
         IN /\ q \in Fields /\ q.ask = r.ask /\ q.running = r.running /\ q.open = r.open
            /\ q.dial = (IF r.dial = "no" THEN "dialing" ELSE r.dial)
            /\ q.promise = TRUE /\ q.timer = r.timer /\ q.after = r.after /\ q.loss = r.loss
BY DEF BeginConnect, Fields

\* A message that is to be sent finds an attempt, or starts one and takes the timer away.
LEMMA EnsureKeeps == ASSUME NEW r \in Fields, NapCat PROVE Moved(r, EnsureConnected(r))
<1> DEFINE off == [r EXCEPT !.timer = FALSE]
<1>1. CASE r.open \/ r.promise  BY <1>1 DEF EnsureConnected, Moved
<1>2. CASE ~(r.open \/ r.promise)
  <2>1. /\ off \in Fields /\ off.ask = r.ask /\ off.running = r.running
        /\ off.open = r.open /\ off.dial = r.dial /\ off.after = r.after
        /\ off.loss = r.loss /\ ~off.timer
    BY DEF Fields
  <2>2. EnsureConnected(r) = BeginConnect(off)  BY <1>2 DEF EnsureConnected
  <2> HIDE DEF off
  <2> QED  BY <1>2, <2>1, <2>2, BeginFacts DEF Moved, Link
<1> QED  BY <1>1, <1>2

\* The end of an attempt schedules the next one where the connection was lost meanwhile.
LEMMA FinallyFacts ==
  ASSUME NEW r \in Fields
  PROVE  LET q == Finally(r)
         IN /\ q \in Fields /\ q.ask = r.ask /\ q.running = r.running /\ q.open = r.open
            /\ q.dial = "no" /\ ~q.promise /\ q.loss = r.loss
            /\ q.timer <=> r.timer \/ (r.after /\ r.running /\ ~r.open)
<1> DEFINE ended == [r EXCEPT !.promise = FALSE, !.dial = "no", !.after = FALSE]
<1>1. /\ ended \in Fields /\ ended.ask = r.ask /\ ended.running = r.running
      /\ ended.open = r.open /\ ended.dial = "no" /\ ~ended.promise
      /\ ended.loss = r.loss /\ ended.timer = r.timer
  BY DEF Fields
<1>2. Finally(r) = IF r.after THEN ScheduleReconnect(ended) ELSE ended  BY DEF Finally
<1> HIDE DEF ended
<1> QED  BY <1>1, <1>2, ScheduleFacts, FieldsOf

\* handleConnectionLoss: an attempt in flight is told, else the timer is set.
LEMMA LossKeeps ==
  ASSUME NEW r \in Fields, NEW q \in Fields,
         q = IF LossIgnored(r) THEN r ELSE AfterLoss(r)
  PROVE  /\ q.ask = r.ask /\ q.running = r.running /\ q.open = r.open /\ q.dial = r.dial
         /\ q.promise = r.promise /\ q.loss = r.loss
         /\ r.timer => q.timer
         /\ r.after => q.after
         /\ r.running /\ ~r.open => q.timer \/ q.after
         /\ q.timer => r.timer \/ ~r.promise
<1>1. CASE LossIgnored(r)  BY <1>1, FieldsOf DEF LossIgnored
<1>2. CASE ~LossIgnored(r) /\ r.promise
  BY <1>2, FieldsOf DEF AfterLoss, LossIgnored, Fields
<1>3. CASE ~LossIgnored(r) /\ ~r.promise
  <2>1. q = ScheduleReconnect(r)  BY <1>3 DEF AfterLoss
  <2> QED  BY <1>3, <2>1, ScheduleFacts, FieldsOf DEF LossIgnored
<1> QED  BY <1>1, <1>2, <1>3
-----------------------------------------------------------------------------
(* Steps of one plugin's link. *)

\* Every step of the link gives its plugin fields it may have moved to.
LEMMA LinkStepMoves ==
  ASSUME ChInv, NEW p \in Plugins, LinkStep(p)
  PROVE  \E q \in Fields : Moved(plugin[p], q) /\ plugin' = [plugin EXCEPT ![p] = q]
<1> DEFINE r == plugin[p]
<1>0. r \in Fields  BY DEF ChInv, Typed
<1>1. ASSUME NEW q \in Fields, Moved(r, q), Set(p, q)
      PROVE  \E s \in Fields : Moved(r, s) /\ plugin' = [plugin EXCEPT ![p] = s]
  BY <1>1 DEF Set
<1> HIDE DEF r
<1>2. CASE Opens(p)
  <2> DEFINE q == [r EXCEPT !.dial = "opened", !.open = TRUE]
  <2>1. /\ q \in Fields /\ q.ask = r.ask /\ q.running = r.running /\ q.open
        /\ q.dial = "opened" /\ q.promise = r.promise /\ q.timer = r.timer
    BY <1>0 DEF Fields
  <2>2. Set(p, q) /\ r.dial = "dialing" /\ NapCat  BY <1>2 DEF Opens, r
  <2> HIDE DEF q
  <2>3. Moved(r, q)  BY <2>1, <2>2 DEF Moved, Link
  <2> QED  BY <1>1, <2>1, <2>2, <2>3 DEF r
<1>3. CASE Connected(p)
  <2> DEFINE t == [r EXCEPT !.timer = FALSE]
             q == Finally(t)
  <2>1. /\ t \in Fields /\ t.ask = r.ask /\ t.running = r.running /\ t.open = r.open
        /\ t.dial = r.dial /\ t.promise = r.promise /\ ~t.timer
        /\ t.after = r.after /\ t.loss = r.loss
    BY <1>0 DEF Fields
  <2>2. Set(p, q) /\ r.dial = "opened" /\ NapCat  BY <1>3 DEF Connected, r
  <2> HIDE DEF t
  <2>3. /\ q \in Fields /\ q.ask = t.ask /\ q.running = t.running /\ q.open = t.open
        /\ q.dial = "no" /\ ~q.promise /\ q.loss = t.loss
        /\ q.timer <=> t.timer \/ (t.after /\ t.running /\ ~t.open)
    BY <2>1, FinallyFacts
  <2> HIDE DEF q
  <2>4. Moved(r, q)  BY <2>1, <2>2, <2>3 DEF Moved, Link
  <2> QED  BY <1>1, <2>2, <2>3, <2>4 DEF r
<1>4. CASE Refused(p)
  <2> DEFINE t == [r EXCEPT !.after = TRUE]
             q == Finally(t)
  <2>1. /\ t \in Fields /\ t.ask = r.ask /\ t.running = r.running /\ t.open = r.open
        /\ t.after /\ t.loss = r.loss /\ t.timer = r.timer
    BY <1>0 DEF Fields
  <2>2. Set(p, q) /\ NapCat  BY <1>4 DEF Refused, r
  <2> HIDE DEF t
  <2>3. /\ q \in Fields /\ q.ask = t.ask /\ q.running = t.running /\ q.open = t.open
        /\ q.dial = "no" /\ ~q.promise /\ q.loss = t.loss
        /\ q.timer <=> t.timer \/ (t.after /\ t.running /\ ~t.open)
    BY <2>1, FinallyFacts
  <2> HIDE DEF q
  <2>4. Moved(r, q)  BY <2>1, <2>2, <2>3 DEF Moved, Link
  <2> QED  BY <1>1, <2>2, <2>3, <2>4 DEF r
<1>5. CASE Closes(p)
  <2> DEFINE q == [r EXCEPT !.open = FALSE, !.loss = TRUE]
  <2>1. /\ q \in Fields /\ q.ask = r.ask /\ q.running = r.running /\ ~q.open /\ q.loss
        /\ q.dial = r.dial /\ q.promise = r.promise /\ q.timer = r.timer
    BY <1>0 DEF Fields
  <2>2. Set(p, q) /\ NapCat  BY <1>5 DEF Closes, r
  <2> HIDE DEF q
  <2>3. Moved(r, q)  BY <2>1, <2>2 DEF Moved, Link
  <2> QED  BY <1>1, <2>1, <2>2, <2>3 DEF r
<1>6. CASE CloseEvent(p)
  <2> DEFINE t == [r EXCEPT !.loss = FALSE]
             q == IF LossIgnored(t) THEN t ELSE AfterLoss(t)
  <2>1. /\ t \in Fields /\ t.ask = r.ask /\ t.running = r.running /\ t.open = r.open
        /\ t.dial = r.dial /\ t.promise = r.promise /\ t.timer = r.timer
        /\ t.after = r.after
    BY <1>0 DEF Fields
  <2>2. Set(p, q)  BY <1>6 DEF CloseEvent, r
  <2> HIDE DEF t
  <2>3. q \in Fields
    <3>1. ScheduleReconnect(t) \in Fields  BY <2>1, ScheduleFacts
    <3>2. [t EXCEPT !.after = TRUE] \in Fields  BY <2>1 DEF Fields
    <3> QED  BY <2>1, <3>1, <3>2 DEF AfterLoss
  <2>4. q = IF LossIgnored(t) THEN t ELSE AfterLoss(t)  OBVIOUS
  <2> HIDE DEF q
  <2>5. /\ q.ask = t.ask /\ q.running = t.running /\ q.open = t.open /\ q.dial = t.dial
        /\ q.promise = t.promise
        /\ t.timer => q.timer
        /\ t.after => q.after
        /\ t.running /\ ~t.open => q.timer \/ q.after
        /\ q.timer => t.timer \/ ~t.promise
    BY <2>1, <2>3, <2>4, LossKeeps
  <2>6. Link(r) /\ NapCat => Link(q)
    <3> SUFFICES ASSUME Link(r), r.running PROVE Link(q)
      BY <2>1, <2>5 DEF Link
    <3>1. r.dial = "no" /\ ~r.open => q.timer
      <4>1. t.promise = FALSE /\ r.dial = "no" /\ t.running /\ ~t.open /\ ~t.timer => q.timer
        BY <2>1, <2>4, ScheduleFacts DEF LossIgnored, AfterLoss
      <4> QED  BY <1>0, <2>1, <2>5, <4>1, FieldsOf DEF Link
    <3> QED  BY <1>0, <2>1, <2>3, <2>5, <3>1, FieldsOf DEF Link
  <2>7. Moved(r, q)  BY <2>1, <2>3, <2>5, <2>6 DEF Moved
  <2> QED  BY <1>1, <2>2, <2>3, <2>7 DEF r
<1>7. CASE TimerFires(p)
  <2> DEFINE t == [r EXCEPT !.timer = FALSE]
             q == IF t.running /\ ~t.open /\ ~t.promise THEN BeginConnect(t) ELSE t
  <2>1. /\ t \in Fields /\ t.ask = r.ask /\ t.running = r.running /\ t.open = r.open
        /\ t.dial = r.dial /\ t.promise = r.promise /\ ~t.timer
        /\ t.after = r.after /\ t.loss = r.loss
    BY <1>0 DEF Fields
  <2>2. Set(p, q) /\ NapCat /\ r.timer  BY <1>7 DEF TimerFires, r
  <2> HIDE DEF t
  <2>3. CASE t.running /\ ~t.open /\ ~t.promise
    <3>1. q = BeginConnect(t)  BY <2>3
    <3> HIDE DEF q
    <3>2. q \in Fields /\ Moved(r, q)  BY <2>1, <2>2, <2>3, <3>1, BeginFacts DEF Moved, Link
    <3> QED  BY <1>1, <2>2, <3>2 DEF r
  <2>4. CASE ~(t.running /\ ~t.open /\ ~t.promise)
    <3>1. q = t  BY <2>4
    <3> HIDE DEF q
    <3>2. q \in Fields /\ Moved(r, q)  BY <2>1, <2>2, <2>4, <3>1 DEF Moved, Link
    <3> QED  BY <1>1, <2>2, <3>2 DEF r
  <2> QED  BY <2>3, <2>4
<1>8. CASE Polls(p) \/ PollFails(p)
  <2> DEFINE polls == [r EXCEPT !.dial = "no", !.open = TRUE]
             fails == [r EXCEPT !.dial = "no", !.open = FALSE, !.running = FALSE]
  <2>1. /\ polls \in Fields /\ polls.ask = r.ask /\ polls.timer = r.timer
        /\ fails \in Fields /\ fails.ask = r.ask /\ fails.timer = r.timer
        /\ polls.running = r.running /\ ~fails.running
    BY <1>0 DEF Fields
  <2>2. ~NapCat /\ (Set(p, polls) \/ Set(p, fails))  BY <1>8 DEF Polls, PollFails, r
  <2> HIDE DEF polls, fails
  <2>3. Moved(r, polls) /\ Moved(r, fails)  BY <2>1, <2>2 DEF Moved
  <2> QED  BY <1>1, <2>1, <2>2, <2>3 DEF r
<1> QED  BY <1>2, <1>3, <1>4, <1>5, <1>6, <1>7, <1>8 DEF LinkStep
-----------------------------------------------------------------------------
(* Messages and plugins together. *)

Letters == [at : {"none", "waiting", "handled", "lost"}, plugin : Known]

\* Expected of any plugins f and inbox i.
ExpectedIn(f, i, p) ==
  (\E m \in Messages : i[m].at = "waiting" /\ i[m].plugin = p) =>
    IF NapCat THEN f[p].ask \in {"info", "list"} ELSE f[p].timer

\* Whether the answer or the timer of a message is still to come, looking at its plugin alone.
LEMMA ExpectedFacts ==
  /\ AllExpected <=> \A p \in Plugins : ExpectedIn(plugin, inbox, p)
  /\ adapter' = adapter =>
       (AllExpected' <=> \A p \in Plugins : ExpectedIn(plugin', inbox', p))
<1>1. \A p \in Plugins : Expected(p) <=> ExpectedIn(plugin, inbox, p)
  BY DEF Expected, ExpectedIn, Waiting
<1>2. ASSUME adapter' = adapter, NEW p \in Plugins
      PROVE  Expected(p)' <=> ExpectedIn(plugin', inbox', p)
  BY <1>2 DEF Expected, ExpectedIn, Waiting, NapCat
<1>3. AllExpected <=> \A p \in Plugins : ExpectedIn(plugin, inbox, p)
  BY <1>1 DEF AllExpected
<1>4. adapter' = adapter =>
        (AllExpected' <=> \A p \in Plugins : ExpectedIn(plugin', inbox', p))
  BY <1>2 DEF AllExpected
<1> QED  BY <1>3, <1>4

\* What a step has to keep: the plugins' part.
PluginsKept == plugin' \in [Plugins -> Fields] /\ LinksAgree' /\ AllExpected'

\* What it has to keep besides.
RestKept ==
  /\ entry' \in [plugin : Known, rev : 0..MaxRev] /\ served' \in Known /\ wanted' \in 0..MaxRev
  /\ send' \in [Sends -> [at : {"idle", "connect", "delay", "call"}, plugin : Known, ran : BOOLEAN]]
  /\ inbox' \in [Messages -> Letters]
  /\ SendsHavePlugins'

\* What a step keeps of the plugins and what it keeps of the rest is the invariant.
LEMMA Together == PluginsKept /\ RestKept => ChInv'
BY DEF PluginsKept, RestKept, ChInv, Typed, Letters

\* Nothing of the plugins and their messages changes.
LEMMA SamePlugins == ChInv /\ UNCHANGED <<adapter, plugin, inbox>> => PluginsKept
<1> SUFFICES ASSUME ChInv, UNCHANGED <<adapter, plugin, inbox>> PROVE PluginsKept
  OBVIOUS
<1>1. plugin' \in [Plugins -> Fields]  BY DEF ChInv, Typed
<1>2. LinksAgree'  BY DEF ChInv, LinksAgree, NapCat
<1>3. AllExpected'  BY ExpectedFacts DEF ChInv
<1> QED  BY <1>1, <1>2, <1>3 DEF PluginsKept

\* One plugin moves on and the inbox stays.
LEMMA MovedKeeps ==
  ASSUME ChInv, NEW p \in Plugins, NEW q, Moved(plugin[p], q),
         plugin' = [plugin EXCEPT ![p] = q], UNCHANGED <<adapter, inbox>>
  PROVE  PluginsKept
<1>1. plugin \in [Plugins -> Fields] /\ q \in Fields  BY DEF ChInv, Typed, Moved
<1>2. \A o \in Plugins : plugin'[o] = IF o = p THEN q ELSE plugin[o]  BY <1>1
<1>3. plugin' \in [Plugins -> Fields]  BY <1>1
<1>4. LinksAgree'
  <2>1. NapCat => \A o \in Plugins : Link(plugin'[o])
    BY <1>2 DEF ChInv, LinksAgree, Moved
  <2> QED  BY <2>1 DEF LinksAgree, NapCat, Link
<1>5. ASSUME NEW o \in Plugins PROVE ExpectedIn(plugin', inbox', o)
  <2>1. ExpectedIn(plugin, inbox, o)  BY ExpectedFacts DEF ChInv
  <2> QED  BY <1>2, <2>1 DEF ExpectedIn, Moved
<1>6. AllExpected'  BY <1>5, ExpectedFacts
<1> QED  BY <1>3, <1>4, <1>6 DEF PluginsKept

\* A plugin that stops does not run; one that did not run stays as it is.
LEMMA StoppedFacts ==
  ASSUME NEW r \in Fields
  PROVE  LET q == Stopped(r)
         IN /\ q \in Fields /\ q.ask = r.ask /\ ~q.running
            /\ ~r.running => q = r
<1>1. CASE ~r.running  BY <1>1 DEF Stopped
<1>2. CASE r.running
  <2> DEFINE lost == r.loss \/ (NapCat /\ r.open)
  <2>1. lost \in BOOLEAN  OBVIOUS
  <2>2. Stopped(r) = [r EXCEPT !.running = FALSE, !.promise = FALSE, !.timer = FALSE,
                                !.open = FALSE, !.loss = lost]
    BY <1>2 DEF Stopped
  <2> HIDE DEF lost
  <2> QED  BY <1>2, <2>1, <2>2 DEF Fields
<1> QED  BY <1>1, <1>2

\* A plugin is stopped: it has nothing left to reconnect, and no part of an album waits
\* for the flush that was taken away.
LEMMA StopFacts ==
  ASSUME ChInv, NEW p \in Known
  PROVE  LET f == Stop(plugin, p)
             i == InboxAfterStop(p)
         IN /\ f \in [Plugins -> Fields] /\ i \in [Messages -> Letters]
            /\ \A o \in Plugins : (NapCat => Link(f[o])) /\ ExpectedIn(f, i, o)
            /\ \A m \in Messages :
                 i[m].at = "waiting" => inbox[m].at = "waiting" /\ i[m].plugin = inbox[m].plugin
<1> DEFINE f == Stop(plugin, p)
           i == InboxAfterStop(p)
<1>1. plugin \in [Plugins -> Fields] /\ inbox \in [Messages -> Letters]
  BY DEF ChInv, Typed, Letters
<1>2. NoPlugin \notin Plugins  BY ChannelsAssumption DEF NoPlugin
<1>3. /\ i \in [Messages -> Letters]
      /\ \A m \in Messages :
           /\ i[m].at = "waiting" => i[m] = inbox[m]
           /\ i[m].at = "waiting" => NapCat \/ i[m].plugin # p \/ p = NoPlugin \/ ~plugin[p].running
  <2>1. \A m \in Messages : [inbox[m] EXCEPT !.at = "lost"] \in Letters
    BY <1>1 DEF Letters
  <2>2. \A m \in Messages : [inbox[m] EXCEPT !.at = "lost"].at = "lost"
    BY <1>1 DEF Letters
  <2>3. ASSUME NEW m \in Messages
        PROVE  /\ i[m] \in Letters
               /\ i[m].at = "waiting" => i[m] = inbox[m]
               /\ i[m].at = "waiting" => NapCat \/ i[m].plugin # p \/ p = NoPlugin \/ ~plugin[p].running
    BY <1>1, <2>1, <2>2 DEF InboxAfterStop
  <2>4. i \in [Messages -> Letters]  BY <2>3 DEF InboxAfterStop
  <2> QED  BY <2>3, <2>4
<1>4. CASE p = NoPlugin
  <2>1. f = plugin  BY <1>4 DEF Stop
  <2> HIDE DEF i, f
  <2>2. \A o \in Plugins : ExpectedIn(plugin, inbox, o)  BY ExpectedFacts DEF ChInv
  <2>3. \A o \in Plugins : ExpectedIn(f, i, o)  BY <1>3, <2>1, <2>2 DEF ExpectedIn
  <2>4. \A o \in Plugins : NapCat => Link(f[o])  BY <2>1 DEF ChInv, LinksAgree
  <2> QED  BY <1>1, <1>3, <2>1, <2>3, <2>4 DEF f, i
<1>5. CASE p \in Plugins
  <2> DEFINE q == Stopped(plugin[p])
  <2>1. f = [plugin EXCEPT ![p] = q]  BY <1>1, <1>2, <1>5 DEF Stop
  <2>2. q \in Fields /\ q.ask = plugin[p].ask /\ ~q.running /\ (~plugin[p].running => q = plugin[p])
    BY <1>1, <1>5, StoppedFacts
  <2> HIDE DEF q, f, i
  <2>3. \A o \in Plugins : f[o] = IF o = p THEN q ELSE plugin[o]  BY <1>1, <2>1
  <2>4. f \in [Plugins -> Fields]  BY <1>1, <2>1, <2>2
  <2>5. \A o \in Plugins : NapCat => Link(f[o])
    BY <2>2, <2>3 DEF ChInv, LinksAgree, Link
  <2>6. ASSUME NEW o \in Plugins PROVE ExpectedIn(f, i, o)
    <3>1. ExpectedIn(plugin, inbox, o)  BY ExpectedFacts DEF ChInv
    <3>2. CASE o # p  BY <1>3, <2>3, <3>1, <3>2 DEF ExpectedIn
    <3>3. CASE o = p /\ NapCat  BY <1>3, <2>2, <2>3, <3>1, <3>3 DEF ExpectedIn
    <3>4. CASE o = p /\ ~NapCat
      <4>1. CASE plugin[p].running  BY <1>2, <1>3, <1>5, <3>4, <4>1 DEF ExpectedIn
      <4>2. CASE ~plugin[p].running  BY <1>3, <2>2, <2>3, <3>1, <3>4, <4>2 DEF ExpectedIn
      <4> QED  BY <4>1, <4>2
    <3> QED  BY <3>2, <3>3, <3>4
  <2> QED  BY <1>3, <2>4, <2>5, <2>6 DEF f, i
<1> QED  BY <1>4, <1>5 DEF Known

\* Plugins and inbox after a stop and nothing else.
LEMMA StopKeeps ==
  ASSUME ChInv, NEW p \in Known, plugin' = Stop(plugin, p), inbox' = InboxAfterStop(p),
         adapter' = adapter
  PROVE  PluginsKept /\ inbox' \in [Messages -> Letters]
<1> DEFINE f == Stop(plugin, p)
           i == InboxAfterStop(p)
<1>1. /\ f \in [Plugins -> Fields] /\ i \in [Messages -> Letters]
      /\ \A o \in Plugins : (NapCat => Link(f[o])) /\ ExpectedIn(f, i, o)
  BY StopFacts
<1>2. plugin' = f /\ inbox' = i  OBVIOUS
<1> HIDE DEF f, i
<1>3. AllExpected'  BY <1>1, <1>2, ExpectedFacts
<1>4. LinksAgree'  BY <1>1, <1>2 DEF LinksAgree, NapCat, Link
<1> QED  BY <1>1, <1>2, <1>3, <1>4 DEF PluginsKept
-----------------------------------------------------------------------------
(* The configuration and the shutdown. *)

\* A plugin that is new starts with an attempt of its own.
LEMMA StartedFacts ==
  ASSUME NEW rev \in 0..MaxRev
  PROVE  Started(rev) \in Fields /\ (NapCat => Link(Started(rev)))
<1> DEFINE r == [Unused EXCEPT !.rev = rev, !.running = TRUE]
<1>1. /\ r \in Fields /\ r.running /\ ~r.open /\ r.dial = "no" /\ ~r.promise /\ ~r.timer
      /\ r.ask = "no"
  BY DEF Unused, Fields
<1>2. CASE NapCat
  <2> DEFINE off == [r EXCEPT !.timer = FALSE]
  <2>1. off \in Fields /\ off.running /\ ~off.open /\ off.dial = "no" /\ ~off.timer
    BY <1>1 DEF Fields
  <2>2. Started(rev) = EnsureConnected(r)  BY <1>2 DEF Started
  <2>3. EnsureConnected(r) = BeginConnect(off)  BY <1>1 DEF EnsureConnected
  <2> HIDE DEF off, r
  <2> DEFINE q == BeginConnect(off)
  <2>4. q \in Fields /\ ~q.open /\ q.dial = "dialing" /\ q.promise = TRUE /\ q.timer = off.timer
    BY <2>1, BeginFacts
  <2>5. Started(rev) = q  BY <2>2, <2>3
  <2> HIDE DEF q
  <2> QED  BY <2>1, <2>4, <2>5 DEF Link
<1>3. CASE ~NapCat
  <2> DEFINE q == [r EXCEPT !.dial = "dialing"]
  <2>1. Started(rev) = q  BY <1>3 DEF Started
  <2> HIDE DEF r
  <2> QED  BY <1>1, <1>3, <2>1 DEF Fields
<1> QED  BY <1>2, <1>3

\* The old plugin is stopped and a fresh one, for which no message waits, is started; it
\* may be stopped again.
LEMMA ReplaceKeeps ==
  ASSUME ChInv, Replace, adapter' = adapter
  PROVE  PluginsKept /\ inbox' \in [Messages -> Letters] /\ entry' \in [plugin : Known, rev : 0..MaxRev]
         /\ served' \in Known
<1>1. PICK p \in Plugins, written \in BOOLEAN :
        /\ Fresh(p)
        /\ plugin' = [Stop(plugin, entry.plugin) EXCEPT
                        ![p] = IF written THEN Started(wanted) ELSE Stopped(Started(wanted))]
        /\ entry' = IF written THEN [plugin |-> p, rev |-> getFingerprint] ELSE NoEntry
        /\ served' = IF written THEN p ELSE NoPlugin
  BY DEF Replace
<1>2. entry.plugin \in Known /\ wanted \in 0..MaxRev  BY DEF ChInv, Typed
<1> DEFINE f == Stop(plugin, entry.plugin)
           i == InboxAfterStop(entry.plugin)
           q == IF written THEN Started(wanted) ELSE Stopped(Started(wanted))
<1>3. /\ f \in [Plugins -> Fields] /\ i \in [Messages -> Letters]
      /\ \A o \in Plugins : (NapCat => Link(f[o])) /\ ExpectedIn(f, i, o)
      /\ \A m \in Messages :
           i[m].at = "waiting" => inbox[m].at = "waiting" /\ i[m].plugin = inbox[m].plugin
  BY <1>2, StopFacts
<1>4. q \in Fields /\ (NapCat => Link(q))
  <2>1. Started(wanted) \in Fields /\ (NapCat => Link(Started(wanted)))  BY <1>2, StartedFacts
  <2>2. Stopped(Started(wanted)) \in Fields /\ ~Stopped(Started(wanted)).running
    BY <2>1, StoppedFacts
  <2> QED  BY <2>1, <2>2 DEF Link
<1>5. plugin' = [f EXCEPT ![p] = q] /\ inbox' = i  BY <1>1 DEF Replace
<1> HIDE DEF f, i, q
<1>6. \A o \in Plugins : plugin'[o] = IF o = p THEN q ELSE f[o]  BY <1>3, <1>5
<1>7. LinksAgree'
  <2>1. NapCat => \A o \in Plugins : Link(plugin'[o])  BY <1>3, <1>4, <1>6
  <2> QED  BY <2>1 DEF LinksAgree, NapCat, Link
<1>8. AllExpected'
  <2>1. ExpectedIn(plugin, inbox, p)  BY ExpectedFacts DEF ChInv
  <2>2. plugin[p].ask = "no" /\ plugin[p].timer = FALSE  BY <1>1 DEF Fresh, Unused
  <2>3. \A m \in Messages : ~(i[m].at = "waiting" /\ i[m].plugin = p)
    BY <1>3, <2>1, <2>2 DEF ExpectedIn
  <2>4. ASSUME NEW o \in Plugins PROVE ExpectedIn(plugin', inbox', o)
    <3>1. ExpectedIn(f, i, o)  BY <1>3
    <3> QED  BY <1>5, <1>6, <2>3, <3>1 DEF ExpectedIn
  <2> QED  BY <2>4, ExpectedFacts
<1>9. plugin' \in [Plugins -> Fields]  BY <1>3, <1>4, <1>5
<1>10. entry' \in [plugin : Known, rev : 0..MaxRev] /\ served' \in Known
  <2>1. 0 \in 0..MaxRev  BY ChannelsAssumption
  <2> QED  BY <1>1, <1>2, <2>1 DEF getFingerprint, Known, NoEntry
<1> QED  BY <1>3, <1>5, <1>7, <1>8, <1>9, <1>10 DEF PluginsKept

\* The rest of the state where only some of it changes.
LEMMA SameRest ==
  ASSUME ChInv,
         entry' = entry \/ entry' = NoEntry,
         served' = served \/ served' = NoPlugin,
         wanted' \in 0..MaxRev, UNCHANGED send, inbox' \in [Messages -> Letters]
  PROVE  RestKept
<1>1. 0 \in 0..MaxRev /\ NoPlugin \in Known  BY ChannelsAssumption DEF Known
<1>2. SendsHavePlugins'  BY DEF ChInv, SendsHavePlugins
<1> QED  BY <1>1, <1>2 DEF RestKept, ChInv, Typed, NoEntry

\* Nothing but configuration, platform or the removal's own files changes.
LEMMA QuietStep ==
  ASSUME ChInv, UNCHANGED <<adapter, plugin, inbox, entry, served, send>>, wanted' \in 0..MaxRev
  PROVE  ChInv'
<1>1. PluginsKept  BY SamePlugins
<1>2. inbox' \in [Messages -> Letters]  BY DEF ChInv, Typed, Letters
<1>3. RestKept  BY <1>2, SameRest
<1> QED  BY <1>1, <1>3, Together

\* syncAgents and stopAll.
LEMMA SyncChInv == ASSUME ChInv, Sync \/ ShutDown PROVE ChInv'
<1>1. /\ adapter' = adapter /\ wanted' = wanted /\ wanted \in 0..MaxRev /\ send' = send
      /\ served \in Known
  BY DEF Sync, ShutDown, ChInv, Typed
<1>2. CASE ShutDown \/ Retire
  <2>1. /\ plugin' = Stop(plugin, served) /\ inbox' = InboxAfterStop(served)
        /\ entry' = entry \/ entry' = NoEntry
        /\ served' = NoPlugin
    BY <1>2 DEF ShutDown, Retire
  <2>2. PluginsKept /\ inbox' \in [Messages -> Letters]  BY <1>1, <2>1, StopKeeps
  <2> QED  BY <1>1, <2>1, <2>2, SameRest, Together
<1>3. CASE Replace
  <2>1. /\ PluginsKept /\ inbox' \in [Messages -> Letters]
        /\ entry' \in [plugin : Known, rev : 0..MaxRev] /\ served' \in Known
    BY <1>1, <1>3, ReplaceKeeps
  <2>2. SendsHavePlugins'  BY <1>1 DEF ChInv, SendsHavePlugins
  <2>3. RestKept  BY <1>1, <2>1, <2>2 DEF RestKept, ChInv, Typed
  <2> QED  BY <2>1, <2>3, Together
<1>4. CASE UNCHANGED <<plugin, maps, inbox>>  BY <1>1, <1>4, QuietStep DEF maps
<1> QED  BY <1>2, <1>3, <1>4 DEF Sync

\* The removal of the agent takes its plugin out of service.
LEMMA RemovalChInv ==
  ASSUME ChInv,
         \/ RequestRemoval \/ SeeOutcome \/ DeleteAgent
         \/ \E q \in Processors : TakeRemoval(q) \/ \E status \in {"completed", "failed"} : FinishRemoval(q, status)
  PROVE  ChInv'
<1>0. served \in Known /\ wanted \in 0..MaxRev /\ 0 \in 0..MaxRev
  BY ChannelsAssumption DEF ChInv, Typed
<1>1. ASSUME NEW q \in Processors, TakeRemoval(q) PROVE ChInv'
  <2>1. /\ plugin' = Stop(plugin, served) /\ inbox' = InboxAfterStop(served) /\ served' = NoPlugin
        /\ UNCHANGED <<adapter, wanted, entry, send>>
    BY <1>1 DEF TakeRemoval, RemovalOnly
  <2>2. PluginsKept /\ inbox' \in [Messages -> Letters]  BY <1>0, <2>1, StopKeeps
  <2> QED  BY <1>0, <2>1, <2>2, SameRest, Together
<1>2. ASSUME NEW q \in Processors, NEW status \in {"completed", "failed"}, FinishRemoval(q, status)
      PROVE  ChInv'
  BY <1>0, <1>2, QuietStep DEF FinishRemoval, RemovalOnly, maps
<1>3. CASE RequestRemoval  BY <1>0, <1>3, QuietStep DEF RequestRemoval, RemovalOnly, maps
<1>4. CASE SeeOutcome  BY <1>0, <1>4, QuietStep DEF SeeOutcome, RemovalOnly, maps
<1>5. CASE DeleteAgent  BY <1>0, <1>5, QuietStep DEF DeleteAgent, RemovalOnly, maps
<1> QED  BY <1>1, <1>2, <1>3, <1>4, <1>5
-----------------------------------------------------------------------------
(* Group messages. *)

\* The messages that waited for a plugin are delivered.
LEMMA DeliverFacts ==
  ASSUME ChInv, NEW ms, Deliver(ms)
  PROVE  /\ inbox' \in [Messages -> Letters]
         /\ \A m \in Messages : inbox'[m].at = "waiting" => m \notin ms /\ inbox'[m] = inbox[m]
<1>1. inbox \in [Messages -> Letters]  BY DEF ChInv, Typed, Letters
<1>2. \A m \in Messages :
        LET x == [inbox[m] EXCEPT !.at = "handled"] IN x \in Letters /\ x.at = "handled"
  BY <1>1 DEF Letters
<1>3. \A m \in Messages : inbox'[m] = IF m \in ms THEN [inbox[m] EXCEPT !.at = "handled"] ELSE inbox[m]
  BY DEF Deliver
<1>4. \A m \in Messages : inbox'[m] \in Letters  BY <1>1, <1>2, <1>3
<1>5. inbox' \in [Messages -> Letters]  BY <1>4 DEF Deliver
<1>6. \A m \in Messages : inbox'[m].at = "waiting" => m \notin ms /\ inbox'[m] = inbox[m]
  BY <1>2, <1>3
<1> QED  BY <1>5, <1>6

\* A step that changes what one plugin asks or has a flush for, and messages of that
\* plugin only: the others find things as they were.
LEMMA InboxStep ==
  ASSUME ChInv, NEW p \in Plugins, NEW q \in Fields,
         NapCat /\ Link(plugin[p]) => Link(q),
         plugin' = [plugin EXCEPT ![p] = q],
         inbox' \in [Messages -> Letters], adapter' = adapter,
         \A m \in Messages : inbox'[m].at = "waiting" => inbox'[m] = inbox[m] \/ inbox'[m].plugin = p,
         ExpectedIn(plugin', inbox', p)
  PROVE  PluginsKept
<1>1. plugin \in [Plugins -> Fields]  BY DEF ChInv, Typed
<1>2. \A o \in Plugins : plugin'[o] = IF o = p THEN q ELSE plugin[o]  BY <1>1
<1>3. plugin' \in [Plugins -> Fields]  BY <1>1
<1>4. LinksAgree'
  <2>1. NapCat => \A o \in Plugins : Link(plugin'[o])  BY <1>2 DEF ChInv, LinksAgree
  <2> QED  BY <2>1 DEF LinksAgree, NapCat, Link
<1>5. ASSUME NEW o \in Plugins, o # p PROVE ExpectedIn(plugin', inbox', o)
  <2>1. ExpectedIn(plugin, inbox, o)  BY ExpectedFacts DEF ChInv
  <2> QED  BY <1>2, <1>5, <2>1 DEF ExpectedIn
<1>6. AllExpected'  BY <1>5, ExpectedFacts
<1> QED  BY <1>3, <1>4, <1>6 DEF PluginsKept

\* The question for a title changes, the link does not.
LEMMA AskFacts ==
  ASSUME NEW r \in Fields, NEW ask \in {"no", "info", "list", "known"}
  PROVE  LET q == [r EXCEPT !.ask = ask]
         IN q \in Fields /\ q.ask = ask /\ (Link(r) => Link(q))
BY DEF Fields, Link

\* Whoever waits for a plugin whose messages were all delivered: nobody.
LEMMA DeliveredAll ==
  ASSUME ChInv, NEW p \in Plugins, Deliver(Waiting(p))
  PROVE  /\ inbox' \in [Messages -> Letters]
         /\ \A m \in Messages : inbox'[m].at = "waiting" => inbox'[m] = inbox[m]
         /\ \A f : ExpectedIn(f, inbox', p)
<1>1. /\ inbox' \in [Messages -> Letters]
      /\ \A m \in Messages : inbox'[m].at = "waiting" => m \notin Waiting(p) /\ inbox'[m] = inbox[m]
  BY DeliverFacts
<1>2. \A m \in Messages : ~(inbox'[m].at = "waiting" /\ inbox'[m].plugin = p)
  BY <1>1 DEF Waiting
<1> QED  BY <1>1, <1>2 DEF ExpectedIn

\* Arrivals, answers about titles, and flushes of albums.
LEMMA InboxChInv ==
  ASSUME ChInv, NEW p \in Plugins,
         TitleAnswer(p) \/ ListAnswer(p) \/ Flush(p) \/ \E m \in Messages : Arrive(m, p)
  PROVE  ChInv'
<1> DEFINE r == plugin[p]
<1>1. r \in Fields /\ plugin \in [Plugins -> Fields] /\ inbox \in [Messages -> Letters] /\ p \in Known
  BY DEF ChInv, Typed, Letters, Known
<1>2. UNCHANGED <<adapter, wanted, entry, served, send>> /\ wanted \in 0..MaxRev
  BY DEF TitleAnswer, ListAnswer, Flush, Arrive, InboxOnly, config, maps, ChInv, Typed
<1>3. ASSUME inbox' \in [Messages -> Letters], PluginsKept PROVE ChInv'
  BY <1>2, <1>3, SameRest, Together
<1>4. ASSUME NEW ask \in {"no", "info", "list", "known"}, Set(p, [r EXCEPT !.ask = ask]),
             inbox' \in [Messages -> Letters],
             \A m \in Messages : inbox'[m].at = "waiting" => inbox'[m] = inbox[m] \/ inbox'[m].plugin = p,
             ExpectedIn(plugin', inbox', p)
      PROVE  ChInv'
  <2> DEFINE q == [r EXCEPT !.ask = ask]
  <2>1. q \in Fields /\ (Link(r) => Link(q))  BY <1>1, AskFacts
  <2>2. plugin' = [plugin EXCEPT ![p] = q]  BY <1>4 DEF Set
  <2> HIDE DEF q
  <2>3. PluginsKept  BY <1>2, <1>4, <2>1, <2>2, InboxStep
  <2> QED  BY <1>3, <1>4, <2>3
<1>5. ASSUME NEW ask \in {"no", "info", "list", "known"}
      PROVE  /\ [r EXCEPT !.ask = ask].ask = ask
             /\ plugin' = [plugin EXCEPT ![p] = [r EXCEPT !.ask = ask]] => plugin'[p].ask = ask
  <2>1. [r EXCEPT !.ask = ask].ask = ask  BY <1>1, AskFacts
  <2> QED  BY <1>1, <2>1
<1>6. CASE TitleAnswer(p)
  <2>1. CASE Set(p, [r EXCEPT !.ask = "known"]) /\ Deliver(Waiting(p))
    BY <1>4, <2>1, DeliveredAll
  <2>2. CASE Set(p, [r EXCEPT !.ask = "list"]) /\ UNCHANGED inbox
    <3>1. ExpectedIn(plugin, inbox, p)  BY ExpectedFacts DEF ChInv
    <3>2. plugin'[p].ask = "list" /\ r.ask = "info"  BY <1>5, <1>6, <2>2 DEF TitleAnswer, Set
    <3>3. plugin'[p].timer = r.timer  BY <1>1, <2>2 DEF Set, Fields
    <3>4. ExpectedIn(plugin', inbox', p)  BY <2>2, <3>1, <3>2, <3>3 DEF ExpectedIn
    <3> QED  BY <1>1, <1>4, <2>2, <3>4
  <2> QED  BY <1>6, <2>1, <2>2 DEF TitleAnswer
<1>7. CASE ListAnswer(p)
  <2>1. Deliver(Waiting(p))  BY <1>7 DEF ListAnswer
  <2>2. PICK ask \in {"known", "no"} : Set(p, [r EXCEPT !.ask = ask])
    BY <1>7 DEF ListAnswer
  <2> QED  BY <1>4, <2>1, <2>2, DeliveredAll
<1>8. CASE Flush(p)
  <2> DEFINE q == [r EXCEPT !.timer = FALSE]
  <2>1. q \in Fields  BY <1>1 DEF Fields
  <2>2. /\ ~NapCat /\ plugin' = [plugin EXCEPT ![p] = q] /\ Deliver(Waiting(p))
    BY <1>8 DEF Flush, Set
  <2> HIDE DEF q
  <2>3. PluginsKept  BY <1>2, <2>1, <2>2, DeliveredAll, InboxStep
  <2> QED  BY <1>3, <2>2, <2>3, DeliveredAll
<1>9. ASSUME NEW m \in Messages, Arrive(m, p) PROVE ChInv'
  <2> DEFINE at == IF NapCat /\ r.ask = "known" THEN "handled" ELSE "waiting"
             x == [plugin |-> p, at |-> at]
  <2>1. x \in Letters /\ x.at = at /\ x.plugin = p  BY <1>1 DEF Letters
  <2>2. inbox' = [inbox EXCEPT ![m] = x]  BY <1>9 DEF Arrive
  <2> HIDE DEF x
  <2>3. /\ inbox' \in [Messages -> Letters]
        /\ \A o \in Messages : inbox'[o] = IF o = m THEN x ELSE inbox[o]
    BY <1>1, <2>1, <2>2
  <2>4. \A o \in Messages : inbox'[o].at = "waiting" => inbox'[o] = inbox[o] \/ inbox'[o].plugin = p
    BY <2>1, <2>3
  <2>5. CASE NapCat /\ r.ask = "known"
    <3>1. UNCHANGED plugin  BY <1>9, <2>5 DEF Arrive
    <3>2. ASSUME NEW o \in Plugins PROVE ExpectedIn(plugin', inbox', o)
      <4>1. ExpectedIn(plugin, inbox, o)  BY ExpectedFacts DEF ChInv
      <4> QED  BY <2>1, <2>3, <2>5, <3>1, <4>1 DEF ExpectedIn
    <3>3. AllExpected'  BY <1>2, <3>2, ExpectedFacts
    <3>4. LinksAgree'  BY <1>2, <3>1 DEF ChInv, LinksAgree, NapCat
    <3> QED  BY <1>1, <1>3, <2>3, <3>1, <3>3, <3>4 DEF PluginsKept
  <2>6. CASE NapCat /\ r.ask # "known"
    <3>1. PICK ask \in {"info", "list"} : Set(p, [r EXCEPT !.ask = ask])
      <4>1. r.ask \in {"no", "info", "list"}  BY <1>1, <2>6 DEF Fields
      <4>2. Set(p, [r EXCEPT !.ask = IF r.ask = "no" THEN "info" ELSE r.ask])
        BY <1>9, <2>6 DEF Arrive
      <4> QED  BY <4>1, <4>2
    <3>2. plugin'[p].ask = ask  BY <1>5, <3>1 DEF Set
    <3>3. ExpectedIn(plugin', inbox', p)  BY <2>6, <3>2 DEF ExpectedIn
    <3> QED  BY <1>4, <2>3, <2>4, <3>1, <3>3
  <2>7. CASE ~NapCat
    <3> DEFINE q == [r EXCEPT !.timer = TRUE]
    <3>1. q \in Fields /\ q.timer  BY <1>1 DEF Fields
    <3>2. plugin' = [plugin EXCEPT ![p] = q]  BY <1>9, <2>7 DEF Arrive, Set
    <3> HIDE DEF q
    <3>3. ExpectedIn(plugin', inbox', p)  BY <1>1, <2>7, <3>1, <3>2 DEF ExpectedIn
    <3>4. PluginsKept  BY <1>2, <2>3, <2>4, <2>7, <3>1, <3>2, <3>3, InboxStep
    <3> QED  BY <1>3, <2>3, <3>4
  <2> QED  BY <2>5, <2>6, <2>7
<1> QED  BY <1>6, <1>7, <1>8, <1>9
-----------------------------------------------------------------------------
(* Replies. *)

Replies == [at : {"idle", "connect", "delay", "call"}, plugin : Known, ran : BOOLEAN]

\* A reply that goes on keeps its plugin.
LEMMA ReplyStep ==
  ASSUME ChInv, NEW s \in Sends, NEW at \in {"idle", "connect", "delay", "call"},
         NEW ran \in BOOLEAN, send[s].plugin \in Plugins, At(s, at, ran),
         PluginsKept, UNCHANGED <<adapter, wanted, entry, served, inbox>>
  PROVE  ChInv'
<1>1. send \in [Sends -> Replies]  BY DEF ChInv, Typed, Replies
<1> DEFINE x == [[send[s] EXCEPT !.at = at] EXCEPT !.ran = ran]
<1>2. send' = [send EXCEPT ![s] = x]  BY <1>1 DEF At
<1>3. x \in Replies /\ x.plugin = send[s].plugin  BY <1>1 DEF Replies
<1> HIDE DEF x
<1>4. send' \in [Sends -> Replies]  BY <1>1, <1>2, <1>3
<1>5. SendsHavePlugins'
  <2>1. \A t \in Sends : send'[t] = IF t = s THEN x ELSE send[t]  BY <1>1, <1>2
  <2> QED  BY <1>3, <2>1 DEF ChInv, SendsHavePlugins
<1>6. RestKept  BY <1>4, <1>5 DEF RestKept, ChInv, Typed, Replies, Letters
<1> QED  BY <1>6, Together

\* sendPayload from its beginning to its answer.
LEMMA SendChInv ==
  ASSUME ChInv, NEW s \in Sends,
         SendBegins(s) \/ SendConnected(s) \/ SendDelayed(s) \/ SendAnswered(s)
  PROVE  ChInv'
<1> DEFINE p == send[s].plugin
<1>1. /\ send \in [Sends -> Replies] /\ plugin \in [Plugins -> Fields] /\ served \in Known
      /\ wanted \in 0..MaxRev
  BY DEF ChInv, Typed, Replies
<1>2. UNCHANGED <<adapter, wanted, entry, served, inbox>>
  BY DEF SendBegins, SendConnected, SendDelayed, SendAnswered, SendOnly, config, maps
<1>3. p \in Plugins \/ send[s].at = "idle"  BY DEF ChInv, SendsHavePlugins
<1>4. CASE SendBegins(s)
  <2> DEFINE q == EnsureConnected(plugin[served])
             x == [at |-> IF plugin[served].open THEN "delay" ELSE "connect",
                   plugin |-> served, ran |-> TRUE]
  <2>1. NapCat /\ served \in Plugins  BY <1>1, <1>4 DEF SendBegins, Known
  <2>2. plugin[served] \in Fields  BY <1>1, <2>1
  <2>3. Moved(plugin[served], q)  BY <2>1, <2>2, EnsureKeeps
  <2>4. plugin' = [plugin EXCEPT ![served] = q] /\ send' = [send EXCEPT ![s] = x]
    BY <1>4 DEF SendBegins, Set
  <2>5. x \in Replies /\ x.plugin = served  BY <1>1 DEF Replies
  <2> HIDE DEF q, x
  <2>6. PluginsKept  BY <1>2, <2>1, <2>3, <2>4, MovedKeeps
  <2>7. send' \in [Sends -> Replies]  BY <1>1, <2>4, <2>5
  <2>8. SendsHavePlugins'
    <3>1. \A t \in Sends : send'[t] = IF t = s THEN x ELSE send[t]  BY <1>1, <2>4
    <3> QED  BY <2>1, <2>5, <3>1 DEF ChInv, SendsHavePlugins
  <2>9. RestKept  BY <1>2, <2>7, <2>8 DEF RestKept, ChInv, Typed, Replies, Letters
  <2> QED  BY <2>6, <2>9, Together
<1>5. CASE SendConnected(s)
  <2>1. /\ p \in Plugins /\ UNCHANGED plugin
        /\ At(s, "delay", plugin[p].running) \/ At(s, "idle", FALSE)
    BY <1>3, <1>5 DEF SendConnected
  <2>2. plugin[p].running \in BOOLEAN  BY <1>1, <2>1, FieldsOf
  <2>3. PluginsKept  BY <1>2, <2>1, SamePlugins
  <2> QED  BY <1>2, <2>1, <2>2, <2>3, ReplyStep
<1>6. CASE SendDelayed(s)
  <2>1. /\ p \in Plugins /\ UNCHANGED plugin
        /\ At(s, "call", send[s].ran) \/ At(s, "idle", FALSE)
    BY <1>3, <1>6 DEF SendDelayed
  <2>2. send[s].ran \in BOOLEAN  BY <1>1 DEF Replies
  <2>3. PluginsKept  BY <1>2, <2>1, SamePlugins
  <2> QED  BY <1>2, <2>1, <2>2, <2>3, ReplyStep
<1>7. CASE SendAnswered(s)
  <2> DEFINE r == plugin[p]
             q == IF LossIgnored(r) THEN r ELSE AfterLoss(r)
  <2>1. p \in Plugins /\ At(s, "idle", FALSE)  BY <1>3, <1>7 DEF SendAnswered
  <2>2. PluginsKept
    <3>1. CASE UNCHANGED plugin  BY <1>2, <3>1, SamePlugins
    <3>2. CASE ~r.open /\ Set(p, q)
      <4>1. r \in Fields  BY <1>1, <2>1
      <4>2. ScheduleReconnect(r) \in Fields  BY <4>1, ScheduleFacts
      <4>3. [r EXCEPT !.after = TRUE] \in Fields  BY <4>1 DEF Fields
      <4>4. q \in Fields  BY <4>1, <4>2, <4>3 DEF AfterLoss
      <4>5. q = IF LossIgnored(r) THEN r ELSE AfterLoss(r)  OBVIOUS
      <4>6. plugin' = [plugin EXCEPT ![p] = q]  BY <3>2 DEF Set
      <4> HIDE DEF r, q
      <4>7. /\ q.ask = r.ask /\ q.running = r.running /\ q.open = r.open /\ q.dial = r.dial
            /\ q.promise = r.promise /\ q.loss = r.loss
            /\ r.timer => q.timer
            /\ r.after => q.after
            /\ q.timer => r.timer \/ ~r.promise
        BY <4>1, <4>4, <4>5, LossKeeps
      <4>8. Link(r) => Link(q)  BY <4>1, <4>7, FieldsOf DEF Link
      <4>9. Moved(r, q)  BY <4>4, <4>7, <4>8 DEF Moved
      <4> QED  BY <1>2, <2>1, <4>6, <4>9, MovedKeeps DEF r
    <3> QED  BY <1>7, <3>1, <3>2 DEF SendAnswered
  <2> QED  BY <1>2, <2>1, <2>2, ReplyStep
<1> QED  BY <1>4, <1>5, <1>6, <1>7
-----------------------------------------------------------------------------
(* The invariant. *)

\* A step of a link leaves everything but its plugin alone.
LEMMA LinkChInv == ASSUME ChInv, NEW p \in Plugins, LinkStep(p) PROVE ChInv'
<1>1. PICK q \in Fields : Moved(plugin[p], q) /\ plugin' = [plugin EXCEPT ![p] = q]
  BY LinkStepMoves
<1>2. Others
  BY DEF LinkStep, Opens, Connected, Refused, Closes, CloseEvent, TimerFires, Polls, PollFails
<1>3. UNCHANGED <<adapter, inbox, entry, served, wanted, send>>
  BY <1>2 DEF Others, config, maps
<1>4. PluginsKept  BY <1>1, <1>3, MovedKeeps
<1>5. RestKept  BY <1>3, SameRest DEF ChInv, Typed, Letters
<1> QED  BY <1>4, <1>5, Together

\* Every step of the channel keeps the invariant.
LEMMA NextChInv == ChInv /\ [Next]_vars => ChInv'
<1> SUFFICES ASSUME ChInv, [Next]_vars PROVE ChInv'
  OBVIOUS
<1>0. wanted \in 0..MaxRev  BY DEF ChInv, Typed
<1>1. CASE UNCHANGED vars  BY <1>0, <1>1, QuietStep DEF vars
<1>2. ASSUME NEW rev \in 0..MaxRev, Configure(rev) PROVE ChInv'
  BY <1>2, QuietStep DEF Configure, maps
<1>3. CASE Sync \/ ShutDown  BY <1>3, SyncChInv
<1>4. CASE PlatformFails \/ PlatformRecovers
  BY <1>0, <1>4, QuietStep DEF PlatformFails, PlatformRecovers, config, maps
<1>5. ASSUME NEW p \in Plugins, LinkStep(p) PROVE ChInv'  BY <1>5, LinkChInv
<1>6. ASSUME NEW p \in Plugins,
             TitleAnswer(p) \/ ListAnswer(p) \/ Flush(p) \/ \E m \in Messages : Arrive(m, p)
      PROVE  ChInv'
  BY <1>6, InboxChInv
<1>7. ASSUME NEW s \in Sends,
             SendBegins(s) \/ SendConnected(s) \/ SendDelayed(s) \/ SendAnswered(s)
      PROVE  ChInv'
  BY <1>7, SendChInv
<1>8. CASE \/ RequestRemoval \/ SeeOutcome \/ DeleteAgent
           \/ \E q \in Processors : TakeRemoval(q) \/ \E status \in {"completed", "failed"} : FinishRemoval(q, status)
  BY <1>8, RemovalChInv
<1> QED  BY <1>1, <1>2, <1>3, <1>4, <1>5, <1>6, <1>7, <1>8 DEF Next

\* Before the first sync there is no plugin and no message.
LEMMA InitChInv == Init => ChInv
<1> SUFFICES ASSUME Init PROVE ChInv
  OBVIOUS
<1> USE DEF Init
<1>1. Unused \in Fields /\ 0 \in 0..MaxRev /\ NoPlugin \in Known
  BY ChannelsAssumption DEF Unused, Fields, Known
<1>2. Silent \in [at : {"idle", "connect", "delay", "call"}, plugin : Known, ran : BOOLEAN]
      /\ [at |-> "none", plugin |-> NoPlugin] \in [at : {"none", "waiting", "handled", "lost"}, plugin : Known]
  BY <1>1 DEF Silent
<1>3. Typed  BY <1>1, <1>2 DEF Typed, NoEntry
<1>4. SendsHavePlugins  BY DEF SendsHavePlugins, Silent
<1>5. LinksAgree  BY DEF LinksAgree, Link, Unused
<1>6. AllExpected  BY DEF AllExpected, Expected, Waiting
<1> QED  BY <1>3, <1>4, <1>5, <1>6 DEF ChInv

-----------------------------------------------------------------------------
(* No plugin is forgotten. *)

\* Where no plugin begins to run and the maps stay, none is forgotten.
LEMMA SameMapsForgetNone ==
  ASSUME NoneForgotten, UNCHANGED maps,
         \A p \in Plugins : plugin'[p].running => plugin[p].running
  PROVE  NoneForgotten'
BY DEF NoneForgotten, Remembered, maps

\* One plugin gets other fields, and does not begin to run by it.
LEMMA OneMoves ==
  ASSUME ChInv, NoneForgotten, UNCHANGED maps, NEW p \in Plugins, NEW q,
         plugin' = [plugin EXCEPT ![p] = q], q.running => plugin[p].running
  PROVE  NoneForgotten'
<1>1. \A o \in Plugins : plugin'[o] = IF o = p THEN q ELSE plugin[o]  BY DEF ChInv, Typed
<1> QED  BY <1>1, SameMapsForgetNone

\* stop stops the plugin it is given and starts none.
LEMMA StopStarts ==
  ASSUME ChInv, NEW p \in Known
  PROVE  \A o \in Plugins : Stop(plugin, p)[o].running => plugin[o].running /\ o # p
<1>1. plugin \in [Plugins -> Fields] /\ NoPlugin \notin Plugins
  BY ChannelsAssumption DEF ChInv, Typed, NoPlugin
<1>2. CASE p = NoPlugin  BY <1>1, <1>2 DEF Stop
<1>3. CASE p \in Plugins
  <2> DEFINE q == Stopped(plugin[p])
  <2>1. ~q.running  BY <1>1, <1>3, StoppedFacts
  <2>2. Stop(plugin, p) = [plugin EXCEPT ![p] = q]  BY <1>1, <1>3 DEF Stop
  <2> HIDE DEF q
  <2> QED  BY <1>1, <2>1, <2>2
<1> QED  BY <1>2, <1>3 DEF Known

\* The steps that stop a plugin: the one they stop is the one that ran, whether they find
\* it by what is served or by the entry.
LEMMA StopsForgetNone ==
  ASSUME ChInv, NoneForgotten,
         Sync \/ ShutDown \/ \E q \in Processors : TakeRemoval(q)
  PROVE  NoneForgotten'
<1>1. /\ served \in Known /\ entry.plugin \in Known /\ wanted \in 0..MaxRev
      /\ plugin \in [Plugins -> Fields]
  BY DEF ChInv, Typed
<1>2. ASSUME plugin' = Stop(plugin, served) PROVE NoneForgotten'
  <2>1. \A o \in Plugins : ~Stop(plugin, served)[o].running
    BY <1>1, StopStarts DEF NoneForgotten, Remembered
  <2> QED  BY <1>2, <2>1 DEF NoneForgotten, Remembered
<1>3. CASE Replace
  <2>1. PICK p \in Plugins, written \in BOOLEAN :
          /\ plugin' = [Stop(plugin, entry.plugin) EXCEPT
                          ![p] = IF written THEN Started(wanted) ELSE Stopped(Started(wanted))]
          /\ entry' = IF written THEN [plugin |-> p, rev |-> getFingerprint] ELSE NoEntry
          /\ served' = IF written THEN p ELSE NoPlugin
    BY <1>3 DEF Replace
  <2> DEFINE f == Stop(plugin, entry.plugin)
             q == IF written THEN Started(wanted) ELSE Stopped(Started(wanted))
  <2>2. f \in [Plugins -> Fields] /\ \A o \in Plugins : ~f[o].running
    BY <1>1, StopFacts, StopStarts DEF NoneForgotten, Remembered
  <2>3. q.running => written
    BY <1>1, StartedFacts, StoppedFacts
  <2>4. plugin' = [f EXCEPT ![p] = q]  BY <2>1
  <2> HIDE DEF f, q
  <2>5. \A o \in Plugins : plugin'[o].running => o = p /\ written  BY <2>2, <2>3, <2>4
  <2> QED  BY <2>1, <2>5 DEF NoneForgotten, Remembered
<1>4. CASE UNCHANGED <<plugin, maps, inbox>>  BY <1>4, SameMapsForgetNone
<1>5. CASE Retire \/ ShutDown \/ \E q \in Processors : TakeRemoval(q)
  BY <1>2, <1>5 DEF Retire, ShutDown, TakeRemoval
<1> QED  BY <1>3, <1>4, <1>5 DEF Sync

\* Messages and replies move plugins on without starting one.
LEMMA TrafficForgetsNone ==
  ASSUME ChInv, NoneForgotten,
         \/ \E p \in Plugins : \/ TitleAnswer(p) \/ ListAnswer(p) \/ Flush(p)
                                \/ \E m \in Messages : Arrive(m, p)
         \/ \E s \in Sends : SendBegins(s) \/ SendConnected(s) \/ SendDelayed(s) \/ SendAnswered(s)
  PROVE  NoneForgotten'
<1>1. /\ plugin \in [Plugins -> Fields] /\ served \in Known
      /\ \A s \in Sends : send[s].at # "idle" => send[s].plugin \in Plugins
  BY DEF ChInv, Typed, SendsHavePlugins
<1>2. ASSUME NEW p \in Plugins,
             TitleAnswer(p) \/ ListAnswer(p) \/ Flush(p) \/ \E m \in Messages : Arrive(m, p)
      PROVE  NoneForgotten'
  <2> DEFINE r == plugin[p]
  <2>1. UNCHANGED maps  BY <1>2 DEF TitleAnswer, ListAnswer, Flush, Arrive, InboxOnly
  <2>2. ASSUME NEW ask, Set(p, [r EXCEPT !.ask = ask]) PROVE NoneForgotten'
    <3>1. [r EXCEPT !.ask = ask].running = r.running  BY <1>1 DEF Fields
    <3> QED  BY <2>1, <2>2, <3>1, OneMoves DEF Set
  <2>3. ASSUME NEW timer, Set(p, [r EXCEPT !.timer = timer]) PROVE NoneForgotten'
    <3>1. [r EXCEPT !.timer = timer].running = r.running  BY <1>1 DEF Fields
    <3> QED  BY <2>1, <2>3, <3>1, OneMoves DEF Set
  <2>4. CASE UNCHANGED plugin  BY <2>1, <2>4, SameMapsForgetNone
  <2>5. \/ UNCHANGED plugin
        \/ \E ask : Set(p, [r EXCEPT !.ask = ask])
        \/ \E timer : Set(p, [r EXCEPT !.timer = timer])
    BY <1>2 DEF TitleAnswer, ListAnswer, Flush, Arrive
  <2> QED  BY <2>2, <2>3, <2>4, <2>5
<1>3. ASSUME NEW s \in Sends,
             SendBegins(s) \/ SendConnected(s) \/ SendDelayed(s) \/ SendAnswered(s)
      PROVE  NoneForgotten'
  <2>1. UNCHANGED maps
    BY <1>3 DEF SendBegins, SendConnected, SendDelayed, SendAnswered, SendOnly
  <2>2. CASE UNCHANGED plugin  BY <2>1, <2>2, SameMapsForgetNone
  <2>3. CASE SendBegins(s)
    <3> DEFINE q == EnsureConnected(plugin[served])
    <3>1. NapCat /\ served \in Plugins  BY <1>1, <2>3 DEF SendBegins, Known
    <3>2. Moved(plugin[served], q)  BY <1>1, <3>1, EnsureKeeps
    <3>3. plugin' = [plugin EXCEPT ![served] = q]  BY <2>3 DEF SendBegins, Set
    <3> HIDE DEF q
    <3> QED  BY <2>1, <3>1, <3>2, <3>3, OneMoves DEF Moved
  <2>4. CASE SendAnswered(s) /\ ~UNCHANGED plugin
    <3> DEFINE p == send[s].plugin
               r == plugin[p]
               q == IF LossIgnored(r) THEN r ELSE AfterLoss(r)
    <3>1. p \in Plugins /\ r \in Fields  BY <1>1, <2>4 DEF SendAnswered
    <3>2. plugin' = [plugin EXCEPT ![p] = q]  BY <2>4 DEF SendAnswered, Set
    <3>3. ScheduleReconnect(r) \in Fields /\ [r EXCEPT !.after = TRUE] \in Fields
      BY <3>1, ScheduleFacts DEF Fields
    <3>4. q \in Fields /\ q = IF LossIgnored(r) THEN r ELSE AfterLoss(r)
      BY <3>1, <3>3 DEF AfterLoss
    <3> HIDE DEF q, r
    <3>5. q.running = r.running  BY <3>1, <3>4, LossKeeps
    <3> QED  BY <2>1, <3>1, <3>2, <3>5, OneMoves DEF r
  <2> QED  BY <1>3, <2>2, <2>3, <2>4 DEF SendConnected, SendDelayed
<1> QED  BY <1>2, <1>3

\* Every step of the channel keeps every running plugin in both maps.
LEMMA NextForgetsNone == ChInv /\ NoneForgotten /\ [Next]_vars => NoneForgotten'
<1> SUFFICES ASSUME ChInv, NoneForgotten, [Next]_vars PROVE NoneForgotten'
  OBVIOUS
<1>1. CASE UNCHANGED <<plugin, maps>>  BY <1>1, SameMapsForgetNone
<1>2. CASE Sync \/ ShutDown \/ \E q \in Processors : TakeRemoval(q)
  BY <1>2, StopsForgetNone
<1>3. ASSUME NEW p \in Plugins, LinkStep(p) PROVE NoneForgotten'
  <2>1. PICK q \in Fields : Moved(plugin[p], q) /\ plugin' = [plugin EXCEPT ![p] = q]
    BY <1>3, LinkStepMoves
  <2>2. UNCHANGED maps
    BY <1>3 DEF LinkStep, Opens, Connected, Refused, Closes, CloseEvent, TimerFires, Polls,
                PollFails, Others
  <2> QED  BY <2>1, <2>2, OneMoves DEF Moved
<1>4. CASE \/ \E p \in Plugins : \/ TitleAnswer(p) \/ ListAnswer(p) \/ Flush(p)
                                 \/ \E m \in Messages : Arrive(m, p)
           \/ \E s \in Sends : SendBegins(s) \/ SendConnected(s) \/ SendDelayed(s) \/ SendAnswered(s)
  BY <1>4, TrafficForgetsNone
<1>5. CASE \/ \E rev \in 0..MaxRev : Configure(rev)
           \/ PlatformFails \/ PlatformRecovers \/ RequestRemoval \/ SeeOutcome \/ DeleteAgent
           \/ \E q \in Processors, status \in {"completed", "failed"} : FinishRemoval(q, status)
           \/ UNCHANGED vars
  BY <1>1, <1>5 DEF Configure, PlatformFails, PlatformRecovers, RequestRemoval, SeeOutcome,
                    DeleteAgent, FinishRemoval, vars, maps
<1> QED  BY <1>2, <1>3, <1>4, <1>5 DEF Next

\* The invariant holds in every state of the channel, and no plugin is forgotten in any.
LEMMA Invariance == Spec => [](ChInv /\ NoneForgotten)
<1>1. Init => ChInv  BY InitChInv
<1>2. Init => NoneForgotten  BY DEF Init, NoneForgotten, Remembered, Unused
<1>3. ChInv /\ [Next]_vars => ChInv'  BY NextChInv
<1>4. ChInv /\ NoneForgotten /\ [Next]_vars => NoneForgotten'  BY NextForgetsNone
<1> QED  BY <1>1, <1>2, <1>3, <1>4, PTL DEF Spec
-----------------------------------------------------------------------------
(* What it is for. *)

\* Of any number of plugins, through any outages, replies, albums, failing starts and
\* changes of the configuration: one that runs is never left with nothing that will
\* reconnect it or stop it, nor a message with nothing that will deliver it
\* (scheduleReconnect, handleConnectionLoss and the finally of beginConnect;
\* flushMediaGroup and the title lookups; the two maps of syncAgents).
THEOREM PluginsAreNeverStuck == Spec => []NeverStuck
<1>1. ChInv /\ NoneForgotten => NeverStuck
  <2> SUFFICES ASSUME ChInv, NoneForgotten, NEW p \in Plugins
               PROVE  (NapCat => Recovering(p)) /\ Expected(p) /\ Remembered(p)
    BY DEF NeverStuck
  <2>1. plugin[p] \in Fields  BY DEF ChInv, Typed
  <2>2. NapCat => Link(plugin[p])  BY DEF ChInv, LinksAgree
  <2>3. NapCat => Recovering(p)  BY <2>1, <2>2, FieldsOf DEF Link, Recovering
  <2> QED  BY <2>3 DEF ChInv, AllExpected, NoneForgotten
<1> QED  BY <1>1, Invariance, PTL

\* A reply that waits out its delay is called off when its plugin is stopped meanwhile,
\* whatever else the plugin goes through (waitBeforeSend and its generation).
THEOREM StoppedPluginsSendNothing == Spec => DelayedSendsCancelled
<1> DEFINE Step ==
       \A s \in Sends :
         send[s].at = "delay" /\ send[s].ran /\ send'[s].at = "call"
           => plugin[send[s].plugin].running
<1>1. ChInv /\ [Next]_vars => Step
  <2> SUFFICES ASSUME ChInv, [Next]_vars, NEW s \in Sends,
                      send[s].at = "delay", send[s].ran, send'[s].at = "call"
               PROVE  plugin[send[s].plugin].running
    OBVIOUS
  <2>1. send \in [Sends -> Replies]  BY DEF ChInv, Typed, Replies
  <2>2. send' # send  OBVIOUS
  <2>3. PICK t \in Sends : SendBegins(t) \/ SendConnected(t) \/ SendDelayed(t) \/ SendAnswered(t)
    <3>1. ~UNCHANGED vars  BY <2>2 DEF vars
    <3>2. \A rev \in 0..MaxRev : ~Configure(rev)  BY <2>2 DEF Configure
    <3>3. ~Sync /\ ~ShutDown /\ ~PlatformFails /\ ~PlatformRecovers
      BY <2>2 DEF Sync, ShutDown, PlatformFails, PlatformRecovers
    <3>4. \A p \in Plugins : ~LinkStep(p)
      BY <2>2 DEF LinkStep, Opens, Connected, Refused, Closes, CloseEvent, TimerFires,
                  Polls, PollFails, Others
    <3>5. \A p \in Plugins : /\ ~TitleAnswer(p) /\ ~ListAnswer(p) /\ ~Flush(p)
                             /\ \A m \in Messages : ~Arrive(m, p)
      BY <2>2 DEF TitleAnswer, ListAnswer, Flush, Arrive, InboxOnly
    <3>6. ~RequestRemoval /\ ~SeeOutcome /\ ~DeleteAgent
      BY <2>2 DEF RequestRemoval, SeeOutcome, DeleteAgent, RemovalOnly
    <3>7. \A q \in Processors : /\ ~TakeRemoval(q)
                                /\ \A status \in {"completed", "failed"} : ~FinishRemoval(q, status)
      BY <2>2 DEF TakeRemoval, FinishRemoval, RemovalOnly
    <3> QED  BY <3>1, <3>2, <3>3, <3>4, <3>5, <3>6, <3>7 DEF Next
  <2>4. t = s
    <3> SUFFICES ASSUME t # s PROVE FALSE
      OBVIOUS
    <3>1. send'[s] = send[s]
      BY <2>1, <2>3 DEF SendBegins, SendConnected, SendDelayed, SendAnswered, At
    <3> QED  BY <3>1
  <2>5. SendDelayed(s)
    <3>1. ~SendBegins(s) /\ ~SendConnected(s) /\ ~SendAnswered(s)
      BY DEF SendBegins, SendConnected, SendAnswered
    <3> QED  BY <2>3, <2>4, <3>1
  <2>6. CASE send[s].ran = plugin[send[s].plugin].running  BY <2>6
  <2>7. CASE send[s].ran # plugin[send[s].plugin].running
    <3>1. At(s, "idle", FALSE)  BY <2>5, <2>7 DEF SendDelayed
    <3>2. send'[s].at = "idle"  BY <2>1, <3>1 DEF At, Replies
    <3> QED  BY <3>2
  <2> QED  BY <2>6, <2>7
<1>2. ChInv /\ [Next]_vars => [Step]_vars  BY <1>1
<1> QED  BY <1>2, Invariance, PTL DEF Spec, DelayedSendsCancelled
=============================================================================
