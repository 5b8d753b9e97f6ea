------------------------ MODULE Subscription_proofs ------------------------
(***************************************************************************)
(* Proofs about a streaming command, for any command line, any number of   *)
(* lost connections, resubscription loops, events and prunes: the count is *)
(* kept, no stream is subscribed twice, what is closed at the end, and     *)
(* what of the captured events can be read.                                *)
(***************************************************************************)
EXTENDS Subscription, FiniteSetTheorems, SequenceTheorems, TLAPS

Subscribed1 == [stream : AllStreams, state : {"live", "lost", "closed"}]
Loop1 == [at : {"idle", "asking", "waiting"}, tries : 0..MaxTries - 1]

\* The subscriptions of a stream that are open, or come back with the connection.
Held(s) == {i \in DOMAIN subs : subs[i].stream = s /\ subs[i].state # "closed"}

\* The types, by the variables they are about.
PhaseOK ==
  /\ job \in Jobs
  /\ phase \in {"connect", "subscribe", "streaming", "exiting", "over"}
  /\ exitBy \in {"none", "error", "cleanup", "reply", "abrupt"}
  /\ (exitBy = "none") <=> (phase \in {"connect", "subscribe", "streaming"})
ConnOK ==
  /\ link \in {"up", "down"} /\ drops \in 0..job.drops
  /\ subs \in Seq(Subscribed1)
  /\ given \in [AllStreams -> 0..Len(subs)] /\ current \in [AllStreams -> 0..Len(subs)]
  /\ \A s \in AllStreams : current[s] # 0 => subs[current[s]].stream = s
  /\ loops \in [AllStreams -> [1..job.drops -> Loop1]]
  /\ recent \in [AllStreams -> 0..job.drops] /\ crossed \cup gaveUp \cup deaf \subseteq Handled
DataOK ==
  /\ seen \in 0..printed /\ after \in 0..seen /\ printed \in 0..MaxPrinted
  /\ store \in {"off", "open"} /\ rows \subseteq captured /\ now \in 0..MaxNow

\* Nothing has been counted after keepAlive before it, nothing is down that was never
\* lost, and each ending belongs to its commands.
PhaseInv ==
  /\ PhaseOK
  /\ phase \in {"connect", "subscribe"} => after = 0
  /\ phase = "subscribe" => job.cmd # "wait"
  /\ phase \in {"subscribe", "streaming"} /\ drops = 0 => link = "up"
  /\ exitBy = "cleanup" => job.cmd # "wait"
  /\ exitBy = "reply" => job.cmd = "wait"

\* As long as no two loops awaited subscribeFn at once, a stream holds at most its
\* current subscription, and none while one is asked for.
OneHeld(s) ==
  /\ Held(s) \subseteq {current[s]}
  /\ Asking(s) # {} => Held(s) = {}
  /\ \A k, l \in Asking(s) : k = l
ConnInv ==
  /\ ConnOK
  /\ \A s \in AllStreams : given[s] = 0 => current[s] = 0
  /\ \A s \in AllStreams : Running(s) # {} => s \in Handled
  /\ drops = 0 => /\ crossed = {} /\ \A s \in AllStreams : Running(s) = {}
                  /\ job.cmd # "wait" => current = given
  /\ job.cmd # "wait" => \A s \in AllStreams \ crossed : OneHeld(s)
  /\ job.cmd = "wait" => Len(subs) <= 1 /\ \A i \in DOMAIN subs : subs[i].stream = "main"

\* What an ending has closed stays closed.
EndInv ==
  /\ exitBy = "cleanup" =>
       \A s \in Streams : Live(s) \cap Given = {} /\ (drops = 0 => Live(s) = {})
  /\ exitBy = "reply" /\ given["main"] # 0 => Live("main") = {}

\* Rows are numbered as they were printed, and only a prune takes them away.
DataInv ==
  /\ DataOK
  /\ cut \in Int
  /\ \A c \in captured : c.n \in 1..printed /\ c.created_at \in 0..now
  /\ \A c, d \in captured : c.n = d.n => c = d
  /\ \A c \in captured : c.created_at >= cut => c \in rows

IInv == PhaseInv /\ ConnInv /\ EndInv /\ DataInv /\ CountKept
-----------------------------------------------------------------------------
LEMMA TypesSplit == TypeOK <=> PhaseOK /\ ConnOK /\ DataOK
  BY DEF TypeOK, PhaseOK, ConnOK, DataOK, Subscribed1, Loop1

LEMMA JobIs ==
  ASSUME PhaseInv
  PROVE  job \in Jobs /\ job.drops \in Nat /\ job.count \in Nat
<1>1. job \in Jobs /\ MaxDrops \in Nat
  BY SubscriptionConstants DEF PhaseInv, PhaseOK
<1> DEFINE cmds == DOMAIN Callbacks
<1>2. job \in [cmd : cmds, count : Nat, timed : BOOLEAN, persist : BOOLEAN, light : BOOLEAN,
               drops : 0..MaxDrops]
  BY <1>1, SubscriptionConstants
<1> HIDE DEF cmds
<1>3. job.drops \in 0..MaxDrops
  BY <1>2, Zenon
<1>4. job.count \in Nat
  BY <1>2, Zenon
<1> QED
  BY <1>1, <1>3, <1>4
-----------------------------------------------------------------------------
(* What the steps leave alone                                              *)

LEMMA ConnStays ==
  ASSUME ConnInv, UNCHANGED <<job, conn>>
  PROVE  ConnInv'
<1>1. /\ link' = link /\ drops' = drops /\ subs' = subs /\ given' = given /\ current' = current
      /\ loops' = loops /\ recent' = recent /\ crossed' = crossed /\ gaveUp' = gaveUp /\ deaf' = deaf
      /\ job' = job
  BY DEF conn
<1>2. Handled' = Handled
  BY <1>1 DEF Handled, Streams
<1>3. \A s \in AllStreams : Asking(s)' = Asking(s) /\ Running(s)' = Running(s) /\ Held(s)' = Held(s)
  BY <1>1 DEF Asking, Running, Held
<1>4. \A s \in AllStreams : OneHeld(s)' <=> OneHeld(s)
  BY <1>1, <1>3 DEF OneHeld
<1> QED
  BY <1>1, <1>2, <1>3, <1>4 DEF ConnInv, ConnOK

\* Only time may pass, and only prunes take place.
LEMMA DataStays ==
  ASSUME DataInv, UNCHANGED data
  PROVE  DataInv' /\ UNCHANGED <<seen, after>>
  BY DEF DataInv, DataOK, data

LEMMA EndStays ==
  ASSUME EndInv, UNCHANGED <<job, exitBy, subs, given, drops>>
  PROVE  EndInv'
  BY DEF EndInv, Streams, Live, Given

\* Before it ends no command has ended.
LEMMA NotEnded ==
  ASSUME PhaseInv', phase' \in {"connect", "subscribe", "streaming"} \/ exitBy' \in {"error", "abrupt"}
  PROVE  EndInv'
  BY DEF PhaseInv, PhaseOK, EndInv
-----------------------------------------------------------------------------
(* Subscriptions change their state, or a new one is opened                *)

LEMMA SubsAre ==
  ASSUME ConnOK
  PROVE  /\ Len(subs) \in Nat /\ DOMAIN subs = 1..Len(subs) /\ subs \in [1..Len(subs) -> Subscribed1]
         /\ \A i \in DOMAIN subs : subs[i].stream \in AllStreams
<1>1. subs \in Seq(Subscribed1)
  BY DEF ConnOK
<1>2. Len(subs) \in Nat /\ DOMAIN subs = 1..Len(subs) /\ subs \in [1..Len(subs) -> Subscribed1]
  BY <1>1, LenProperties
<1>3. \A i \in DOMAIN subs : subs[i].stream \in AllStreams
  BY <1>2 DEF Subscribed1
<1> QED
  BY <1>2, <1>3

LEMMA Restated ==
  ASSUME ConnOK, NEW new \in [DOMAIN subs -> Subscribed1]
  PROVE  new \in Seq(Subscribed1) /\ Len(new) = Len(subs) /\ DOMAIN new = DOMAIN subs
<1>1. new \in [1..Len(subs) -> Subscribed1] /\ Len(subs) \in Nat
  BY SubsAre
<1>2. new \in Seq(Subscribed1)
  <2>1. new \in UNION {[1..n -> Subscribed1] : n \in Nat}
    BY <1>1
  <2> QED
    BY <2>1, SeqDef, Zenon
<1> QED
  BY <1>1, <1>2, LenProperties, SubsAre

LEMMA ClosedIs ==
  ASSUME ConnOK, NEW S
  PROVE  /\ Closed(S) \in [DOMAIN subs -> Subscribed1]
         /\ \A i \in DOMAIN subs : /\ Closed(S)[i].stream = subs[i].stream
                                   /\ Closed(S)[i].state = IF i \in S THEN "closed" ELSE subs[i].state
  BY SubsAre DEF Closed, Subscribed1

\* Subscriptions that are closed or lost violate nothing.
LEMMA FewerHeld ==
  ASSUME PhaseInv, ConnInv, NEW new \in [DOMAIN subs -> Subscribed1], subs' = new,
         \A i \in DOMAIN subs : /\ new[i].stream = subs[i].stream
                                /\ subs[i].state = "closed" => new[i].state = "closed",
         UNCHANGED <<job, given, current, loops, recent, crossed, gaveUp, deaf>>,
         link' \in {"up", "down"}, drops' \in 0..job.drops, drops' = 0 => drops = 0
  PROVE  ConnInv'
<1>1. /\ subs' \in Seq(Subscribed1) /\ Len(subs') = Len(subs) /\ DOMAIN subs' = DOMAIN subs
      /\ DOMAIN subs = 1..Len(subs) /\ Len(subs) \in Nat
  BY Restated, SubsAre DEF ConnInv
<1>2. Handled' = Handled /\ job' = job
  BY DEF Handled, Streams
<1>3. \A s \in AllStreams : Asking(s)' = Asking(s) /\ Running(s)' = Running(s) /\ Held(s)' \subseteq Held(s)
  BY <1>1 DEF Asking, Running, Held
<1>4. \A s \in AllStreams : OneHeld(s) => OneHeld(s)'
  BY <1>3 DEF OneHeld
<1>5. \A s \in AllStreams : current[s] # 0 => current[s] \in DOMAIN subs
  BY <1>1 DEF ConnInv, ConnOK
<1>6. ConnOK'
  BY <1>1, <1>2, <1>5 DEF ConnInv, ConnOK
<1> QED
  BY <1>1, <1>2, <1>3, <1>4, <1>6 DEF ConnInv

LEMMA OpenIs ==
  ASSUME ConnOK, NEW s \in AllStreams, Open(s)
  PROVE  /\ subs' \in Seq(Subscribed1) /\ Len(subs') = Opened /\ DOMAIN subs' = DOMAIN subs \cup {Opened}
         /\ Opened \in Nat \ {0} /\ Opened \notin DOMAIN subs /\ DOMAIN subs = 1..Len(subs)
         /\ subs'[Opened] = [stream |-> s, state |-> "live"]
         /\ \A i \in DOMAIN subs : subs'[i] = subs[i]
<1> DEFINE new == [stream |-> s, state |-> "live"]
<1>1. new \in Subscribed1 /\ subs \in Seq(Subscribed1) /\ Len(subs) \in Nat
  BY SubsAre DEF Subscribed1, ConnOK
<1>2. subs' = Append(subs, new)
  BY DEF Open
<1> HIDE DEF new
<1>3. /\ subs' \in Seq(Subscribed1) /\ Len(subs') = Len(subs) + 1
      /\ \A i \in 1..Len(subs) : subs'[i] = subs[i]
      /\ subs'[Len(subs) + 1] = new
  BY <1>1, <1>2, AppendProperties
<1>4. DOMAIN subs' = 1..Len(subs) + 1
  BY <1>3, LenProperties
<1> QED
  BY <1>1, <1>3, <1>4, SubsAre DEF Opened, new
-----------------------------------------------------------------------------
(* The parts of the invariant that most steps keep                         *)

\* A step that stores nothing, of a command that does not come back from its end.
LEMMA Quietly ==
  ASSUME IInv, UNCHANGED <<job, data>>, phase \in {"exiting", "over"} => phase' \in {"exiting", "over"},
         PhaseInv', ConnInv', EndInv'
  PROVE  IInv'
<1>1. DataInv' /\ seen' = seen /\ after' = after
  BY DataStays DEF IInv
<1>2. CountKept'
  BY <1>1 DEF IInv, CountKept
<1> QED
  BY <1>1, <1>2 DEF IInv

LEMMA PhaseStays ==
  ASSUME PhaseInv, UNCHANGED <<job, phase, exitBy, after>>, drops' = 0 => drops = 0 /\ link' = link
  PROVE  PhaseInv'
  BY DEF PhaseInv, PhaseOK

LEMMA Leaves ==
  ASSUME PhaseInv, NEW by, Leave(by), by \in {"error", "cleanup", "reply", "abrupt"}, job' = job,
         by = "cleanup" => job.cmd # "wait", by = "reply" => job.cmd = "wait"
  PROVE  PhaseInv'
  BY DEF PhaseInv, PhaseOK, Leave

\* A step that ends the command without closing anything.
LEMMA Aborts ==
  ASSUME IInv, NEW by \in {"error", "abrupt"}, Leave(by), UNCHANGED <<job, conn, data>>
  PROVE  IInv'
<1>1. PhaseInv' /\ ConnInv'
  BY Leaves, ConnStays DEF IInv
<1>2. EndInv'
  BY <1>1, NotEnded DEF Leave
<1> QED
  BY <1>1, <1>2, Quietly DEF Leave

\* A step of the connection while the command runs.
LEMMA Meanwhile ==
  ASSUME IInv, phase \in {"subscribe", "streaming"}, UNCHANGED <<job, phase, exitBy, data>>,
         drops' = 0 => drops = 0 /\ link' = link, ConnInv'
  PROVE  IInv'
<1>1. PhaseInv'
  BY PhaseStays DEF IInv, data
<1>2. EndInv'
  BY <1>1, NotEnded
<1> QED
  BY <1>1, <1>2, Quietly

LEMMA StreamOf ==
  ASSUME PhaseInv, ConnInv, NEW s \in AllStreams
  PROVE  /\ current[s] \in 0..Len(subs) /\ given[s] \in 0..Len(subs)
         /\ Held(s) \subseteq DOMAIN subs /\ 0 \notin Held(s) /\ Live(s) \subseteq Held(s)
         /\ Asking(s) \subseteq Running(s) /\ Asking(s) \subseteq 1..job.drops
         /\ s \in Handled => job.cmd # "wait" /\ given[s] # 0
<1>1. DOMAIN subs = 1..Len(subs) /\ Len(subs) \in Nat
  BY SubsAre DEF ConnInv
<1>2. DOMAIN loops[s] = 1..job.drops
  BY DEF ConnInv, ConnOK
<1>3. s \in Handled => job.cmd # "wait" /\ given[s] # 0
  BY DEF Handled, Reconnecting
<1> QED
  BY <1>1, <1>2, <1>3 DEF ConnInv, ConnOK, Held, Live, Asking, Running
-----------------------------------------------------------------------------
(* Starting                                                                *)

LEMMA ConnectFailsKeeps == ASSUME IInv, ConnectFails PROVE IInv'
  BY Aborts DEF ConnectFails

LEMMA SubscribeFailsKeeps == ASSUME IInv, SubscribeFails PROVE IInv'
  BY Aborts DEF SubscribeFails

LEMMA InterruptedKeeps == ASSUME IInv, Interrupted PROVE IInv'
  BY Aborts DEF Interrupted

LEMMA WaitRefusedKeeps == ASSUME IInv, WaitRefused PROVE IInv'
  BY Aborts DEF WaitRefused

LEMMA KeepAliveKeeps == ASSUME IInv, KeepAlive PROVE IInv'
<1>1. ConnInv' /\ link' = link /\ drops' = drops /\ after' = after
  BY ConnStays DEF IInv, KeepAlive, conn, data
<1>2. PhaseInv'
  BY <1>1 DEF IInv, KeepAlive, PhaseInv, PhaseOK
<1>3. EndInv'
  BY <1>2, NotEnded DEF KeepAlive
<1> QED
  BY <1>1, <1>2, <1>3, Quietly DEF KeepAlive

LEMMA ExitKeeps == ASSUME IInv, Exit PROVE IInv'
<1>1. ConnInv' /\ drops' = drops /\ after' = after /\ UNCHANGED <<job, exitBy, subs, given>>
  BY ConnStays DEF IInv, Exit, conn, data
<1>2. PhaseInv'
  BY <1>1 DEF IInv, Exit, PhaseInv, PhaseOK
<1>3. EndInv'
  BY <1>1, EndStays DEF IInv
<1> QED
  BY <1>1, <1>2, <1>3, Quietly DEF Exit

\* The first subscription of a stream.
LEMMA SubscribedKeeps == ASSUME IInv, Subscribed PROVE IInv'
<1> DEFINE s == First
<1>1. s \in AllStreams /\ given[s] = 0 /\ current[s] = 0 /\ phase = "subscribe" /\ job.cmd # "wait"
  BY DEF First, AllStreams, Subscribed, IInv, ConnInv, PhaseInv
<1>2. PhaseInv /\ ConnInv /\ ConnOK
  BY DEF IInv, ConnInv
<1>3. /\ Open(s) /\ given' = [given EXCEPT ![s] = Opened] /\ current' = [current EXCEPT ![s] = Opened]
      /\ UNCHANGED <<job, exitBy, link, drops, loops, recent, crossed, gaveUp, deaf, data>>
      /\ phase' \in {"subscribe", "streaming"}
  BY DEF Subscribed
<1> HIDE DEF s
<1>4. /\ subs' \in Seq(Subscribed1) /\ Len(subs') = Opened /\ DOMAIN subs' = DOMAIN subs \cup {Opened}
      /\ Opened \in Nat \ {0} /\ Opened \notin DOMAIN subs /\ DOMAIN subs = 1..Len(subs)
      /\ subs'[Opened] = [stream |-> s, state |-> "live"]
      /\ \A i \in DOMAIN subs : subs'[i] = subs[i]
  BY <1>1, <1>2, <1>3, OpenIs
<1>5. Opened = Len(subs) + 1 /\ Len(subs) \in Nat
  BY <1>2, SubsAre DEF Opened
<1>6. Handled \subseteq Handled'
  BY <1>1, <1>2, <1>3, <1>4 DEF Handled, Streams, AllStreams, ConnOK
<1>7. s \notin Handled /\ s \notin crossed /\ Running(s) = {} /\ Asking(s) = {} /\ Held(s) = {}
  <2>1. s \notin Handled /\ s \notin crossed /\ Running(s) = {}
    BY <1>1, <1>2, StreamOf DEF ConnInv, ConnOK
  <2> QED
    BY <2>1, <1>1, <1>2, StreamOf DEF ConnInv, OneHeld
<1>8. ASSUME NEW t \in AllStreams, t \notin crossed'
      PROVE  OneHeld(t)'
  <2>1. Asking(t)' = Asking(t)
    BY <1>3 DEF Asking
  <2>2. OneHeld(t) /\ current[t] \in 0..Len(subs)
    BY <1>1, <1>2, <1>3, <1>8, StreamOf DEF ConnInv
  <2>3. CASE t = s
    <3>1. Held(t)' \subseteq {Opened} /\ current'[t] = Opened
      BY <1>1, <1>2, <1>3, <1>4, <1>7, <2>3 DEF Held, ConnOK
    <3> QED
      BY <3>1, <2>1, <1>7, <2>3 DEF OneHeld
  <2>4. CASE t # s
    <3>1. Held(t)' = Held(t) /\ current'[t] = current[t]
      BY <1>1, <1>2, <1>3, <1>4, <2>4 DEF Held, ConnOK
    <3> QED
      BY <3>1, <2>1, <2>2 DEF OneHeld
  <2> QED
    BY <2>3, <2>4
<1>9. ConnOK'
  <2>1. given' \in [AllStreams -> 0..Len(subs')] /\ current' \in [AllStreams -> 0..Len(subs')]
    <3> DEFINE ids == 0..Len(subs')
    <3>1. 0..Len(subs) \subseteq ids /\ Opened \in ids
      BY <1>4, <1>5
    <3>2. given \in [AllStreams -> 0..Len(subs)] /\ current \in [AllStreams -> 0..Len(subs)]
      BY <1>2 DEF ConnOK
    <3> HIDE DEF ids
    <3>3. given \in [AllStreams -> ids] /\ current \in [AllStreams -> ids]
      BY <3>1, <3>2
    <3>4. given' \in [AllStreams -> ids] /\ current' \in [AllStreams -> ids]
      BY <3>1, <3>3, <1>3
    <3> QED
      BY <3>4 DEF ids
  <2>2. ASSUME NEW t \in AllStreams, current'[t] # 0
        PROVE  subs'[current'[t]].stream = t
    <3>1. CASE t = s
      BY <1>1, <1>2, <1>3, <1>4, <3>1 DEF ConnOK
    <3>2. CASE t # s
      <4>1. current'[t] = current[t] /\ current[t] \in DOMAIN subs
        BY <1>1, <1>2, <1>3, <1>4, <2>2, <3>2 DEF ConnOK
      <4> QED
        BY <4>1, <2>2, <1>2, <1>4 DEF ConnOK
    <3> QED
      BY <3>1, <3>2
  <2> QED
    BY <2>1, <2>2, <1>2, <1>3, <1>4, <1>6 DEF ConnOK
<1>10. \A t \in AllStreams : Running(t)' = Running(t)
  BY <1>3 DEF Running
<1>11. ConnInv'
  <2>1. \A t \in AllStreams : given'[t] = 0 => current'[t] = 0
    BY <1>1, <1>2, <1>3, <1>4 DEF ConnInv, ConnOK
  <2>2. drops = 0 => current' = given'
    BY <1>1, <1>2, <1>3 DEF ConnInv
  <2> QED
    BY <2>1, <2>2, <1>1, <1>2, <1>3, <1>6, <1>8, <1>9, <1>10 DEF ConnInv
<1>12. after' = after
  BY <1>3 DEF data
<1>13. PhaseInv'
  BY <1>1, <1>3, <1>12 DEF IInv, PhaseInv, PhaseOK
<1>14. EndInv'
  BY <1>3, <1>13, NotEnded
<1> QED
  BY <1>1, <1>3, <1>11, <1>13, <1>14, Quietly
-----------------------------------------------------------------------------
(* Losing and regaining the connection                                     *)

LEMMA DisconnectedKeeps == ASSUME IInv, Disconnected PROVE IInv'
<1> DEFINE new == [i \in DOMAIN subs |-> IF subs[i].state = "live"
                                         THEN [subs[i] EXCEPT !.state = "lost"] ELSE subs[i]]
<1>1. PhaseInv /\ ConnInv /\ ConnOK
  BY DEF IInv, ConnInv
<1>2. /\ new \in [DOMAIN subs -> Subscribed1]
      /\ \A i \in DOMAIN subs : /\ new[i].stream = subs[i].stream
                                /\ subs[i].state = "closed" => new[i].state = "closed"
  BY <1>1, SubsAre DEF Subscribed1
<1>3. subs' = new
  BY DEF Disconnected
<1> HIDE DEF new
<1>4. /\ UNCHANGED <<job, phase, exitBy, given, current, loops, recent, crossed, gaveUp, deaf, data>>
      /\ link' \in {"up", "down"} /\ drops' \in 0..job.drops /\ drops' # 0
      /\ phase \in {"subscribe", "streaming"}
  BY <1>1, JobIs DEF Disconnected, ConnOK
<1>5. ConnInv'
  BY <1>1, <1>2, <1>3, <1>4, FewerHeld
<1> QED
  BY <1>4, <1>5, Meanwhile

LEMMA DebouncePassesKeeps ==
  ASSUME IInv, NEW s \in AllStreams, DebouncePasses(s)
  PROVE  IInv'
<1>1. ConnInv /\ PhaseInv /\ job.drops \in Nat
  BY JobIs DEF IInv
<1>2. /\ UNCHANGED <<job, phase, exitBy, link, drops, subs, given, current, loops, crossed, gaveUp,
                     deaf, data>>
      /\ phase \in {"subscribe", "streaming"} /\ recent' = [recent EXCEPT ![s] = 0]
  BY DEF DebouncePasses
<1>3. Handled' = Handled
  BY <1>2 DEF Handled, Streams
<1>4. \A t \in AllStreams : Asking(t)' = Asking(t) /\ Running(t)' = Running(t) /\ Held(t)' = Held(t)
  BY <1>2 DEF Asking, Running, Held
<1>5. \A t \in AllStreams : OneHeld(t)' <=> OneHeld(t)
  BY <1>2, <1>4 DEF OneHeld
<1>6. recent' \in [AllStreams -> 0..job.drops]
  BY <1>1, <1>2 DEF ConnInv, ConnOK
<1>7. ConnInv'
  BY <1>1, <1>2, <1>3, <1>4, <1>5, <1>6 DEF ConnInv, ConnOK
<1> QED
  BY <1>2, <1>7, Meanwhile

\* A loop that runs has its handler, and the connection was lost before.
LEMMA LoopIs ==
  ASSUME IInv, NEW s \in AllStreams, NEW k \in 1..job.drops, loops[s][k].at # "idle"
  PROVE  /\ s \in Handled /\ job.cmd # "wait" /\ given[s] # 0 /\ drops # 0
         /\ loops[s] \in [1..job.drops -> Loop1] /\ loops[s][k] \in Loop1
<1>1. loops[s] \in [1..job.drops -> Loop1] /\ k \in Running(s)
  BY DEF IInv, ConnInv, ConnOK, Running
<1>2. s \in Handled /\ drops # 0
  BY <1>1 DEF IInv, ConnInv
<1> QED
  BY <1>1, <1>2, StreamOf DEF IInv

LEMMA ResubscribedKeeps ==
  ASSUME IInv, NEW s \in AllStreams, NEW k \in 1..job.drops, Resubscribed(s, k)
  PROVE  IInv'
<1>1. PhaseInv /\ ConnInv /\ ConnOK
  BY DEF IInv, ConnInv
<1>2. /\ phase \in {"subscribe", "streaming"} /\ loops[s][k].at = "asking" /\ Open(s)
      /\ current' = [current EXCEPT ![s] = Opened] /\ loops' = [loops EXCEPT ![s][k] = IdleLoop]
      /\ gaveUp' = gaveUp \ {s} /\ deaf' = deaf \ {s}
      /\ UNCHANGED <<job, phase, exitBy, link, drops, given, recent, crossed, data>>
  BY DEF Resubscribed
<1>3. /\ s \in Handled /\ job.cmd # "wait" /\ given[s] # 0 /\ drops # 0
      /\ loops[s] \in [1..job.drops -> Loop1]
  BY <1>2, LoopIs
<1>4. /\ subs' \in Seq(Subscribed1) /\ Len(subs') = Opened /\ DOMAIN subs' = DOMAIN subs \cup {Opened}
      /\ Opened \in Nat \ {0} /\ Opened \notin DOMAIN subs /\ DOMAIN subs = 1..Len(subs)
      /\ subs'[Opened] = [stream |-> s, state |-> "live"]
      /\ \A i \in DOMAIN subs : subs'[i] = subs[i]
  BY <1>1, <1>2, OpenIs
<1>5. Opened = Len(subs) + 1 /\ Len(subs) \in Nat
  BY <1>1, SubsAre DEF Opened
<1>6. Handled' = Handled
  BY <1>2 DEF Handled, Streams
<1>7. IdleLoop \in Loop1 /\ IdleLoop.at = "idle"
  BY DEF IdleLoop, Loop1, MaxTries
<1>8. /\ loops' \in [AllStreams -> [1..job.drops -> Loop1]]
      /\ \A t \in AllStreams : Running(t)' \subseteq Running(t) /\ Asking(t)' \subseteq Asking(t)
      /\ Asking(s)' = Asking(s) \ {k}
  BY <1>1, <1>2, <1>3, <1>7 DEF ConnOK, Running, Asking
<1>9. ASSUME NEW t \in AllStreams, t \notin crossed'
      PROVE  OneHeld(t)'
  <2>1. OneHeld(t) /\ current[t] \in 0..Len(subs)
    BY <1>1, <1>2, <1>3, <1>9, StreamOf DEF ConnInv
  <2>2. CASE t = s
    <3>1. k \in Asking(s)
      BY <1>2, <1>3 DEF Asking
    <3>2. Held(s) = {} /\ Asking(s)' = {}
      BY <2>1, <2>2, <3>1, <1>8 DEF OneHeld
    <3>3. Held(s)' \subseteq {Opened} /\ current'[s] = Opened
      BY <1>1, <1>2, <1>4, <3>2 DEF Held, ConnOK
    <3> QED
      BY <2>2, <3>2, <3>3 DEF OneHeld
  <2>3. CASE t # s
    <3>1. Held(t)' = Held(t) /\ current'[t] = current[t]
      BY <1>1, <1>2, <1>4, <2>3 DEF Held, ConnOK
    <3> QED
      BY <2>1, <3>1, <1>8 DEF OneHeld
  <2> QED
    BY <2>2, <2>3
<1>10. ConnOK'
  <2>1. given' \in [AllStreams -> 0..Len(subs')] /\ current' \in [AllStreams -> 0..Len(subs')]
    <3> DEFINE ids == 0..Len(subs')
    <3>1. 0..Len(subs) \subseteq ids /\ Opened \in ids
      BY <1>4, <1>5
    <3>2. given \in [AllStreams -> 0..Len(subs)] /\ current \in [AllStreams -> 0..Len(subs)]
      BY <1>1 DEF ConnOK
    <3> HIDE DEF ids
    <3>3. given \in [AllStreams -> ids] /\ current \in [AllStreams -> ids]
      BY <3>1, <3>2
    <3>4. given' \in [AllStreams -> ids] /\ current' \in [AllStreams -> ids]
      BY <3>1, <3>3, <1>2
    <3> QED
      BY <3>4 DEF ids
  <2>2. ASSUME NEW t \in AllStreams, current'[t] # 0
        PROVE  subs'[current'[t]].stream = t
    <3>1. CASE t = s
      BY <1>1, <1>2, <1>4, <3>1 DEF ConnOK
    <3>2. CASE t # s
      <4>1. current'[t] = current[t] /\ current[t] \in DOMAIN subs
        BY <1>1, <1>2, <1>4, <2>2, <3>2 DEF ConnOK
      <4> QED
        BY <4>1, <2>2, <1>1, <1>4 DEF ConnOK
    <3> QED
      BY <3>1, <3>2
  <2> QED
    BY <2>1, <2>2, <1>1, <1>2, <1>4, <1>6, <1>8 DEF ConnOK
<1>11. ConnInv'
  <2>1. \A t \in AllStreams : given'[t] = 0 => current'[t] = 0
    BY <1>1, <1>2, <1>3 DEF ConnInv, ConnOK
  <2> QED
    BY <2>1, <1>1, <1>2, <1>3, <1>6, <1>8, <1>9, <1>10 DEF ConnInv
<1> QED
  BY <1>2, <1>3, <1>11, Meanwhile

LEMMA ResubscribeFailsKeeps ==
  ASSUME IInv, NEW s \in AllStreams, NEW k \in 1..job.drops, ResubscribeFails(s, k)
  PROVE  IInv'
<1> DEFINE tries == loops[s][k].tries + 1
           next == NextTry(tries)
<1>1. PhaseInv /\ ConnInv /\ ConnOK
  BY DEF IInv, ConnInv
<1>2. /\ phase \in {"subscribe", "streaming"} /\ loops[s][k].at = "asking"
      /\ loops' = [loops EXCEPT ![s][k] = next] /\ gaveUp' \subseteq gaveUp \cup {s}
      /\ UNCHANGED <<job, phase, exitBy, link, drops, subs, given, current, recent, crossed, deaf, data>>
  BY DEF ResubscribeFails
<1>3. /\ s \in Handled /\ job.cmd # "wait" /\ drops # 0 /\ loops[s][k] \in Loop1
      /\ loops[s] \in [1..job.drops -> Loop1]
  BY <1>2, LoopIs
<1>4. next \in Loop1 /\ next.at \in {"idle", "waiting"}
  <2>1. tries \in 1..MaxTries
    BY <1>3 DEF Loop1, MaxTries
  <2> HIDE DEF tries
  <2> QED
    BY <2>1 DEF NextTry, RetriesLeft, IdleLoop, Loop1, MaxTries
<1> HIDE DEF next
<1>5. Handled' = Handled
  BY <1>2 DEF Handled, Streams
<1>6. /\ loops' \in [AllStreams -> [1..job.drops -> Loop1]]
      /\ \A t \in AllStreams : /\ Asking(t)' \subseteq Asking(t) /\ Held(t)' = Held(t)
                               /\ t # s => Running(t)' = Running(t)
  BY <1>1, <1>2, <1>3, <1>4 DEF ConnOK, Running, Asking, Held
<1>7. \A t \in AllStreams : OneHeld(t) => OneHeld(t)'
  BY <1>2, <1>6 DEF OneHeld
<1>8. ConnOK'
  BY <1>1, <1>2, <1>3, <1>5, <1>6 DEF ConnOK
<1>9. ConnInv'
  BY <1>1, <1>2, <1>3, <1>5, <1>6, <1>7, <1>8 DEF ConnInv
<1> QED
  BY <1>2, <1>9, Meanwhile

\* The timer of a loop: what is current by now is closed before the next attempt.
LEMMA RetryKeeps ==
  ASSUME IInv, NEW s \in AllStreams, NEW k \in 1..job.drops, Retry(s, k)
  PROVE  IInv'
<1> DEFINE new == Closed(Superseded(s))
<1>1. PhaseInv /\ ConnInv /\ ConnOK
  BY DEF IInv, ConnInv
<1>2. /\ phase \in {"subscribe", "streaming"} /\ loops[s][k].at = "waiting" /\ subs' = new
      /\ loops' = [loops EXCEPT ![s][k].at = "asking"]
      /\ crossed' = IF Asking(s) # {} THEN crossed \cup {s} ELSE crossed
      /\ UNCHANGED <<job, phase, exitBy, link, drops, given, current, recent, gaveUp, deaf, data>>
  BY DEF Retry
<1>3. /\ s \in Handled /\ job.cmd # "wait" /\ drops # 0 /\ loops[s][k] \in Loop1
      /\ loops[s] \in [1..job.drops -> Loop1]
  BY <1>2, LoopIs
<1>4. /\ new \in [DOMAIN subs -> Subscribed1]
      /\ \A i \in DOMAIN subs : /\ new[i].stream = subs[i].stream
                                /\ new[i].state = IF i = current[s] THEN "closed" ELSE subs[i].state
  BY <1>1, ClosedIs DEF Superseded
<1> HIDE DEF new
<1>5. /\ subs' \in Seq(Subscribed1) /\ Len(subs') = Len(subs) /\ DOMAIN subs' = DOMAIN subs
      /\ DOMAIN subs = 1..Len(subs) /\ Len(subs) \in Nat
  BY <1>1, <1>2, <1>4, Restated, SubsAre
<1>6. Handled' = Handled
  BY <1>2 DEF Handled, Streams
<1>7. /\ loops' \in [AllStreams -> [1..job.drops -> Loop1]]
      /\ \A t \in AllStreams : t # s => Running(t)' = Running(t) /\ Asking(t)' = Asking(t)
      /\ Asking(s)' = Asking(s) \cup {k}
  <2>1. [loops[s][k] EXCEPT !.at = "asking"] \in Loop1
    BY <1>3 DEF Loop1
  <2>2. [loops[s][k] EXCEPT !.at = "asking"].at = "asking"
    BY <1>3 DEF Loop1
  <2> DEFINE loop == [loops[s][k] EXCEPT !.at = "asking"]
  <2>3. loops' = [loops EXCEPT ![s][k] = loop]
    BY <1>2
  <2> HIDE DEF loop
  <2> QED
    BY <1>1, <1>3, <2>1, <2>2, <2>3 DEF ConnOK, Running, Asking, loop
<1>8. /\ \A t \in AllStreams : Held(t)' \subseteq Held(t)
      /\ Held(s)' \subseteq Held(s) \ {current[s]}
  BY <1>2, <1>4, <1>5 DEF Held
<1>9. ASSUME NEW t \in AllStreams, t \notin crossed'
      PROVE  OneHeld(t)'
  <2>1. OneHeld(t) /\ current'[t] = current[t]
    BY <1>1, <1>2, <1>3, <1>9 DEF ConnInv
  <2>2. CASE t = s
    <3>1. Asking(s) = {}
      BY <1>2, <1>9, <2>2
    <3>2. Held(s)' = {} /\ Asking(s)' = {k}
      BY <1>7, <1>8, <2>1, <2>2, <3>1 DEF OneHeld
    <3> QED
      BY <2>2, <3>2 DEF OneHeld
  <2>3. CASE t # s
    BY <1>7, <1>8, <2>1, <2>3 DEF OneHeld
  <2> QED
    BY <2>2, <2>3
<1>10. ConnOK'
  <2>1. \A t \in AllStreams : current[t] # 0 => current[t] \in DOMAIN subs
    BY <1>1, <1>5 DEF ConnOK
  <2>2. crossed' \subseteq Handled
    BY <1>1, <1>2, <1>3 DEF ConnOK
  <2> QED
    BY <2>1, <2>2, <1>1, <1>2, <1>4, <1>5, <1>6, <1>7 DEF ConnOK
<1>11. ConnInv'
  BY <1>1, <1>2, <1>3, <1>6, <1>7, <1>9, <1>10 DEF ConnInv
<1> QED
  BY <1>2, <1>3, <1>11, Meanwhile

\* The connection is back: each stream outside its debounce window starts a loop.
LEMMA ReconnectedKeeps == ASSUME IInv, Reconnected PROVE IInv'
<1> DEFINE starting == {s \in Handled : recent[s] = 0}
           closing == UNION {Superseded(s) : s \in starting}
           New(restored) ==
             [i \in DOMAIN subs |->
                CASE i \in closing -> [subs[i] EXCEPT !.state = "closed"]
                  [] i \notin closing /\ restored /\ subs[i].state = "lost" ->
                       [subs[i] EXCEPT !.state = "live"]
                  [] OTHER -> subs[i]]
<1>1. PhaseInv /\ ConnInv /\ ConnOK /\ job.drops \in Nat
  BY JobIs DEF IInv, ConnInv
<1>2. PICK restored \in BOOLEAN :
        /\ subs' = New(restored)
        /\ loops' = [s \in AllStreams |->
                       IF s \in starting
                       THEN [loops[s] EXCEPT ![drops] = [at |-> "asking", tries |-> 0]]
                       ELSE loops[s]]
        /\ recent' = [s \in AllStreams |-> IF s \in starting THEN drops ELSE recent[s]]
        /\ crossed' = crossed \cup {s \in starting : Asking(s) # {}}
        /\ deaf' = (deaf \ starting)
                     \cup {s \in Handled \ starting : Running(s) = {} /\ ~restored}
        /\ gaveUp' = gaveUp \ starting
  BY DEF Reconnected
<1>3. /\ link = "down" /\ link' = "up" /\ phase \in {"subscribe", "streaming"}
      /\ UNCHANGED <<job, phase, exitBy, drops, given, current, data>>
  BY DEF Reconnected
<1>4. drops \in 1..job.drops /\ drops # 0
  BY <1>1, <1>3 DEF PhaseInv, ConnOK
<1> DEFINE new == New(restored)
<1>5. \A i \in DOMAIN subs : i \in closing <=> \E s \in starting : i = current[s]
  BY DEF Superseded
<1> HIDE DEF closing
<1>6. /\ new \in [DOMAIN subs -> Subscribed1]
      /\ \A i \in DOMAIN subs : /\ new[i].stream = subs[i].stream
                                /\ subs[i].state = "closed" => new[i].state = "closed"
                                /\ i \in closing => new[i].state = "closed"
  <2>1. \A i \in DOMAIN subs : subs[i] \in Subscribed1
    BY <1>1, SubsAre
  <2> SUFFICES ASSUME NEW i \in DOMAIN subs
               PROVE  /\ new[i] \in Subscribed1 /\ new[i].stream = subs[i].stream
                      /\ subs[i].state = "closed" => new[i].state = "closed"
                      /\ i \in closing => new[i].state = "closed"
    OBVIOUS
  <2>2. CASE i \in closing
    <3>1. new[i] = [subs[i] EXCEPT !.state = "closed"]
      BY <2>2
    <3> HIDE DEF new
    <3> QED
      BY <2>1, <2>2, <3>1 DEF Subscribed1
  <2>3. CASE i \notin closing
    <3>1. \/ new[i] = [subs[i] EXCEPT !.state = "live"] /\ subs[i].state = "lost"
          \/ new[i] = subs[i]
      BY <2>3
    <3> HIDE DEF new
    <3> QED
      BY <2>1, <2>3, <3>1 DEF Subscribed1
  <2> QED
    BY <2>2, <2>3
<1>7. subs' = new
  BY <1>2
<1> HIDE DEF New, new
<1>8. /\ subs' \in Seq(Subscribed1) /\ Len(subs') = Len(subs) /\ DOMAIN subs' = DOMAIN subs
      /\ DOMAIN subs = 1..Len(subs) /\ Len(subs) \in Nat
  BY <1>1, <1>6, <1>7, Restated, SubsAre
<1>9. Handled' = Handled /\ starting \subseteq Handled /\ Handled \subseteq AllStreams
  BY <1>3 DEF Handled, Streams, AllStreams
<1>10. \A s \in starting : s \in AllStreams /\ job.cmd # "wait"
  BY <1>1, <1>9, StreamOf
<1> HIDE DEF starting
<1>11. /\ loops' \in [AllStreams -> [1..job.drops -> Loop1]]
       /\ \A s \in starting : Asking(s)' = Asking(s) \cup {drops}
       /\ \A s \in AllStreams \ starting : Asking(s)' = Asking(s) /\ Running(s)' = Running(s)
  <2> DEFINE loop == [at |-> "asking", tries |-> 0]
  <2>1. loop \in Loop1 /\ loop.at = "asking"
    BY DEF Loop1, MaxTries
  <2> HIDE DEF loop
  <2>2. loops' = [s \in AllStreams |-> IF s \in starting THEN [loops[s] EXCEPT ![drops] = loop] ELSE loops[s]]
    BY <1>2 DEF loop
  <2> QED
    BY <1>1, <1>4, <1>10, <2>1, <2>2 DEF ConnOK, Running, Asking
<1>12. /\ \A s \in AllStreams : Held(s)' \subseteq Held(s)
       /\ \A s \in starting : Held(s)' \subseteq Held(s) \ {current[s]}
  BY <1>5, <1>6, <1>7, <1>8, <1>10 DEF Held
<1>13. ASSUME NEW s \in AllStreams, s \notin crossed', job.cmd # "wait"
       PROVE  OneHeld(s)'
  <2>1. OneHeld(s) /\ current'[s] = current[s]
    BY <1>1, <1>2, <1>3, <1>13 DEF ConnInv
  <2>2. CASE s \in starting
    <3>1. Asking(s) = {}
      BY <1>2, <1>13, <2>2
    <3>2. Held(s)' = {} /\ Asking(s)' = {drops}
      BY <1>11, <1>12, <2>1, <2>2, <3>1 DEF OneHeld
    <3> QED
      BY <3>2 DEF OneHeld
  <2>3. CASE s \notin starting
    BY <1>11, <1>12, <2>1, <2>3 DEF OneHeld
  <2> QED
    BY <2>2, <2>3
<1>14. ConnOK'
  <2>1. \A t \in AllStreams : current[t] # 0 => current[t] \in DOMAIN subs
    BY <1>1, <1>8 DEF ConnOK
  <2>2. crossed' \cup gaveUp' \cup deaf' \subseteq Handled
    BY <1>1, <1>2, <1>9 DEF ConnOK
  <2>3. recent' \in [AllStreams -> 0..job.drops]
    BY <1>1, <1>2, <1>4 DEF ConnOK
  <2> QED
    BY <2>1, <2>2, <2>3, <1>1, <1>3, <1>6, <1>7, <1>8, <1>9, <1>11 DEF ConnOK
<1>15. ConnInv'
  BY <1>1, <1>3, <1>4, <1>6, <1>7, <1>8, <1>9, <1>11, <1>13, <1>14 DEF ConnInv
<1> QED
  BY <1>3, <1>4, <1>15, Meanwhile
-----------------------------------------------------------------------------
(* `wait`                                                                  *)

LEMMA WaitSubscribedKeeps == ASSUME IInv, WaitSubscribed PROVE IInv'
<1>1. PhaseInv /\ ConnInv /\ ConnOK
  BY DEF IInv, ConnInv
<1>2. /\ job.cmd = "wait" /\ phase = "streaming" /\ subs = <<>> /\ Open("main") /\ "main" \in AllStreams
      /\ UNCHANGED <<job, phase, exitBy, link, drops, given, current, loops, recent, crossed, gaveUp,
                     deaf, data>>
  BY DEF WaitSubscribed, AllStreams
<1>3. /\ subs' \in Seq(Subscribed1) /\ Len(subs') = Opened /\ DOMAIN subs' = DOMAIN subs \cup {Opened}
      /\ DOMAIN subs = 1..Len(subs) /\ subs'[Opened].stream = "main"
  <2> DEFINE s == "main"
  <2>1. s \in AllStreams /\ Open(s)
    BY <1>2
  <2> HIDE DEF s
  <2>2. /\ subs' \in Seq(Subscribed1) /\ Len(subs') = Opened /\ DOMAIN subs' = DOMAIN subs \cup {Opened}
        /\ DOMAIN subs = 1..Len(subs) /\ subs'[Opened] = [stream |-> s, state |-> "live"]
    BY <1>1, <2>1, OpenIs
  <2>3. subs'[Opened].stream = s
    BY <2>2
  <2> QED
    BY <2>2, <2>3 DEF s
<1>4. Len(subs) = 0 /\ Opened = 1 /\ DOMAIN subs = {}
  BY <1>2, <1>3 DEF Opened
<1>5. Handled' = Handled
  BY <1>2 DEF Handled, Streams
<1>6. \A t \in AllStreams : Asking(t)' = Asking(t) /\ Running(t)' = Running(t)
  BY <1>2 DEF Asking, Running
<1>7. \A t \in AllStreams : given[t] = 0 /\ current[t] = 0
  BY <1>1, <1>4 DEF ConnOK
<1>8. given' \in [AllStreams -> 0..Len(subs')] /\ current' \in [AllStreams -> 0..Len(subs')]
  <2>1. 0..Len(subs) \subseteq 0..Len(subs')
    BY <1>3, <1>4
  <2> QED
    BY <1>1, <1>2, <2>1 DEF ConnOK
<1>9. ConnOK'
  BY <1>1, <1>2, <1>3, <1>5, <1>7, <1>8 DEF ConnOK
<1>10. ConnInv'
  BY <1>1, <1>2, <1>3, <1>4, <1>5, <1>6, <1>9 DEF ConnInv
<1> QED
  BY <1>2, <1>10, Meanwhile

\* The unsubscribe function of `wait` arrives, before or after the promise has settled.
LEMMA WaitThenKeeps == ASSUME IInv, WaitThen PROVE IInv'
<1>1. PhaseInv /\ ConnInv /\ ConnOK
  BY DEF IInv, ConnInv
<1>2. /\ job.cmd = "wait" /\ phase \in {"streaming", "exiting"} /\ subs # <<>> /\ given["main"] = 0
      /\ given' = [given EXCEPT !["main"] = 1] /\ "main" \in AllStreams
      /\ subs' = IF phase = "exiting" THEN Closed({1}) ELSE subs
      /\ UNCHANGED <<job, phase, exitBy, link, drops, current, loops, recent, crossed, gaveUp, deaf, data>>
  BY DEF WaitThen, AllStreams
<1>3. subs \in Seq(Subscribed1) /\ Len(subs) = 1 /\ DOMAIN subs = {1}
  <2>1. subs \in Seq(Subscribed1) /\ Len(subs) <= 1 /\ DOMAIN subs = 1..Len(subs)
    BY <1>1, <1>2, SubsAre DEF ConnInv, ConnOK
  <2>2. Len(subs) \in Nat \ {0}
    BY <1>2, <2>1, EmptySeq
  <2> QED
    BY <2>1, <2>2
<1>4. /\ subs' \in Seq(Subscribed1) /\ Len(subs') = 1 /\ DOMAIN subs' = {1}
      /\ \A i \in DOMAIN subs : subs'[i].stream = subs[i].stream
      /\ phase = "exiting" => subs'[1].state = "closed"
  <2> DEFINE new == Closed({1})
  <2>1. new \in [DOMAIN subs -> Subscribed1] /\ new[1].state = "closed"
        /\ \A i \in DOMAIN subs : new[i].stream = subs[i].stream
    BY <1>1, <1>3, ClosedIs
  <2> HIDE DEF new
  <2>2. new \in Seq(Subscribed1) /\ Len(new) = Len(subs) /\ DOMAIN new = DOMAIN subs
    BY <1>1, <2>1, Restated
  <2>3. subs' = IF phase = "exiting" THEN new ELSE subs
    BY <1>2 DEF new
  <2> QED
    BY <1>3, <2>1, <2>2, <2>3
<1>5. Handled = {} /\ Handled' = {}
  BY <1>2 DEF Handled, Reconnecting
<1>6. \A t \in AllStreams : Asking(t)' = Asking(t) /\ Running(t)' = Running(t)
  BY <1>2 DEF Asking, Running
<1>7. given' \in [AllStreams -> 0..Len(subs')] /\ current' \in [AllStreams -> 0..Len(subs')]
  <2> DEFINE ids == 0..Len(subs')
  <2>1. ids = 0..Len(subs) /\ 1 \in ids
    BY <1>3, <1>4
  <2> HIDE DEF ids
  <2>2. given' \in [AllStreams -> ids] /\ current' \in [AllStreams -> ids]
    BY <1>1, <1>2, <2>1 DEF ConnOK
  <2> QED
    BY <2>2 DEF ids
<1>8. \A t \in AllStreams : current[t] # 0 => current[t] \in DOMAIN subs
  BY <1>1, <1>3 DEF ConnOK
<1>9. ConnOK'
  BY <1>1, <1>2, <1>4, <1>5, <1>7, <1>8 DEF ConnOK
<1>10. \A t \in AllStreams : given'[t] = 0 => given[t] = 0
  BY <1>1, <1>2 DEF ConnOK
<1>11. ConnInv'
  <2>1. Len(subs') <= 1 /\ \A i \in DOMAIN subs' : subs'[i].stream = "main"
    BY <1>1, <1>2, <1>3, <1>4 DEF ConnInv
  <2>2. \A t \in AllStreams : given'[t] = 0 => current'[t] = 0
    BY <1>1, <1>2, <1>10 DEF ConnInv
  <2>3. \A t \in AllStreams : Running(t)' # {} => t \in Handled'
    BY <1>1, <1>5, <1>6 DEF ConnInv
  <2> QED
    BY <2>1, <2>2, <2>3, <1>1, <1>2, <1>6, <1>9 DEF ConnInv
<1>12. PhaseInv'
  BY <1>1, <1>2, PhaseStays DEF data
<1>13. EndInv'
  <2>1. exitBy # "cleanup"
    BY <1>1, <1>2 DEF PhaseInv
  <2>2. exitBy = "reply" => phase = "exiting"
    BY <1>1, <1>2 DEF PhaseInv, PhaseOK
  <2>3. phase = "exiting" => Live("main")' = {}
    BY <1>4 DEF Live
  <2> QED
    BY <1>2, <2>1, <2>2, <2>3 DEF EndInv
<1> QED
  BY <1>2, <1>11, <1>12, <1>13, Quietly
-----------------------------------------------------------------------------
(* Endings that close what keepAlive, or wait, was given                   *)

LEMMA GivenClosed ==
  ASSUME PhaseInv, ConnInv, subs' = Closed(Given),
         UNCHANGED <<job, link, drops, given, current, loops, recent, crossed, gaveUp, deaf>>,
         exitBy' \in {"cleanup", "reply"}, exitBy' = "cleanup" => job.cmd # "wait",
         exitBy' = "reply" => job.cmd = "wait"
  PROVE  ConnInv' /\ EndInv'
<1> DEFINE new == Closed(Given)
<1>1. ConnOK
  BY DEF ConnInv
<1>2. /\ new \in [DOMAIN subs -> Subscribed1]
      /\ \A i \in DOMAIN subs : /\ new[i].stream = subs[i].stream
                                /\ new[i].state = IF i \in Given THEN "closed" ELSE subs[i].state
  BY <1>1, ClosedIs
<1>3. subs' = new
  OBVIOUS
<1> HIDE DEF new
<1>4. DOMAIN subs' = DOMAIN subs /\ DOMAIN subs = 1..Len(subs) /\ Len(subs) \in Nat
  BY <1>1, <1>2, <1>3, Restated, SubsAre
<1>5. ConnInv'
  <2>1. link' \in {"up", "down"} /\ drops' \in 0..job.drops
    BY <1>1 DEF ConnOK
  <2> QED
    BY <1>2, <1>3, <2>1, FewerHeld
<1>6. Given' = Given /\ Streams' = Streams /\ Streams \subseteq AllStreams
  BY DEF Given, Streams, AllStreams
<1>7. \A s \in AllStreams : Live(s)' \subseteq Held(s) \ Given
  BY <1>2, <1>3, <1>4 DEF Live, Held
<1>8. ASSUME job.cmd # "wait", drops = 0, NEW s \in Streams
      PROVE  Live(s)' = {}
  <2>1. Held(s) \subseteq {current[s]} /\ current[s] = given[s]
    BY <1>6, <1>8 DEF ConnInv, OneHeld
  <2>2. 0 \notin Held(s)
    BY <1>6, StreamOf
  <2>3. given[s] \in Given \cup {0}
    BY <1>8 DEF Given
  <2> QED
    BY <1>6, <1>7, <2>1, <2>2, <2>3
<1>9. ASSUME job.cmd = "wait", given["main"] # 0
      PROVE  Live("main")' = {}
  <2>1. "main" \in Streams /\ "main" \in AllStreams
    BY DEF Streams, AllStreams
  <2>2. given["main"] \in Given
    BY <1>9, <2>1 DEF Given
  <2>3. given["main"] \in 0..Len(subs) /\ Len(subs) <= 1
    BY <1>9, <2>1, <1>1 DEF ConnInv, ConnOK
  <2>4. DOMAIN subs \subseteq {given["main"]}
    BY <1>4, <1>9, <2>3
  <2>5. Held("main") \subseteq DOMAIN subs
    BY DEF Held
  <2> QED
    BY <1>7, <2>1, <2>2, <2>4, <2>5
<1>10. EndInv'
  BY <1>6, <1>7, <1>8, <1>9 DEF EndInv
<1> QED
  BY <1>5, <1>10

LEMMA CleanupKeeps == ASSUME IInv, Cleanup PROVE IInv'
<1>1. PhaseInv'
  BY Leaves DEF IInv, Cleanup
<1>2. ConnInv' /\ EndInv'
  BY GivenClosed DEF IInv, Cleanup, Leave
<1> QED
  BY <1>1, <1>2, Quietly DEF Cleanup, Leave

LEMMA TimeoutFiresKeeps == ASSUME IInv, TimeoutFires PROVE IInv'
<1>1. CASE Leave("abrupt") /\ subs' = subs
  <2>1. UNCHANGED <<job, conn, data>>
    BY <1>1 DEF TimeoutFires, conn
  <2> QED
    BY <1>1, <2>1, Aborts
<1>2. CASE job.cmd = "wait" /\ phase = "streaming" /\ Leave("reply") /\ subs' = Closed(Given)
  <2>1. UNCHANGED <<job, link, drops, given, current, loops, recent, crossed, gaveUp, deaf, data>>
    BY DEF TimeoutFires
  <2>2. PhaseInv'
    BY <1>2, <2>1, Leaves DEF IInv
  <2>3. ConnInv' /\ EndInv'
    BY <1>2, <2>1, GivenClosed DEF IInv, Leave
  <2> QED
    BY <1>2, <2>1, <2>2, <2>3, Quietly DEF Leave
<1> QED
  BY <1>1, <1>2 DEF TimeoutFires
-----------------------------------------------------------------------------
(* The store                                                               *)

LEMMA LatestOfTwo ==
  ASSUME NEW a \in Int, NEW b \in Int
  PROVE  Max({a, b}) \in Int /\ Max({a, b}) >= a /\ Max({a, b}) >= b
<1>1. \E x \in {a, b} : \A y \in {a, b} : x >= y
  OBVIOUS
<1> QED
  BY <1>1 DEF Max

LEMMA LatestOfThree ==
  ASSUME NEW a \in Int, NEW b \in Int, NEW c \in Int
  PROVE  LET m == Max({a, b, c}) IN m \in Int /\ m >= a /\ m >= b /\ m >= c
<1>1. \E x \in {a, b, c} : \A y \in {a, b, c} : x >= y
  <2>1. CASE a >= b /\ a >= c
    BY <2>1
  <2>2. CASE b >= a /\ b >= c
    BY <2>2
  <2>3. CASE c >= a /\ c >= b
    BY <2>3
  <2> QED
    BY <2>1, <2>2, <2>3
<1> QED
  BY <1>1 DEF Max

\* A prune spares what is no older than its cutoff.
LEMMA Pruned ==
  ASSUME DataInv, UNCHANGED <<seen, after, now, printed, captured>>, store' \in {"off", "open"},
         rows' \subseteq rows, cut' \in Int, cut' >= cut,
         \A row \in rows : row.created_at >= cut' => row \in rows'
  PROVE  DataInv'
<1>1. DataOK'
  BY DEF DataInv, DataOK
<1>2. \A c \in captured : c.created_at \in Int
  BY DEF DataInv
<1>3. \A c \in captured' : c.created_at >= cut' => c \in rows'
  BY <1>2 DEF DataInv
<1> QED
  BY <1>1, <1>3 DEF DataInv

LEMMA ConnectedKeeps == ASSUME IInv, Connected PROVE IInv'
<1>1. PhaseInv /\ ConnInv /\ DataInv
  BY DEF IInv
<1>2. /\ phase = "connect" /\ phase' = IF job.cmd = "wait" THEN "streaming" ELSE "subscribe"
      /\ link' = "up"
      /\ UNCHANGED <<job, exitBy, drops, subs, given, current, loops, recent, crossed, gaveUp, deaf,
                     seen, after, now, printed, captured>>
  BY DEF Connected
<1>3. PhaseInv'
  BY <1>1, <1>2 DEF PhaseInv, PhaseOK
<1>4. ConnInv'
  <2>1. Handled' = Handled
    BY <1>2 DEF Handled, Streams
  <2>2. \A t \in AllStreams : Asking(t)' = Asking(t) /\ Running(t)' = Running(t) /\ Held(t)' = Held(t)
    BY <1>2 DEF Asking, Running, Held
  <2>3. \A t \in AllStreams : OneHeld(t)' <=> OneHeld(t)
    BY <1>2, <2>2 DEF OneHeld
  <2> QED
    BY <1>1, <1>2, <2>1, <2>2, <2>3 DEF ConnInv, ConnOK
<1>5. EndInv'
  BY <1>2, <1>3, NotEnded
<1>6. DataInv'
  <2>1. now \in Nat /\ PruneAge \in Nat /\ cut \in Int /\ store' \in {"off", "open"}
    BY <1>1, SubscriptionConstants DEF DataInv, DataOK, Connected
  <2>2. CASE UNCHANGED <<rows, cut>>
    BY <1>1, <1>2, <2>1, <2>2, Pruned
  <2>3. CASE rows' = pruneEvents(rows, now, PruneAge) /\ cut' = Max({cut, now - PruneAge})
    <3>1. cut' \in Int /\ cut' >= cut /\ cut' >= now - PruneAge
      BY <2>1, <2>3, LatestOfTwo
    <3>2. \A row \in rows : row.created_at \in Int
      BY <1>1 DEF DataInv, DataOK
    <3>3. rows' \subseteq rows /\ \A row \in rows : row.created_at >= cut' => row \in rows'
      BY <2>1, <2>3, <3>1, <3>2 DEF pruneEvents
    <3> QED
      BY <1>1, <1>2, <2>1, <3>1, <3>3, Pruned
  <2> QED
    BY <2>2, <2>3 DEF Connected
<1>7. CountKept'
  BY <1>1, <1>2 DEF CountKept, PhaseInv
<1> QED
  BY <1>3, <1>4, <1>5, <1>6, <1>7 DEF IInv

LEMMA PruneElsewhereKeeps ==
  ASSUME IInv, NEW age \in PruneAges, PruneElsewhere(age)
  PROVE  IInv'
<1>1. /\ UNCHANGED <<job, phase, exitBy, conn, seen, after, store, now, printed, captured>>
      /\ rows' = pruneEvents(pruneEvents(rows, now, PruneAge), now, age)
      /\ cut' = Max({cut, now - PruneAge, now - age})
  BY DEF PruneElsewhere
<1>2. now \in Nat /\ PruneAge \in Nat /\ age \in Nat /\ cut \in Int
  BY SubscriptionConstants DEF IInv, DataInv, DataOK
<1>3. cut' \in Int /\ cut' >= cut /\ cut' >= now - PruneAge /\ cut' >= now - age
  <2> DEFINE b == now - PruneAge
             c == now - age
  <2>1. b \in Int /\ c \in Int
    BY <1>2
  <2> HIDE DEF b, c
  <2>2. LET m == Max({cut, b, c}) IN m \in Int /\ m >= cut /\ m >= b /\ m >= c
    BY <1>2, <2>1, LatestOfThree
  <2> QED
    BY <1>1, <2>2 DEF b, c
<1>4. \A row \in rows : row.created_at \in Int
  BY DEF IInv, DataInv, DataOK
<1>5. rows' \subseteq rows /\ \A row \in rows : row.created_at >= cut' => row \in rows'
  BY <1>1, <1>2, <1>3, <1>4 DEF pruneEvents
<1>6. DataInv'
  BY <1>1, <1>3, <1>5, Pruned DEF IInv, DataInv, DataOK
<1>7. ConnInv' /\ UNCHANGED <<subs, given, drops, link>>
  BY <1>1, ConnStays DEF IInv, conn
<1>8. PhaseInv' /\ EndInv'
  BY <1>1, <1>7, PhaseStays, EndStays DEF IInv
<1>9. CountKept'
  BY <1>1 DEF IInv, CountKept
<1> QED
  BY <1>6, <1>7, <1>8, <1>9 DEF IInv

LEMMA TickKeeps == ASSUME IInv, Tick PROVE IInv'
<1>1. /\ UNCHANGED <<job, phase, exitBy, conn, seen, after, store, rows, printed, captured, cut>>
      /\ now' = now + 1 /\ now < MaxNow
  BY DEF Tick
<1>2. now \in 0..MaxNow /\ MaxNow \in Nat /\ DataInv
  BY SubscriptionConstants DEF IInv, DataInv, DataOK
<1>3. now' \in 0..MaxNow /\ 0..now \subseteq 0..now'
  BY <1>1, <1>2
<1>4. DataInv'
  BY <1>1, <1>2, <1>3 DEF DataInv, DataOK
<1>5. ConnInv' /\ UNCHANGED <<subs, given, drops, link>>
  BY <1>1, ConnStays DEF IInv, conn
<1>6. PhaseInv' /\ EndInv'
  BY <1>1, <1>5, PhaseStays, EndStays DEF IInv
<1>7. CountKept'
  BY <1>1 DEF IInv, CountKept
<1> QED
  BY <1>4, <1>5, <1>6, <1>7 DEF IInv
-----------------------------------------------------------------------------
(* A notification                                                          *)

LEMMA BatchIs ==
  ASSUME NEW s, NEW batch \in Batches
  PROVE  Passing(s, batch) \in {<<>>, batch} /\ Len(Passing(s, batch)) \in Nat
         /\ (Passing(s, batch) = <<>> => Len(Passing(s, batch)) = 0)
<1>1. Len(batch) \in Nat
  <2>1. CASE batch \in {<<e>> : e \in Event}
    BY <2>1
  <2>2. CASE batch \in {<<e, f>> : e, f \in {x \in Event : x.own}}
    BY <2>2
  <2> QED
    BY <2>1, <2>2 DEF Batches
<1>2. Passing(s, batch) = <<>> \/ Passing(s, batch) = batch
  BY DEF Passing
<1> QED
  BY <1>1, <1>2

\* What is captured is numbered after all that was captured before.
LEMMA CapturedKeeps ==
  ASSUME DataInv, NEW n \in Nat, NEW new, printed + n <= MaxPrinted,
         \A r \in new : r.n \in printed + 1..printed + n /\ r.created_at = now,
         \A q, r \in new : q.n = r.n => q = r,
         printed' = printed + n, rows' = rows \cup new, captured' = captured \cup new,
         NEW d \in 0..n, seen' = seen + d, after' \in {after, after + d},
         UNCHANGED <<store, now, cut>>
  PROVE  DataInv'
<1>1. /\ seen \in Nat /\ printed \in Nat /\ seen <= printed /\ after \in Nat /\ after <= seen
      /\ MaxPrinted \in Nat /\ now \in Nat
  BY SubscriptionConstants DEF DataInv, DataOK
<1>2. DataOK'
  <2>1. printed' \in 0..MaxPrinted
    BY <1>1
  <2>2. seen' \in Nat /\ seen' <= printed'
    BY <1>1
  <2>3. after' \in Nat /\ after' <= seen'
    <3>1. d \in Nat
      BY <1>1
    <3>2. CASE after' = after
      BY <1>1, <3>1, <3>2
    <3>3. CASE after' = after + d
      BY <1>1, <3>1, <3>3
    <3> QED
      BY <3>2, <3>3
  <2>4. store' \in {"off", "open"} /\ rows' \subseteq captured' /\ now' \in 0..MaxNow
    BY DEF DataInv, DataOK
  <2> QED
    BY <2>1, <2>2, <2>3, <2>4 DEF DataOK
<1>3. \A c \in captured' : c.n \in 1..printed' /\ c.created_at \in 0..now'
  <2>1. \A c \in captured : c.n \in 1..printed /\ c.created_at \in 0..now
    BY DEF DataInv
  <2>2. 1..printed \subseteq 1..printed' /\ printed + 1..printed + n \subseteq 1..printed' /\ now \in 0..now
    BY <1>1
  <2> QED
    BY <2>1, <2>2
<1>4. \A c, e \in captured' : c.n = e.n => c = e
  <2>1. \A c \in captured, e \in new : c.n # e.n
    BY <1>1 DEF DataInv
  <2> QED
    BY <2>1 DEF DataInv
<1>5. \A c \in captured' : c.created_at >= cut' => c \in rows'
  BY DEF DataInv
<1> QED
  BY <1>2, <1>3, <1>4, <1>5 DEF DataInv

LEMMA StoredIs ==
  ASSUME NEW s, NEW e, NEW n
  PROVE  Stored(s, e, n).n = n /\ Stored(s, e, n).created_at = now
  BY DEF Stored, Row

LEMMA NotifyKeeps ==
  ASSUME IInv, NEW i \in DOMAIN subs, NEW batch \in Batches, NEW written \in BOOLEAN,
         Notify(i, batch, written)
  PROVE  IInv'
<1> DEFINE s == subs[i].stream
           hits == Passing(s, batch)
           n == Len(hits)
           total == seen + (IF Of(s).counted THEN Len(hits) ELSE 0)
           new == IF store = "open" /\ written
                  THEN {Stored(s, hits[j], printed + j) : j \in 1..Len(hits)} ELSE {}
           limit == phase = "streaming" /\ Of(s).counted /\ hits # <<>> /\ Reached(total)
           reply == job.cmd = "wait" /\ phase = "streaming" /\ hits # <<>>
           by == IF reply THEN "reply" ELSE "cleanup"
<1>1. PhaseInv /\ ConnInv /\ DataInv /\ EndInv /\ CountKept
  BY DEF IInv
<1>2. /\ phase \in {"subscribe", "streaming", "exiting"} /\ printed + n <= MaxPrinted
      /\ printed' = printed + n /\ rows' = rows \cup new /\ captured' = captured \cup new
      /\ seen' = total /\ after' = IF phase = "subscribe" THEN after ELSE after + (total - seen)
      /\ IF limit \/ reply THEN Leave(by) /\ subs' = Closed(Given) ELSE UNCHANGED <<phase, exitBy, subs>>
      /\ UNCHANGED <<job, link, drops, given, current, loops, recent, crossed, gaveUp, deaf, store, now, cut>>
  BY DEF Notify
<1>3. n \in Nat /\ (hits = <<>> => n = 0) /\ seen \in Nat /\ after \in Nat /\ printed \in Nat
  BY <1>1, BatchIs DEF DataInv, DataOK
<1>4. \A r \in new : \E j \in 1..n : r.n = printed + j /\ r.created_at = now /\ r = Stored(s, hits[j], printed + j)
  BY StoredIs
<1> HIDE DEF hits, new
<1>5. DataInv'
  <2>1. \A r \in new : r.n \in printed + 1..printed + n /\ r.created_at = now
    BY <1>3, <1>4
  <2>2. \A q, r \in new : q.n = r.n => q = r
    <3> SUFFICES ASSUME NEW q \in new, NEW r \in new, q.n = r.n
                 PROVE  q = r
      OBVIOUS
    <3>1. PICK j \in 1..n : q.n = printed + j /\ q = Stored(s, hits[j], printed + j)
      BY <1>4
    <3>2. PICK k \in 1..n : r.n = printed + k /\ r = Stored(s, hits[k], printed + k)
      BY <1>4
    <3>3. printed + j = printed + k
      BY <3>1, <3>2
    <3>4. j = k
      <4>1. j \in Nat /\ k \in Nat
        BY <1>3
      <4> QED
        BY <1>3, <3>3, <4>1
    <3> QED
      BY <3>1, <3>2, <3>4
  <2>3. PICK d \in 0..n : seen' = seen + d /\ after' \in {after, after + d}
    <3>1. CASE Of(s).counted
      BY <1>2, <1>3, <3>1
    <3>2. CASE ~Of(s).counted
      BY <1>2, <1>3, <3>2
    <3> QED
      BY <3>1, <3>2
  <2> QED
    BY <1>1, <1>2, <1>3, <2>1, <2>2, <2>3, CapturedKeeps
<1>6. limit \/ reply => phase = "streaming"
  OBVIOUS
<1>7. /\ limit /\ ~reply => job.cmd # "wait"
      /\ reply => job.cmd = "wait"
  OBVIOUS
<1>8. ~(limit \/ reply) => (phase = "streaming" /\ seen' # seen => ~Reached(total))
  BY <1>2, <1>3
<1>9. job.count \in Nat
  BY <1>1, JobIs
<1> HIDE DEF limit, reply
<1>10. CASE limit \/ reply
  <2>1. Leave(by) /\ subs' = Closed(Given) /\ by \in {"cleanup", "reply"}
    BY <1>2, <1>10
  <2>2. (by = "cleanup" => job.cmd # "wait") /\ (by = "reply" => job.cmd = "wait")
    BY <1>7, <1>10
  <2> HIDE DEF by
  <2>3. PhaseInv'
    BY <1>1, <1>2, <2>1, <2>2, Leaves
  <2>4. ConnInv' /\ EndInv'
    BY <1>1, <1>2, <2>1, <2>2, GivenClosed DEF Leave
  <2>5. CountKept'
    BY <2>1 DEF CountKept, Leave
  <2> QED
    BY <1>5, <2>3, <2>4, <2>5 DEF IInv
<1>11. CASE ~(limit \/ reply)
  <2>1. UNCHANGED <<phase, exitBy, subs>>
    BY <1>2, <1>11
  <2>2. ConnInv'
    BY <1>1, <1>2, <2>1, ConnStays DEF conn
  <2>3. phase # "connect" /\ (phase = "subscribe" => after' = after)
    BY <1>2
  <2>4. PhaseInv'
    BY <1>1, <1>2, <2>1, <2>3 DEF PhaseInv, PhaseOK
  <2>5. EndInv'
    BY <1>1, <1>2, <2>1, EndStays
  <2>6. CountKept'
    <3> SUFFICES ASSUME job.count > 0, seen' >= job.count, phase \in {"subscribe", "streaming"}
                 PROVE  after' = 0
      BY <1>2, <2>1 DEF CountKept
    <3>1. CASE phase = "subscribe"
      BY <1>1, <2>3, <3>1 DEF PhaseInv
    <3>2. CASE phase = "streaming" /\ seen' = seen
      BY <1>1, <1>2, <1>3, <3>2 DEF CountKept
    <3>3. CASE phase = "streaming" /\ seen' # seen
      BY <1>2, <1>8, <1>11, <3>3 DEF Reached
    <3> QED
      BY <3>1, <3>2, <3>3
  <2> QED
    BY <1>5, <2>2, <2>4, <2>5, <2>6 DEF IInv
<1> QED
  BY <1>10, <1>11
-----------------------------------------------------------------------------
LEMMA InitFits == Init => IInv
<1> SUFFICES ASSUME Init PROVE IInv
  OBVIOUS
<1>1. /\ job \in Jobs /\ phase = "connect" /\ exitBy = "none" /\ link = "down" /\ drops = 0 /\ subs = <<>>
      /\ given = [s \in AllStreams |-> 0] /\ current = given /\ recent = given
      /\ crossed = {} /\ gaveUp = {} /\ deaf = {} /\ after = 0 /\ seen = 0
  BY DEF Init
<1>2. PhaseInv
  BY <1>1 DEF PhaseInv, PhaseOK
<1>3. job.drops \in Nat
  BY <1>2, JobIs
<1>4. Len(subs) = 0 /\ DOMAIN subs = {} /\ subs \in Seq(Subscribed1)
  BY <1>1
<1>5. loops \in [AllStreams -> [1..job.drops -> Loop1]]
  <2>1. IdleLoop \in Loop1
    BY DEF IdleLoop, Loop1, MaxTries
  <2>2. loops = [s \in AllStreams |-> [k \in 1..job.drops |-> IdleLoop]]
    BY DEF Init
  <2> HIDE DEF IdleLoop
  <2> QED
    BY <2>1, <2>2
<1>6. \A s \in AllStreams : Running(s) = {} /\ Asking(s) = {} /\ Held(s) = {}
  <2>1. \A s \in AllStreams : \A k \in DOMAIN loops[s] : loops[s][k].at = "idle"
    BY DEF Init, IdleLoop
  <2> QED
    BY <1>4, <2>1 DEF Running, Asking, Held
<1>7. ConnOK
  BY <1>1, <1>3, <1>4, <1>5 DEF ConnOK
<1>8. ConnInv
  BY <1>1, <1>4, <1>6, <1>7 DEF ConnInv, OneHeld
<1>9. EndInv
  BY <1>1 DEF EndInv
<1>10. DataInv
  BY SubscriptionConstants DEF Init, DataInv, DataOK
<1>11. CountKept
  BY <1>1 DEF CountKept
<1> QED
  BY <1>2, <1>8, <1>9, <1>10, <1>11 DEF IInv

LEMMA LoopKeeps == ASSUME IInv, Loop PROVE IInv'
<1>1. PICK s \in AllStreams, k \in 1..job.drops : Answered(s, k) \/ Retry(s, k)
  BY DEF Loop
<1>2. CASE Resubscribed(s, k)
  BY <1>2, ResubscribedKeeps
<1>3. CASE ResubscribeFails(s, k)
  BY <1>3, ResubscribeFailsKeeps
<1>4. CASE Retry(s, k)
  BY <1>4, RetryKeeps
<1> QED
  BY <1>1, <1>2, <1>3, <1>4 DEF Answered

LEMMA NextKeeps == IInv /\ [Next]_vars => IInv'
<1> SUFFICES ASSUME IInv, [Next]_vars PROVE IInv'
  OBVIOUS
<1>1. CASE Starting
  BY <1>1, ConnectedKeeps, ConnectFailsKeeps, SubscribedKeeps, SubscribeFailsKeeps, KeepAliveKeeps
     DEF Starting
<1>2. CASE Disconnected
  BY <1>2, DisconnectedKeeps
<1>3. CASE Reconnected
  BY <1>3, ReconnectedKeeps
<1>4. ASSUME NEW s \in AllStreams, DebouncePasses(s)
      PROVE  IInv'
  BY <1>4, DebouncePassesKeeps
<1>5. CASE Loop
  BY <1>5, LoopKeeps
<1>6. CASE Notified
  BY <1>6, NotifyKeeps DEF Notified
<1>7. CASE WaitSubscribed \/ WaitThen \/ WaitRefused
  BY <1>7, WaitSubscribedKeeps, WaitThenKeeps, WaitRefusedKeeps
<1>8. CASE Cleanup \/ Interrupted \/ TimeoutFires \/ Exit
  BY <1>8, CleanupKeeps, InterruptedKeeps, TimeoutFiresKeeps, ExitKeeps
<1>9. ASSUME NEW age \in PruneAges, PruneElsewhere(age)
      PROVE  IInv'
  BY <1>9, PruneElsewhereKeeps
<1>10. CASE Tick
  BY <1>10, TickKeeps
<1>11. CASE Done \/ UNCHANGED vars
  <2>1. UNCHANGED <<job, phase, exitBy, conn, data>>
    BY <1>11 DEF Done, vars
  <2>2. ConnInv' /\ UNCHANGED <<subs, given, drops, link, after>>
    BY <2>1, ConnStays DEF IInv, conn, data
  <2>3. PhaseInv' /\ EndInv'
    BY <2>1, <2>2, PhaseStays, EndStays DEF IInv
  <2> QED
    BY <2>1, <2>2, <2>3, Quietly
<1> QED
  BY <1>1, <1>2, <1>3, <1>4, <1>5, <1>6, <1>7, <1>8, <1>9, <1>10, <1>11 DEF Next

LEMMA Invariance == Spec => []IInv
  BY InitFits, NextKeeps, PTL DEF Spec
-----------------------------------------------------------------------------
\* Every variable stays in its range, whatever the node, the timers and the other
\* processes do: a handle names a subscription of its stream.
THEOREM TypeCorrect == Spec => []TypeOK
<1>1. IInv => TypeOK
  BY TypesSplit DEF IInv, PhaseInv, ConnInv, DataInv
<1> QED
  BY <1>1, Invariance, PTL

\* `--count <n>` ends the command once n events have been counted after keepAlive.
THEOREM CountIsKept == Spec => []CountKept
<1>1. IInv => CountKept
  BY DEF IInv
<1> QED
  BY <1>1, Invariance, PTL

LEMMA AtMostOne ==
  ASSUME NEW S, NEW x, S \subseteq {x}
  PROVE  Cardinality(S) <= 1
<1>1. IsFiniteSet({x}) /\ Cardinality({x}) = 1
  BY FS_Singleton
<1> QED
  BY <1>1, FS_Subset

\* No stream is open twice unless two resubscription loops awaited subscribeFn at
\* once, and what an ending closes stays closed.
THEOREM NoneOpenTwice == Spec => []SubscriptionsClosed
<1>1. ASSUME IInv PROVE SubscriptionsClosed
  <2>1. PhaseInv /\ ConnInv /\ EndInv
    BY <1>1 DEF IInv
  <2>2. ASSUME NEW s \in AllStreams \ crossed
        PROVE  Cardinality(Live(s)) <= 1
    <3>1. Live(s) \subseteq Held(s) /\ Held(s) \subseteq DOMAIN subs
      BY <2>1, StreamOf
    <3>2. CASE job.cmd # "wait"
      <4>1. Live(s) \subseteq {current[s]}
        BY <2>1, <3>1, <3>2 DEF ConnInv, OneHeld
      <4> QED
        BY <4>1, AtMostOne
    <3>3. CASE job.cmd = "wait"
      <4>1. DOMAIN subs = 1..Len(subs) /\ Len(subs) \in Nat /\ Len(subs) <= 1
        BY <2>1, <3>3, SubsAre DEF ConnInv
      <4>2. Live(s) \subseteq {1}
        BY <3>1, <4>1
      <4> QED
        BY <4>2, AtMostOne
    <3> QED
      BY <3>2, <3>3
  <2> QED
    BY <2>1, <2>2 DEF EndInv, SubscriptionsClosed
<1> QED
  BY <1>1, Invariance, PTL

\* The rows are no more than the events printed.
LEMMA FewRows ==
  ASSUME DataInv, NEW S \in SUBSET captured
  PROVE  IsFiniteSet(S) /\ Cardinality(S) \in Nat /\ Cardinality(S) <= MaxPrinted
<1> DEFINE f == [c \in S |-> c.n]
<1>1. printed \in Nat /\ printed <= MaxPrinted /\ MaxPrinted \in Nat
  BY SubscriptionConstants DEF DataInv, DataOK
<1>2. f \in Injection(S, 1..printed)
  <2>1. \A c \in S : c.n \in 1..printed
    BY DEF DataInv
  <2>2. \A c, d \in S : c.n = d.n => c = d
    BY DEF DataInv
  <2> QED
    BY <2>1, <2>2 DEF Injection, IsInjective
<1>3. IsFiniteSet(1..printed) /\ Cardinality(1..printed) = printed
  BY <1>1, FS_Interval
<1> HIDE DEF f
<1>4. IsFiniteSet(S) /\ Cardinality(S) <= printed
  BY <1>2, <1>3, FS_Injection
<1> QED
  BY <1>1, <1>4, FS_CardinalityType

\* A limit that is not exceeded leaves out nothing.
LEMMA NewestOfFew ==
  ASSUME NEW S, NEW n \in Nat, Cardinality(S) \in Nat, Cardinality(S) <= n
  PROVE  S \in Newest(S, n)
  BY DEF Newest

\* The newest row of a set that has one is no older than any of the set.
LEMMA NewestOne ==
  ASSUME NEW S, IsFiniteSet(S), Cardinality(S) \in Nat, NEW c \in S, \A s \in S : s.created_at \in Int,
         NEW T \in Newest(S, 1)
  PROVE  \E r \in T : r \in S /\ r.created_at >= c.created_at
<1>1. T \subseteq S /\ Cardinality(T) = (IF 1 < Cardinality(S) THEN 1 ELSE Cardinality(S))
  BY DEF Newest
<1>2. Cardinality(S) # 0
  BY FS_EmptySet
<1>3. T # {}
  BY <1>1, <1>2, FS_EmptySet
<1>4. CASE c \in T
  BY <1>4
<1>5. CASE c \notin T
  BY <1>1, <1>3, <1>5 DEF Newest
<1> QED
  BY <1>4, <1>5

\* What was written is listed for its chain, and found by its id, until a prune with a
\* later cutoff.
THEOREM CapturedIsReadable == Spec => []CapturedReadable
<1>1. ASSUME IInv PROVE CapturedReadable
  <2>1. DataInv /\ rows \subseteq captured /\ MaxPrinted \in Nat
    BY <1>1, SubscriptionConstants DEF IInv, DataInv, DataOK
  <2> SUFFICES ASSUME NEW c \in captured, c.created_at >= cut
               PROVE  /\ \E T \in queryEvents(rows, c.chain, 0, MaxPrinted) : c \in T
                      /\ c.type = "mailbox" =>
                           \E T \in queryMailbox(rows, c.created_at, MaxPrinted) : c \in T
                      /\ c.event_id # "none" => \A T \in readEvent(rows, c.event_id) :
                           \E r \in T : r.event_id = c.event_id /\ r.created_at >= c.created_at
    BY DEF CapturedReadable
  <2>2. c \in rows /\ c.created_at \in Nat /\ \A r \in captured : r.created_at \in Int
    BY <2>1 DEF DataInv, DataOK
  <2>3. \E T \in queryEvents(rows, c.chain, 0, MaxPrinted) : c \in T
    <3> DEFINE S == {r \in rows : /\ r.created_at >= 0
                                  /\ \/ c.chain \in {"any", r.chain}
                                     \/ c.chain = "vara" /\ r.chain = "null"}
    <3>1. c \in S /\ S \in SUBSET captured
      BY <2>1, <2>2
    <3>2. queryEvents(rows, c.chain, 0, MaxPrinted) = Newest(S, MaxPrinted)
      BY DEF queryEvents
    <3> HIDE DEF S
    <3>3. S \in Newest(S, MaxPrinted)
      BY <2>1, <3>1, FewRows, NewestOfFew
    <3> QED
      BY <3>1, <3>2, <3>3
  <2>4. ASSUME c.type = "mailbox"
        PROVE  \E T \in queryMailbox(rows, c.created_at, MaxPrinted) : c \in T
    <3> DEFINE S == {r \in rows : r.type = "mailbox" /\ r.created_at >= c.created_at}
    <3>1. c \in S /\ S \in SUBSET captured
      BY <2>1, <2>2, <2>4
    <3>2. queryMailbox(rows, c.created_at, MaxPrinted) = Newest(S, MaxPrinted)
      BY DEF queryMailbox
    <3> HIDE DEF S
    <3>3. S \in Newest(S, MaxPrinted)
      BY <2>1, <3>1, FewRows, NewestOfFew
    <3> QED
      BY <3>1, <3>2, <3>3
  <2>5. ASSUME c.event_id # "none", NEW T \in readEvent(rows, c.event_id)
        PROVE  \E r \in T : r.event_id = c.event_id /\ r.created_at >= c.created_at
    <3> DEFINE S == {r \in rows : r.event_id = c.event_id /\ c.event_id # "none"}
    <3>1. c \in S /\ S \in SUBSET captured /\ \A r \in S : r.event_id = c.event_id
      BY <2>1, <2>2, <2>5
    <3>2. T \in Newest(S, 1)
      BY <2>5 DEF readEvent
    <3> HIDE DEF S
    <3>3. IsFiniteSet(S) /\ Cardinality(S) \in Nat
      BY <2>1, <3>1, FewRows
    <3>4. \A r \in S : r.created_at \in Int
      BY <2>2, <3>1
    <3> QED
      BY <3>1, <3>2, <3>3, <3>4, NewestOne
  <2> QED
    BY <2>3, <2>4, <2>5
<1> QED
  BY <1>1, Invariance, PTL
=============================================================================
