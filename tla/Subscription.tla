---------------------------- MODULE Subscription ----------------------------
(***************************************************************************)
(* One streaming command: `subscribe ...` on either chain, `watch`,        *)
(* `vara-eth:subscribe` and `wait`, from its connection to its exit, with  *)
(* the event store it fills and the other processes that prune the store.  *)
(*                                                                         *)
(* A subscription is a number given out by subscribeFn; the node (or the   *)
(* library) sends batches of events to the live ones.  `given` is the      *)
(* handle the command keeps for its exit, `current` the one withReconnect  *)
(* closes before it subscribes anew.  Every await is a step boundary.      *)
(* Time is what the code's timers tell apart: the debounce window, the     *)
(* retries that fall into it, and the age of a stored row.                 *)
(***************************************************************************)
EXTENDS EventStore, Sequences, FiniteSetsExt

CONSTANTS Jobs,        \* the command lines considered
          Messages,    \* event ids
          PruneAges,   \* --older-than values of other processes
          PruneAge,    \* DEFAULT_PRUNE_AGE_MS
          MaxDrops,    \* bound on the losses of the connection
          MaxNow,      \* bound on the clock
          MaxPrinted   \* bound on the events printed

\* RECONNECT_MAX_RETRIES
MaxTries == 3
RetriesLeftUpTo(tries) == tries <= MaxTries
RetriesLeft(tries) == tries < MaxTries

\* What a command's callback does with an event: filter it, store it under a
\* type and an id ("own": the event's; "same": the program's, of every event
\* alike; "none": null), count it.
Callback(type, id, filtered, counted) ==
    [type |-> type, id |-> id, filtered |-> filtered, counted |-> counted]

MailboxReceived == Callback("mailbox", "own", TRUE, TRUE)
MailboxRead == Callback("mailbox", "own", FALSE, FALSE)   \* of all accounts
BlockHeads == Callback("block", "own", FALSE, TRUE)
BalanceChanges == Callback("balance", "none", TRUE, TRUE)
Transfers == Callback("transfer", "none", TRUE, TRUE)
ProgramChanges == Callback("program", "same", TRUE, TRUE)
PalletEvents == Callback("message", "none", FALSE, TRUE)  \* of all programs
SailsEvents == Callback("message", "own", TRUE, TRUE)
UserMessages == Callback("message", "own", TRUE, TRUE)
VaraEthProgram == Callback("program", "own", TRUE, TRUE)
VaraEthRouter == Callback("router", "own", FALSE, TRUE)
VaraEthBlocks == Callback("block", "own", FALSE, TRUE)
WatchEvents == Callback("none", "none", TRUE, FALSE)
WaitReply == Callback("none", "none", TRUE, FALSE)

Callbacks ==
    [mailbox |-> MailboxReceived, blocks |-> BlockHeads, balance |-> BalanceChanges,
     transfers |-> Transfers, program |-> ProgramChanges, pallet |-> PalletEvents,
     sails |-> SailsEvents, messages |-> UserMessages, ethProgram |-> VaraEthProgram,
     ethRouter |-> VaraEthRouter, ethBlocks |-> VaraEthBlocks,
     signal |-> [VaraEthProgram EXCEPT !.counted = FALSE],
     watch |-> WatchEvents, wait |-> WaitReply]

VaraEth == {"ethProgram", "ethRouter", "ethBlocks", "signal"}
Reconnecting == DOMAIN Callbacks \ (VaraEth \cup {"watch", "wait"})

\* `drops` is how often the connection of this run is lost.
Job(cmd, count, timed, persist, light, drops) ==
    [cmd |-> cmd, count |-> count, timed |-> timed, persist |-> persist,
     light |-> light, drops |-> drops]

ASSUME SubscriptionConstants ==
    /\ PruneAge \in Nat /\ PruneAges \subseteq Nat
    /\ {MaxDrops, MaxNow, MaxPrinted} \subseteq Nat
    /\ Jobs \subseteq [cmd : DOMAIN Callbacks, count : Nat, timed : BOOLEAN, persist : BOOLEAN,
                       light : BOOLEAN, drops : 0..MaxDrops]

VARIABLES
    job, phase,    \* connect, subscribe, streaming, exiting, over
    exitBy,        \* how the command came to its end
    link, drops,   \* the connection, and its losses so far
    subs,          \* the subscriptions so far: [stream, state]
    given, current,\* stream -> subscription, 0 before the first
    loops,         \* stream -> reconnection -> resubscription loop
    recent,        \* stream -> the reconnection whose debounce window is open, or 0
    seen, after,   \* events counted; those counted since keepAlive
    store, rows, now,
    printed,       \* events printed
    \* History variables.
    crossed,       \* streams of which two loops have awaited subscribeFn at once
    gaveUp, deaf,  \* resubscribe_failed; a reconnection debounced with no loop left
    captured, cut  \* rows written; the latest cutoff of a prune

conn == <<link, drops, subs, given, current, loops, recent, crossed, gaveUp, deaf>>
data == <<seen, after, store, rows, now, printed, captured, cut>>
vars == <<job, phase, exitBy, conn, data>>

\* `subscribe mailbox` has a second stream, of the messages that are read.
Streams == IF job.cmd = "mailbox" THEN {"main", "read"} ELSE {"main"}
AllStreams == {"main", "read"}
Of(s) == IF s = "read" THEN MailboxRead ELSE Callbacks[job.cmd]
Live(s) == {i \in DOMAIN subs : subs[i].stream = s /\ subs[i].state = "live"}
IdleLoop == [at |-> "idle", tries |-> 0]
Running(s) == {k \in DOMAIN loops[s] : loops[s][k].at # "idle"}
Asking(s) == {k \in DOMAIN loops[s] : loops[s][k].at = "asking"}

Init ==
    /\ job \in Jobs
    /\ phase = "connect" /\ exitBy = "none" /\ link = "down" /\ drops = 0
    /\ subs = <<>>
    /\ given = [s \in AllStreams |-> 0] /\ current = given
    /\ loops = [s \in AllStreams |-> [k \in 1..job.drops |-> IdleLoop]]
    /\ recent = given /\ crossed = {} /\ gaveUp = {} /\ deaf = {}
    /\ seen = 0 /\ after = 0 /\ store = "off" /\ rows = {} /\ now = 0 /\ printed = 0
    /\ captured = {} /\ cut = 0

-----------------------------------------------------------------------------
(* Starting.                                                               *)

Leave(by) == phase' = "exiting" /\ exitBy' = by

\* getApi, then initEventStore: opening may fail altogether, and the start-up
\* prune may fail after the statements were prepared, which leaves inserts on.
Connected ==
    /\ phase = "connect"
    /\ phase' = IF job.cmd = "wait" THEN "streaming" ELSE "subscribe"
    /\ link' = "up"
    /\ \/ store' = "off" /\ UNCHANGED <<rows, cut>>
       \/ /\ job.persist
          /\ store' = "open"
          /\ \/ UNCHANGED <<rows, cut>>
             \/ rows' = pruneEvents(rows, now, PruneAge) /\ cut' = Max({cut, now - PruneAge})
    /\ UNCHANGED <<job, exitBy, drops, subs, given, current, loops, recent, crossed, gaveUp,
                   deaf, seen, after, now, printed, captured>>

ConnectFails ==
    /\ phase = "connect" /\ Leave("error")
    /\ UNCHANGED <<job, conn, data>>

\* The stream whose first subscribeFn is awaited.
First == IF job.cmd = "mailbox" /\ given["main"] # 0 THEN "read" ELSE "main"

Opened == Len(subs) + 1
Open(s) == subs' = Append(subs, [stream |-> s, state |-> "live"])
Closed(S) == [i \in DOMAIN subs |-> IF i \in S THEN [subs[i] EXCEPT !.state = "closed"] ELSE subs[i]]

\* withReconnect: the handle is both the current one and the one handed out.
\* The Vara.eth streams are opened without an await before keepAlive.
Subscribed ==
    /\ phase = "subscribe" /\ link = "up"
    /\ given[First] = 0
    /\ Open(First)
    /\ given' = [given EXCEPT ![First] = Opened]
    /\ current' = [current EXCEPT ![First] = Opened]
    /\ phase' = IF job.cmd \in VaraEth THEN "streaming" ELSE "subscribe"
    /\ UNCHANGED <<job, exitBy, link, drops, loops, recent, crossed, gaveUp, deaf, data>>

SubscribeFails ==
    /\ phase = "subscribe" /\ given[First] = 0
    /\ Leave("error")
    /\ UNCHANGED <<job, conn, data>>

\* `const ka = keepAlive(...)`, which the callbacks refer to.
KeepAlive ==
    /\ phase = "subscribe" /\ \A s \in Streams : given[s] # 0
    /\ phase' = "streaming"
    /\ UNCHANGED <<job, exitBy, conn, data>>

-----------------------------------------------------------------------------
(* Losing and regaining the connection.                                    *)

Disconnected ==
    /\ link = "up" /\ phase \in {"subscribe", "streaming"} /\ drops < job.drops
    /\ link' = "down" /\ drops' = drops + 1
    /\ subs' = [i \in DOMAIN subs |-> IF subs[i].state = "live"
                                      THEN [subs[i] EXCEPT !.state = "lost"] ELSE subs[i]]
    /\ UNCHANGED <<job, phase, exitBy, given, current, loops, recent, crossed, gaveUp, deaf, data>>

\* Streams whose `connected` handler is installed.
Handled == IF job.cmd \in Reconnecting /\ ~job.light
           THEN {s \in Streams : given[s] # 0} ELSE {}

\* What resubscribing closes first.
SupersededNone(s) == {}
Superseded(s) == {current[s]}

\* The library may or may not bring lost subscriptions back by itself.  Then
\* the `connected` handlers of all streams run: outside the debounce window
\* each closes the current subscription and awaits subscribeFn.

Reconnected ==
    /\ link = "down" /\ phase \in {"subscribe", "streaming"} /\ ~job.light
    /\ link' = "up"
    /\ \E restored \in BOOLEAN :
         LET starting == {s \in Handled : recent[s] = 0}
             closing == UNION {Superseded(s) : s \in starting}
         IN /\ subs' = [i \in DOMAIN subs |->
                          CASE i \in closing -> [subs[i] EXCEPT !.state = "closed"]
                            [] i \notin closing /\ restored /\ subs[i].state = "lost" ->
                                 [subs[i] EXCEPT !.state = "live"]
                            [] OTHER -> subs[i]]
            /\ loops' = [s \in AllStreams |->
                           IF s \in starting
                           THEN [loops[s] EXCEPT ![drops] = [at |-> "asking", tries |-> 0]]
                           ELSE loops[s]]
            /\ recent' = [s \in AllStreams |-> IF s \in starting THEN drops ELSE recent[s]]
            /\ crossed' = crossed \cup {s \in starting : Asking(s) # {}}
            /\ deaf' = (deaf \ starting)
                         \cup {s \in Handled \ starting : Running(s) = {} /\ ~restored}
            /\ gaveUp' = gaveUp \ starting
    /\ UNCHANGED <<job, phase, exitBy, drops, given, current, data>>

\* RECONNECT_DEBOUNCE_MS have passed.
DebouncePasses(s) ==
    /\ phase \in {"subscribe", "streaming"} /\ recent[s] # 0
    /\ recent' = [recent EXCEPT ![s] = 0]
    /\ UNCHANGED <<job, phase, exitBy, link, drops, subs, given, current, loops, crossed,
                   gaveUp, deaf, data>>

Resubscribed(s, k) ==
    /\ phase \in {"subscribe", "streaming"} /\ link = "up"
    /\ loops[s][k].at = "asking"
    /\ Open(s) /\ current' = [current EXCEPT ![s] = Opened]
    /\ loops' = [loops EXCEPT ![s][k] = IdleLoop]
    /\ gaveUp' = gaveUp \ {s} /\ deaf' = deaf \ {s}
    /\ UNCHANGED <<job, phase, exitBy, link, drops, given, recent, crossed, data>>

\* subscribeFn rejects: refused by the node, or lost with the connection.
NextTryNone(tries) == IdleLoop
NextTry(tries) == IF RetriesLeft(tries) THEN [at |-> "waiting", tries |-> tries] ELSE IdleLoop

ResubscribeFails(s, k) ==
    /\ phase \in {"subscribe", "streaming"}
    /\ loops[s][k].at = "asking"
    /\ LET tries == loops[s][k].tries + 1 IN
       /\ loops' = [loops EXCEPT ![s][k] = NextTry(tries)]
       /\ gaveUp' = IF RetriesLeft(tries) THEN gaveUp ELSE gaveUp \cup {s}
    /\ UNCHANGED <<job, phase, exitBy, link, drops, subs, given, current, recent, crossed, deaf, data>>

\* The retry timer: resubscribe starts over, with the current handle of now.
\* The third attempt comes 2 s and 4 s after failures, so never within the
\* five seconds after the event that started its loop.
Retry(s, k) ==
    /\ phase \in {"subscribe", "streaming"}
    /\ loops[s][k].at = "waiting"
    /\ loops[s][k].tries = 2 => recent[s] # k
    /\ subs' = Closed(Superseded(s))
    /\ loops' = [loops EXCEPT ![s][k].at = "asking"]
    /\ crossed' = IF Asking(s) # {} THEN crossed \cup {s} ELSE crossed
    /\ UNCHANGED <<job, phase, exitBy, link, drops, given, current, recent, gaveUp, deaf, data>>

-----------------------------------------------------------------------------
(* Events.                                                                 *)

\* An event of the stream: `own` if it passes the command's filter.
Event == [id : Messages, own : BOOLEAN]
Batches == {<<e>> : e \in Event} \cup {<<e, f>> : e, f \in {x \in Event : x.own}}

\* The filter: of one event, since only events that pass come in twos.
Passing(s, batch) ==
    IF Of(s).filtered /\ \E j \in DOMAIN batch : ~batch[j].own THEN <<>> ELSE batch

\* The increment of createEventCounter, for the n-th event counted.
ReachedPast(n) == job.count > 0 /\ n > job.count
Reached(n) == job.count > 0 /\ n >= job.count

Stored(s, e, n) ==
    Row(n, IF job.cmd \in VaraEth THEN "vara-eth" ELSE "vara", Of(s).type,
        IF Of(s).id = "own" THEN e.id ELSE Of(s).id,
        IF s = "read" THEN "mark" ELSE "message", now)

\* keepAlive's cleanup closes the handles it was given; wait closes its own,
\* if it has it yet.
Given == {given[s] : s \in Streams} \ {0}

\* One notification: the callback runs for every event of the batch, whatever
\* the earlier ones did; each is printed, then written (which may fail),
\* then counted.  Before keepAlive has returned, `ka` cannot be used: the
\* callback throws, safeCallback swallows it, and the limit goes unnoticed.
Notify(i, batch, written) ==
    LET s == subs[i].stream
        hits == Passing(s, batch)
        total == seen + (IF Of(s).counted THEN Len(hits) ELSE 0)
        new == IF store = "open" /\ written
               THEN {Stored(s, hits[j], printed + j) : j \in 1..Len(hits)} ELSE {}
        limit == phase = "streaming" /\ Of(s).counted /\ hits # <<>> /\ Reached(total)
        reply == job.cmd = "wait" /\ phase = "streaming" /\ hits # <<>>
    IN /\ link = "up" /\ phase \in {"subscribe", "streaming", "exiting"}
       /\ subs[i].state = "live"
       /\ printed + Len(hits) <= MaxPrinted
       /\ printed' = printed + Len(hits)
       /\ rows' = rows \cup new
       /\ captured' = captured \cup new
       /\ seen' = total
       /\ after' = IF phase = "subscribe" THEN after ELSE after + (total - seen)
       /\ IF limit \/ reply
          THEN Leave(IF reply THEN "reply" ELSE "cleanup") /\ subs' = Closed(Given)
          ELSE UNCHANGED <<phase, exitBy, subs>>
       /\ UNCHANGED <<job, link, drops, given, current, loops, recent, crossed, gaveUp, deaf,
                      store, now, cut>>

-----------------------------------------------------------------------------
(* `wait`: its promise, its timer and its subscription settle in any order. *)

WaitSubscribed ==
    /\ job.cmd = "wait" /\ phase = "streaming" /\ link = "up"
    /\ subs = <<>>
    /\ Open("main")
    /\ UNCHANGED <<job, phase, exitBy, link, drops, given, current, loops, recent, crossed,
                   gaveUp, deaf, data>>

\* .then((unsub) => { unsubscribe = unsub; if (settled) unsub(); })
WaitThen ==
    /\ job.cmd = "wait" /\ phase \in {"streaming", "exiting"}
    /\ subs # <<>> /\ given["main"] = 0
    /\ given' = [given EXCEPT !["main"] = 1]
    /\ subs' = IF phase = "exiting" THEN Closed({1}) ELSE subs
    /\ UNCHANGED <<job, phase, exitBy, link, drops, current, loops, recent, crossed, gaveUp,
                   deaf, data>>

WaitRefused ==
    /\ job.cmd = "wait" /\ phase = "streaming" /\ subs = <<>>
    /\ Leave("error")
    /\ UNCHANGED <<job, conn, data>>

-----------------------------------------------------------------------------
(* Endings.                                                                *)

\* keepAlive's handlers, and awaitSignalAnd's, which come before app.ts's.
Cleanup ==
    /\ phase = "streaming" /\ job.cmd # "wait"
    /\ Leave("cleanup")
    /\ subs' = Closed(Given)
    /\ UNCHANGED <<job, link, drops, given, current, loops, recent, crossed, gaveUp, deaf, data>>

\* app.ts's handlers: no subscription is closed, the connection is.
Interrupted ==
    /\ \/ phase \in {"connect", "subscribe"}
       \/ phase = "streaming" /\ job.cmd = "wait"
    /\ Leave("abrupt")
    /\ UNCHANGED <<job, conn, data>>

\* installGlobalTimeout, set before getApi; wait's timer, set after it.
TimeoutFires ==
    /\ job.timed
    /\ \/ /\ job.cmd \in (Reconnecting \cup VaraEth) \ {"signal"}
          /\ phase \in {"connect", "subscribe", "streaming"}
          /\ Leave("abrupt") /\ subs' = subs
       \/ /\ job.cmd = "wait" /\ phase = "streaming"
          /\ Leave("reply") /\ subs' = Closed(Given)
    /\ UNCHANGED <<job, link, drops, given, current, loops, recent, crossed, gaveUp, deaf, data>>

\* The promise resolves, main's finally disconnects, the output drains.
Exit ==
    /\ phase = "exiting"
    /\ phase' = "over"
    /\ UNCHANGED <<job, exitBy, conn, data>>

\* Any other process opens the store, which prunes it; `events prune` also
\* with the age it was given.
PruneElsewhere(age) ==
    /\ rows # {}
    /\ rows' = pruneEvents(pruneEvents(rows, now, PruneAge), now, age)
    /\ rows' # rows
    /\ cut' = Max({cut, now - PruneAge, now - age})
    /\ UNCHANGED <<job, phase, exitBy, conn, seen, after, store, now, printed, captured>>

Tick ==
    /\ store = "open" /\ now < MaxNow
    /\ now' = now + 1
    /\ UNCHANGED <<job, phase, exitBy, conn, seen, after, store, rows, printed, captured, cut>>

Done == phase = "over" /\ UNCHANGED vars

Starting == Connected \/ ConnectFails \/ Subscribed \/ SubscribeFails \/ KeepAlive
Answered(s, k) == Resubscribed(s, k) \/ ResubscribeFails(s, k)
Loop == \E s \in AllStreams, k \in 1..job.drops : Answered(s, k) \/ Retry(s, k)
Notified == \E i \in DOMAIN subs, b \in Batches, w \in BOOLEAN : Notify(i, b, w)

Next ==
    \/ Starting
    \/ Disconnected \/ Reconnected
    \/ \E s \in AllStreams : DebouncePasses(s)
    \/ Loop
    \/ Notified
    \/ WaitSubscribed \/ WaitThen \/ WaitRefused
    \/ Cleanup \/ Interrupted \/ TimeoutFires \/ Exit
    \/ \E age \in PruneAges : PruneElsewhere(age)
    \/ Tick
    \/ Done

\* Promises are answered one way or the other and timers fire; nobody has to
\* interrupt, and no event, disconnection or reconnection has to happen.
Fairness ==
    /\ WF_vars(Starting)
    /\ \A s \in AllStreams : WF_vars(DebouncePasses(s))
    /\ \A s \in AllStreams, k \in 1..MaxDrops :
         WF_vars(k <= job.drops /\ (Answered(s, k) \/ Retry(s, k)))
    /\ WF_vars(Exit)

Spec == Init /\ [][Next]_vars /\ Fairness

-----------------------------------------------------------------------------
TypeOK ==
    /\ job \in Jobs
    /\ phase \in {"connect", "subscribe", "streaming", "exiting", "over"}
    /\ exitBy \in {"none", "error", "cleanup", "reply", "abrupt"}
    /\ (exitBy = "none") <=> (phase \in {"connect", "subscribe", "streaming"})
    /\ link \in {"up", "down"} /\ drops \in 0..job.drops
    /\ subs \in Seq([stream : AllStreams, state : {"live", "lost", "closed"}])
    /\ given \in [AllStreams -> 0..Len(subs)] /\ current \in [AllStreams -> 0..Len(subs)]
    /\ \A s \in AllStreams : current[s] # 0 => subs[current[s]].stream = s
    /\ loops \in [AllStreams -> [1..job.drops -> [at : {"idle", "asking", "waiting"},
                                                  tries : 0..MaxTries - 1]]]
    /\ recent \in [AllStreams -> 0..job.drops] /\ crossed \cup gaveUp \cup deaf \subseteq Handled
    /\ seen \in 0..printed /\ after \in 0..seen /\ printed \in 0..MaxPrinted
    /\ store \in {"off", "open"} /\ rows \subseteq captured /\ now \in 0..MaxNow

\* `--count <n>` exits after n events: once n have been counted the command
\* is on its way out.  Only if the n-th came before keepAlive returned does
\* it live on, until the next event: whatever is delivered in between, in
\* batches, twice, or by a subscription that was replaced.
CountKept ==
    job.count > 0 /\ seen >= job.count => phase \in {"exiting", "over"} \/ after = 0

\* No stream is ever subscribed twice, except after two resubscription loops
\* have awaited subscribeFn at the same time; and a command that ends by its
\* own cleanup leaves open only what a resubscription opened.
SubscriptionsClosed ==
    /\ \A s \in AllStreams \ crossed : Cardinality(Live(s)) <= 1
    /\ exitBy = "cleanup" =>
         \A s \in Streams : Live(s) \cap Given = {} /\ (drops = 0 => Live(s) = {})
    /\ exitBy = "reply" /\ given["main"] # 0 => Live("main") = {}

\* What was written to the store can be read back and is listed for its
\* chain until some process prunes with a later cutoff.  `inbox read` answers
\* with an entry of that event that is no older: of a message, perhaps the mark
\* that it was read.
CapturedReadable ==
    \A c \in captured : c.created_at >= cut =>
        /\ \E T \in queryEvents(rows, c.chain, 0, MaxPrinted) : c \in T
        /\ c.type = "mailbox" => \E T \in queryMailbox(rows, c.created_at, MaxPrinted) : c \in T
        /\ c.event_id # "none" => \A T \in readEvent(rows, c.event_id) :
             \E r \in T : r.event_id = c.event_id /\ r.created_at >= c.created_at

\* A connection that comes back and stays brings the stream back, unless
\* resubscribing was given up (three failures) or the `connected` event
\* was debounced after the loop of the previous one had finished.
StreamResumes ==
    \A s \in AllStreams :
        (phase = "streaming" /\ link = "up" /\ s \in Handled /\ Live(s) = {})
          ~> (Live(s) # {} \/ link = "down" \/ phase # "streaming" \/ s \in gaveUp \cup deaf)
=============================================================================
