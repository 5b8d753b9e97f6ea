----------------------- MODULE VaraEthCommand_proofs -----------------------
(***************************************************************************)
(* Proofs about the commands of the Vara.eth rail, for any command line:   *)
(* in which order a plan takes its steps, and what that order makes true   *)
(* of sockets, of what is sent and of what is reported.                    *)
(***************************************************************************)
EXTENDS VaraEthCommand, SequenceTheorems, TLAPS

\* What comes before anything is sent, what sends, and what follows from it.
Preparing == Harmless \cup {"connect", "api"}
Sending == {"send", "inject", "exchange", "ceremony", "request"}
Awaiting == {"receipt", "mined", "waited"}
AllSteps == Preparing \cup Sending \cup Awaiting \cup {"programId", "init", "output"}

Phase == [s \in AllSteps |->
            CASE s \in Preparing -> 1 [] s \in Sending -> 2 [] s \in Awaiting -> 3
              [] s = "programId" -> 4 [] s = "init" -> 5 [] s = "output" -> 6]

\* In every plan: a step of one phase is not taken after one of a later phase, only
\* preparations and a session's requests repeat, the api is there before its users,
\* and a ceremony gives the program's address at once.
MayFollow(a, b) ==
  /\ Phase[a] <= Phase[b]
  /\ Phase[a] = Phase[b] => a \in Preparing \cup {"request"}
  /\ a \in ApiSteps \cup {"api"} => b # "api"
  /\ a = "connect" => b # "connect"
  /\ a = "ceremony" => b \in {"init", "output"}

Plans == Seq(AllSteps)
StepsOf(plan) == {plan[i] : i \in 1 .. Len(plan)}
Ordered(plan) == \A i, j \in 1 .. Len(plan) : i < j => MayFollow(plan[i], plan[j])

\* The types of what a command and its connection are.
Connections ==
  [ws : {"none", "pending", "open", "failed"}, bootstrap : {"none", "pending", "done", "failed"},
   timer : {"off", "on", "fired"}, result : {"none", "pending", "ready", "timeout", "failed"},
   socket : BOOLEAN, cached : BOOLEAN, late : BOOLEAN]
Outcomes == {"", "ok", "TRANSPORT_ERROR", "REFUSED", "SEND_FAILED", "RECEIPT_FAILED",
             "PROGRAM_ID_FAILED", "VARA_ETH_INIT_FAILED", "DECODE_FAILED", "exited"}
CommandRecords ==
  [job : Job, plan : Plans, tx : {"none", "pool", "success", "reverted", "executed"},
   init : {"none", "executed", "refused"}, address : BOOLEAN, reported : BOOLEAN, shuttingDown : BOOLEAN,
   status : {"", "submitted", "success", "reverted", "recovered", "resolved"},
   initStatus : {"", "success", "failed"}, result : Outcomes]

TypeInv == conn \in Connections /\ cmd \in CommandRecords

\* The two halves and the timer: a connection that failed has closed its socket by the
\* time both halves have ended.
ConnFits(c) ==
  /\ (c.result = "none" <=> c.ws = "none") /\ (c.ws = "none" <=> c.bootstrap = "none")
  /\ c.timer = "on" <=> c.result = "pending"
  /\ c.result = "pending" => ~Settled(c)
  /\ c.result = "failed" => Settled(c)
  /\ c.result = "ready" => c.ws = "open" /\ c.bootstrap = "done"
  /\ (c.result \in {"timeout", "failed"} /\ Settled(c)) => ~c.socket \/ c.late
  /\ c.cached => c.result = "ready"

\* What is left to do fits what was done: nothing is prepared or sent twice.
PlanInv ==
  LET left == StepsOf(cmd.plan) IN
  /\ Ordered(cmd.plan)
  /\ left \cap ApiSteps # {} => conn.result = "ready" \/ "api" \in left
  /\ conn.result # "none" => "connect" \notin left
  /\ EthereumOnly(cmd.job) => "connect" \notin left /\ conn.ws = "none"
  /\ Preview(cmd.job) => left \subseteq Preparing \cup {"output"} /\ cmd.tx = "none" /\ cmd.init = "none"
  /\ left \cap {"ceremony", "programId"} # {} => cmd.job.kind \in {"upload", "deploy"}
  /\ cmd.address => cmd.job.kind \in {"upload", "deploy"}
  /\ cmd.result # "" => cmd.plan = <<>>

Beyond(phase) == \A s \in StepsOf(cmd.plan) : Phase[s] > phase

\* What is known of the transaction is known after the last step that could change it.
ReportInv ==
  /\ cmd.status \in {"success", "reverted"} => cmd.tx = cmd.status /\ Beyond(3)
  /\ cmd.status \in {"submitted", "recovered"} => cmd.tx # "none" /\ Beyond(2)
  /\ cmd.tx # "none" => Beyond(1)
  /\ cmd.status = "recovered" => cmd.tx \in {"success", "reverted"}
  /\ cmd.initStatus = "success" => cmd.init \in {"executed", "refused"}
  /\ cmd.initStatus = "failed" => cmd.result # "" /\ cmd.result # "ok"
  /\ cmd.address => Beyond(4)
  /\ cmd.result \in {"TRANSPORT_ERROR", "REFUSED"} => cmd.tx = "none"
  /\ cmd.address /\ cmd.result \notin {"", "exited"} => cmd.reported

IInv == TypeInv /\ ConnFits(conn) /\ PlanInv /\ ReportInv
-----------------------------------------------------------------------------
(* The connection                                                          *)

LEMMA NoConnectionFits == NoConnection \in Connections /\ ConnFits(NoConnection)
  BY DEF NoConnection, Connections, ConnFits, Settled

\* What the first of the two halves to settle the race leaves.
LEMMA FinallyFits ==
  ASSUME NEW c \in Connections, Settled(c), c.result # "none",
         c.ws # "none", c.bootstrap # "none", c.timer = "on" <=> c.result = "pending",
         c.result = "ready" => c.ws = "open" /\ c.bootstrap = "done",
         c.result # "failed", c.cached => c.result = "ready", c.result # "ready"
  PROVE  Finally(c) \in Connections /\ ConnFits(Finally(c)) /\ Finally(c).result # "none"
<1>1. CASE c.result = "timeout"
  <2>1. Finally(c) = [c EXCEPT !.socket = FALSE]
    BY <1>1 DEF Finally, DisconnectWs
  <2> QED
    BY <1>1, <2>1 DEF Connections, ConnFits, Settled
<1>2. CASE c.result = "pending" /\ c.ws = "open" /\ c.bootstrap = "done"
  <2>1. Finally(c) = [c EXCEPT !.timer = "off", !.result = "ready", !.cached = TRUE]
    BY <1>2 DEF Finally
  <2> QED
    BY <1>2, <2>1 DEF Connections, ConnFits, Settled
<1>3. CASE c.result = "pending" /\ ~(c.ws = "open" /\ c.bootstrap = "done")
  <2>1. Finally(c) = [[c EXCEPT !.timer = "off", !.result = "failed"] EXCEPT !.socket = FALSE]
    BY <1>3 DEF Finally, DisconnectWs
  <2> QED
    BY <1>3, <2>1 DEF Connections, ConnFits, Settled
<1> QED
  BY <1>1, <1>2, <1>3 DEF Connections

LEMMA StartedFits ==
  ASSUME NEW c \in Connections, ConnFits(c)
  PROVE  Started(c) \in Connections /\ ConnFits(Started(c))
<1>1. CASE c.cached
  BY <1>1 DEF Started
<1>2. CASE ~c.cached
  <2>1. Started(c) = [ws |-> "pending", bootstrap |-> "pending", timer |-> "on", result |-> "pending",
                      socket |-> FALSE, cached |-> FALSE, late |-> FALSE]
    BY <1>2 DEF Started, NoConnection
  <2> QED
    BY <2>1 DEF Connections, ConnFits, Settled
<1> QED
  BY <1>1, <1>2

LEMMA WsConnectsFits ==
  ASSUME NEW c \in Connections, ConnFits(c), c.ws = "pending", NEW ok \in BOOLEAN
  PROVE  WsConnects(c, ok) \in Connections /\ ConnFits(WsConnects(c, ok))
<1> DEFINE next == [c EXCEPT !.ws = IF ok THEN "open" ELSE "failed", !.socket = ok,
                             !.late = ok /\ Settled(c)]
<1>1. /\ next \in Connections
      /\ next.ws = (IF ok THEN "open" ELSE "failed") /\ next.socket = ok
      /\ next.late = (ok /\ Settled(c)) /\ next.bootstrap = c.bootstrap
      /\ next.timer = c.timer /\ next.result = c.result /\ next.cached = c.cached
  BY DEF Connections, Settled
<1>2. WsConnects(c, ok) = After(c, next)
  BY DEF WsConnects
<1> HIDE DEF next
<1>3. CASE Settled(next) /\ ~Settled(c)
  <2>1. Finally(next) \in Connections /\ ConnFits(Finally(next))
    BY <1>1, <1>3, FinallyFits DEF ConnFits, Settled
  <2> QED
    BY <1>2, <1>3, <2>1 DEF After
<1>4. CASE ~(Settled(next) /\ ~Settled(c))
  <2>1. ConnFits(next)
    BY <1>1, <1>4 DEF ConnFits, Settled
  <2> QED
    BY <1>1, <1>2, <1>4, <2>1 DEF After
<1> QED
  BY <1>3, <1>4

LEMMA BootstrapsFits ==
  ASSUME NEW c \in Connections, ConnFits(c), c.bootstrap = "pending", NEW ok \in BOOLEAN
  PROVE  Bootstraps(c, ok) \in Connections /\ ConnFits(Bootstraps(c, ok))
<1> DEFINE next == [c EXCEPT !.bootstrap = IF ok THEN "done" ELSE "failed"]
<1>1. /\ next \in Connections
      /\ next.bootstrap = (IF ok THEN "done" ELSE "failed") /\ next.socket = c.socket
      /\ next.late = c.late /\ next.ws = c.ws
      /\ next.timer = c.timer /\ next.result = c.result /\ next.cached = c.cached
  BY DEF Connections
<1>2. Bootstraps(c, ok) = After(c, next)
  BY DEF Bootstraps
<1> HIDE DEF next
<1>3. CASE Settled(next) /\ ~Settled(c)
  <2>1. Finally(next) \in Connections /\ ConnFits(Finally(next))
    BY <1>1, <1>3, FinallyFits DEF ConnFits, Settled
  <2> QED
    BY <1>2, <1>3, <2>1 DEF After
<1>4. CASE ~(Settled(next) /\ ~Settled(c))
  <2>1. ConnFits(next)
    BY <1>1, <1>4 DEF ConnFits, Settled
  <2> QED
    BY <1>1, <1>2, <1>4, <2>1 DEF After
<1> QED
  BY <1>3, <1>4

LEMMA TimesOutFits ==
  ASSUME NEW c \in Connections, ConnFits(c), c.timer = "on"
  PROVE  TimesOut(c) \in Connections /\ ConnFits(TimesOut(c))
<1>1. TimesOut(c) = [[c EXCEPT !.timer = "fired", !.result = "timeout"] EXCEPT !.socket = FALSE]
  BY DEF TimesOut, DisconnectWs
<1> QED
  BY <1>1 DEF Connections, ConnFits, Settled

LEMMA DisconnectedFits ==
  ASSUME NEW c \in Connections, ConnFits(c)
  PROVE  /\ Disconnected(c) \in Connections /\ ConnFits(Disconnected(c))
         /\ Disconnected(c).result = c.result /\ Disconnected(c).ws = c.ws
<1>1. CASE c.cached
  <2>1. Disconnected(c) = [[c EXCEPT !.socket = FALSE] EXCEPT !.cached = FALSE]
    BY <1>1 DEF Disconnected, DisconnectWs
  <2> QED
    BY <2>1 DEF Connections, ConnFits, Settled
<1>2. CASE ~c.cached
  BY <1>2 DEF Disconnected
<1> QED
  BY <1>1, <1>2
-----------------------------------------------------------------------------
(* Plans                                                                   *)

LEMMA PhaseIs ==
  /\ \A s \in Preparing : Phase[s] = 1
  /\ \A s \in Sending : Phase[s] = 2
  /\ \A s \in Awaiting : Phase[s] = 3
  /\ Phase["programId"] = 4 /\ Phase["init"] = 5 /\ Phase["output"] = 6
  BY DEF Phase, AllSteps, Preparing, Harmless, Sending, Awaiting

\* A part of a plan: its steps, each in a place it may have.
Part(plan, steps) == plan \in Plans /\ Ordered(plan) /\ StepsOf(plan) = steps
Before(a, steps) == \A s \in steps : MayFollow(a, s)

LEMMA EmptyPart == Part(<<>>, {})
<1> DEFINE plan == <<>>
<1>1. plan \in Plans /\ Len(plan) = 0
  BY DEF Plans
<1> HIDE DEF plan
<1>2. StepsOf(plan) = {}
  BY <1>1 DEF StepsOf
<1>3. Ordered(plan)
  BY <1>1 DEF Ordered, Before
<1> QED
  BY <1>1, <1>2, <1>3 DEF Part, plan

LEMMA OneStep ==
  ASSUME NEW a \in AllSteps
  PROVE  Part(<<a>>, {a})
<1> DEFINE plan == <<a>>
<1>1. plan \in Plans /\ Len(plan) = 1 /\ plan[1] = a
  BY DEF Plans
<1> HIDE DEF plan
<1>2. StepsOf(plan) = {a}
  BY <1>1 DEF StepsOf
<1>3. Ordered(plan)
  BY <1>1 DEF Ordered, Before
<1> QED
  BY <1>1, <1>2, <1>3 DEF Part, plan

LEMMA TwoSteps ==
  ASSUME NEW a \in AllSteps, NEW b \in AllSteps,
         Before(a, {b})
  PROVE  Part(<<a, b>>, {a, b})
<1> DEFINE plan == <<a, b>>
<1>1. plan \in Plans /\ Len(plan) = 2 /\ plan[1] = a /\ plan[2] = b
  BY DEF Plans
<1> HIDE DEF plan
<1>2. StepsOf(plan) = {a, b}
  BY <1>1 DEF StepsOf
<1>3. Ordered(plan)
  BY <1>1 DEF Ordered, Before
<1> QED
  BY <1>1, <1>2, <1>3 DEF Part, plan

LEMMA ThreeSteps ==
  ASSUME NEW a \in AllSteps, NEW b \in AllSteps, NEW c \in AllSteps,
         Before(a, {b, c}), Before(b, {c})
  PROVE  Part(<<a, b, c>>, {a, b, c})
<1> DEFINE plan == <<a, b, c>>
<1>1. plan \in Plans /\ Len(plan) = 3 /\ plan[1] = a /\ plan[2] = b /\ plan[3] = c
  BY DEF Plans
<1> HIDE DEF plan
<1>2. StepsOf(plan) = {a, b, c}
  BY <1>1 DEF StepsOf
<1>3. Ordered(plan)
  BY <1>1 DEF Ordered, Before
<1> QED
  BY <1>1, <1>2, <1>3 DEF Part, plan

LEMMA FourSteps ==
  ASSUME NEW a \in AllSteps, NEW b \in AllSteps, NEW c \in AllSteps, NEW d \in AllSteps,
         Before(a, {b, c, d}), Before(b, {c, d}), Before(c, {d})
  PROVE  Part(<<a, b, c, d>>, {a, b, c, d})
<1> DEFINE plan == <<a, b, c, d>>
<1>1. plan \in Plans /\ Len(plan) = 4 /\ plan[1] = a /\ plan[2] = b /\ plan[3] = c /\ plan[4] = d
  BY DEF Plans
<1> HIDE DEF plan
<1>2. StepsOf(plan) = {a, b, c, d}
  BY <1>1 DEF StepsOf
<1>3. Ordered(plan)
  BY <1>1 DEF Ordered, Before
<1> QED
  BY <1>1, <1>2, <1>3 DEF Part, plan

LEMMA FiveSteps ==
  ASSUME NEW a \in AllSteps, NEW b \in AllSteps, NEW c \in AllSteps, NEW d \in AllSteps, NEW e \in AllSteps,
         Before(a, {b, c, d, e}), Before(b, {c, d, e}), Before(c, {d, e}), Before(d, {e})
  PROVE  Part(<<a, b, c, d, e>>, {a, b, c, d, e})
<1> DEFINE plan == <<a, b, c, d, e>>
<1>1. plan \in Plans /\ Len(plan) = 5 /\ plan[1] = a /\ plan[2] = b /\ plan[3] = c /\ plan[4] = d /\ plan[5] = e
  BY DEF Plans
<1> HIDE DEF plan
<1>2. StepsOf(plan) = {a, b, c, d, e}
  BY <1>1 DEF StepsOf
<1>3. Ordered(plan)
  BY <1>1 DEF Ordered, Before
<1> QED
  BY <1>1, <1>2, <1>3 DEF Part, plan

LEMMA SixSteps ==
  ASSUME NEW a \in AllSteps, NEW b \in AllSteps, NEW c \in AllSteps, NEW d \in AllSteps, NEW e \in AllSteps, NEW f \in AllSteps,
         Before(a, {b, c, d, e, f}), Before(b, {c, d, e, f}), Before(c, {d, e, f}), Before(d, {e, f}), Before(e, {f})
  PROVE  Part(<<a, b, c, d, e, f>>, {a, b, c, d, e, f})
<1> DEFINE plan == <<a, b, c, d, e, f>>
<1>1. plan \in Plans /\ Len(plan) = 6 /\ plan[1] = a /\ plan[2] = b /\ plan[3] = c /\ plan[4] = d /\ plan[5] = e /\ plan[6] = f
  BY DEF Plans
<1> HIDE DEF plan
<1>2. StepsOf(plan) = {a, b, c, d, e, f}
  BY <1>1 DEF StepsOf
<1>3. Ordered(plan)
  BY <1>1 DEF Ordered, Before
<1> QED
  BY <1>1, <1>2, <1>3 DEF Part, plan

LEMMA Parts ==
  ASSUME NEW p, NEW q, NEW X, NEW Y, Part(p, X), Part(q, Y),
         \A x \in X : Before(x, Y)
  PROVE  Part(p \o q, X \cup Y)
<1>1. p \in Seq(AllSteps) /\ q \in Seq(AllSteps)
  BY DEF Part, Plans
<1>2. /\ p \o q \in Plans /\ Len(p \o q) = Len(p) + Len(q) /\ Len(p) \in Nat /\ Len(q) \in Nat
      /\ \A i \in 1 .. Len(p) + Len(q) : (p \o q)[i] = IF i <= Len(p) THEN p[i] ELSE q[i - Len(p)]
  BY <1>1, ConcatProperties, LenProperties DEF Plans
<1>3. /\ \A i \in 1 .. Len(p) : p[i] \in X
      /\ \A i \in 1 .. Len(q) : q[i] \in Y
  BY DEF Part, StepsOf
<1>4. StepsOf(p \o q) = X \cup Y
  <2>1. ASSUME NEW x \in X \cup Y
        PROVE  \E i \in 1 .. Len(p \o q) : x = (p \o q)[i]
    <3>1. CASE x \in X
      <4>1. PICK i \in 1 .. Len(p) : x = p[i]
        BY <3>1 DEF Part, StepsOf
      <4> QED
        BY <1>2, <4>1
    <3>2. CASE x \in Y
      <4>1. PICK i \in 1 .. Len(q) : x = q[i]
        BY <3>2 DEF Part, StepsOf
      <4>2. i + Len(p) \in 1 .. Len(p \o q) /\ ~(i + Len(p) <= Len(p)) /\ i + Len(p) - Len(p) = i
        BY <1>2
      <4>3. (p \o q)[i + Len(p)] = q[i]
        BY <1>2, <4>2
      <4> QED
        BY <4>1, <4>2, <4>3
    <3> QED
      BY <3>1, <3>2
  <2>2. ASSUME NEW i \in 1 .. Len(p \o q)
        PROVE  (p \o q)[i] \in X \cup Y
    <3>1. CASE i <= Len(p)
      BY <1>2, <1>3, <3>1
    <3>2. CASE i > Len(p)
      <4>1. (p \o q)[i] = q[i - Len(p)] /\ i - Len(p) \in 1 .. Len(q)
        BY <1>2, <3>2
      <4> QED
        BY <1>3, <4>1
    <3> QED
      BY <1>2, <3>1, <3>2
  <2> QED
    BY <2>1, <2>2 DEF StepsOf
<1>5. ASSUME NEW i \in 1 .. Len(p \o q), NEW k \in 1 .. Len(p \o q), i < k
      PROVE  MayFollow((p \o q)[i], (p \o q)[k])
  <2>1. CASE k <= Len(p)
    <3>1. (p \o q)[i] = p[i] /\ (p \o q)[k] = p[k] /\ i \in 1 .. Len(p) /\ k \in 1 .. Len(p)
      BY <1>2, <1>5, <2>1
    <3> QED
      BY <1>5, <3>1 DEF Part, Ordered
  <2>2. CASE i <= Len(p) /\ k > Len(p)
    <3>1. /\ (p \o q)[i] = p[i] /\ (p \o q)[k] = q[k - Len(p)]
          /\ i \in 1 .. Len(p) /\ k - Len(p) \in 1 .. Len(q)
      BY <1>2, <1>5, <2>2
    <3> QED
      BY <1>3, <3>1 DEF Before
  <2>3. CASE i > Len(p)
    <3>1. /\ (p \o q)[i] = q[i - Len(p)] /\ (p \o q)[k] = q[k - Len(p)]
          /\ i - Len(p) \in 1 .. Len(q) /\ k - Len(p) \in 1 .. Len(q) /\ i - Len(p) < k - Len(p)
      BY <1>2, <1>5, <2>3
    <3> QED
      BY <3>1 DEF Part, Ordered
  <2> QED
    BY <1>2, <1>5, <2>1, <2>2, <2>3
<1> QED
  BY <1>2, <1>4, <1>5 DEF Part, Ordered

LEMMA IfPart ==
  ASSUME NEW p, NEW X, Part(p, X), NEW condition \in BOOLEAN
  PROVE  Part(If(condition, p), IF condition THEN X ELSE {})
  BY EmptyPart DEF If

LEMMA PhaseOf ==
  /\ Phase["connect"] = 1 /\ Phase["api"] = 1 /\ Phase["ethClient"] = 1 /\ Phase["signer"] = 1
  /\ Phase["settled"] = 1 /\ Phase["read"] = 1 /\ Phase["query"] = 1 /\ Phase["idl"] = 1
  /\ Phase["estimate"] = 1 /\ Phase["origin"] = 1 /\ Phase["ethPermit"] = 1 /\ Phase["apiPermit"] = 1
  /\ Phase["send"] = 2 /\ Phase["inject"] = 2 /\ Phase["exchange"] = 2 /\ Phase["ceremony"] = 2
  /\ Phase["request"] = 2 /\ Phase["receipt"] = 3 /\ Phase["mined"] = 3 /\ Phase["waited"] = 3
  /\ Phase["programId"] = 4 /\ Phase["init"] = 5 /\ Phase["output"] = 6
  BY PhaseIs DEF Preparing, Harmless, Sending, Awaiting

LEMMA ApiPart == Part(Api, {"connect", "api"})
<1>1. Before("connect", {"api"}) /\ "connect" \in AllSteps /\ "api" \in AllSteps
  BY PhaseOf DEF Before, MayFollow, AllSteps, Preparing, ApiSteps
<1> QED
  BY <1>1, TwoSteps DEF Api

\* What a plan's steps say of its command line.
Suits(j, steps) ==
  /\ steps \cap ApiSteps # {} => "api" \in steps
  /\ EthereumOnly(j) => "connect" \notin steps
  /\ Preview(j) => steps \subseteq Preparing \cup {"output"}
  /\ steps \cap {"ceremony", "programId"} # {} => j.kind \in {"upload", "deploy"}
Fits(j, plan) == plan \in Plans /\ Ordered(plan) /\ Suits(j, StepsOf(plan))

LEMMA PhaseRange == \A a \in AllSteps : Phase[a] \in 1 .. 6 /\ (Phase[a] = 1 <=> a \in Preparing)
  BY PhaseOf DEF AllSteps, Preparing, Harmless, Sending, Awaiting

\* Preparations may come before anything else, but for the api, which comes once and
\* before its users.
LEMMA Prepared ==
  ASSUME NEW p, NEW q, NEW X, NEW Y, Part(p, X), Part(q, Y), X \subseteq Preparing, Y \subseteq AllSteps,
         "connect" \in X => "connect" \notin Y, X \cap (ApiSteps \cup {"api"}) # {} => "api" \notin Y
  PROVE  Part(p \o q, X \cup Y)
<1>1. ASSUME NEW x \in X, NEW y \in Y
      PROVE  MayFollow(x, y)
  <2>1. x \in AllSteps /\ x # "ceremony"
    BY DEF AllSteps, Preparing, Harmless, Sending, Awaiting
  <2> QED
    BY <2>1, PhaseRange DEF MayFollow
<1> QED
  BY <1>1, Parts DEF Before

LEMMA AfterApi ==
  ASSUME NEW q, NEW Y, Part(q, Y), Y \subseteq AllSteps \ {"connect", "api"}
  PROVE  Part(Api \o q, {"connect", "api"} \cup Y)
  BY ApiPart, Prepared DEF Preparing

\* Sending, and what follows from it.
LEMMA SendOutput == Part(<<"send", "output">>, {"send", "output"})
<1>1. Before("send", {"output"}) /\ "send" \in AllSteps /\ "output" \in AllSteps
  BY PhaseOf DEF Before, MayFollow, AllSteps, Preparing, Sending, ApiSteps
<1> QED
  BY <1>1, TwoSteps

LEMMA SendPart ==
  ASSUME NEW j \in Job
  PROVE  Part(SendAndMaybeWait(j), IF j.submitted THEN {"send", "output"} ELSE {"send", "receipt", "output"})
<1>1. /\ Before("send", {"receipt", "output"}) /\ Before("receipt", {"output"})
      /\ {"send", "receipt", "output"} \subseteq AllSteps
  BY PhaseOf DEF Before, MayFollow, AllSteps, Preparing, Harmless, Sending, Awaiting, ApiSteps
<1>2. Part(<<"send", "receipt", "output">>, {"send", "receipt", "output"})
  BY <1>1, ThreeSteps
<1> QED
  BY <1>2, SendOutput DEF SendAndMaybeWait

LEMMA EthPart == Part(EthClientAndSigner, {"ethClient", "signer"})
<1>1. Before("ethClient", {"signer"}) /\ "ethClient" \in AllSteps /\ "signer" \in AllSteps
  BY PhaseOf DEF Before, MayFollow, AllSteps, Preparing, Harmless, ApiSteps
<1> QED
  BY <1>1, TwoSteps DEF EthClientAndSigner

LEMMA BalanceFits ==
  ASSUME NEW j \in Job, j.kind = "balance"
  PROVE  Fits(j, Balance(j))
<1>1. /\ Before("settled", {"output"})
      /\ {"settled", "output"} \subseteq AllSteps
  BY PhaseOf DEF Before, MayFollow, AllSteps, Preparing, Harmless, Sending, Awaiting, ApiSteps
<1>2. Part(<<"settled", "output">>, {"settled", "output"})
  BY <1>1, TwoSteps
<1>3. Part(Balance(j), {"connect", "api"} \cup {"settled", "output"})
  BY <1>1, <1>2, AfterApi DEF Balance
<1>4. Suits(j, {"connect", "api"} \cup {"settled", "output"})
  BY DEF Suits, EthereumOnly, Preview, Preparing, Harmless
<1> QED
  BY <1>3, <1>4 DEF Part, Fits

LEMMA ProgramInfoFits ==
  ASSUME NEW j \in Job, j.kind = "info"
  PROVE  Fits(j, ProgramInfo(j))
<1>1. /\ Before("settled", {"output"})
      /\ {"settled", "output"} \subseteq AllSteps
  BY PhaseOf DEF Before, MayFollow, AllSteps, Preparing, Harmless, Sending, Awaiting, ApiSteps
<1>2. Part(<<"settled", "output">>, {"settled", "output"})
  BY <1>1, TwoSteps
<1>3. Part(ProgramInfo(j), {"connect", "api"} \cup {"settled", "output"})
  BY <1>1, <1>2, AfterApi DEF ProgramInfo
<1>4. Suits(j, {"connect", "api"} \cup {"settled", "output"})
  BY DEF Suits, EthereumOnly, Preview, Preparing, Harmless
<1> QED
  BY <1>3, <1>4 DEF Part, Fits

LEMMA ProgramListFits ==
  ASSUME NEW j \in Job, j.kind = "list"
  PROVE  Fits(j, ProgramList(j))
<1>1. /\ Before("query", {"output"})
      /\ {"query", "output"} \subseteq AllSteps
  BY PhaseOf DEF Before, MayFollow, AllSteps, Preparing, Harmless, Sending, Awaiting, ApiSteps
<1>2. Part(<<"query", "output">>, {"query", "output"})
  BY <1>1, TwoSteps
<1>3. Part(ProgramList(j), {"connect", "api"} \cup {"query", "output"})
  BY <1>1, <1>2, AfterApi DEF ProgramList
<1>4. Suits(j, {"connect", "api"} \cup {"query", "output"})
  BY DEF Suits, EthereumOnly, Preview, Preparing, Harmless
<1> QED
  BY <1>3, <1>4 DEF Part, Fits

LEMMA StateReadFits ==
  ASSUME NEW j \in Job, j.kind = "state"
  PROVE  Fits(j, StateRead(j))
<1>1. /\ Before("read", {"query", "output"})
      /\ Before("query", {"output"})
      /\ {"read", "query", "output"} \subseteq AllSteps
  BY PhaseOf DEF Before, MayFollow, AllSteps, Preparing, Harmless, Sending, Awaiting, ApiSteps
<1>2. Part(<<"read", "query", "output">>, {"read", "query", "output"})
  BY <1>1, ThreeSteps
<1>3. Part(StateRead(j), {"connect", "api"} \cup {"read", "query", "output"})
  BY <1>1, <1>2, AfterApi DEF StateRead
<1>4. Suits(j, {"connect", "api"} \cup {"read", "query", "output"})
  BY DEF Suits, EthereumOnly, Preview, Preparing, Harmless
<1> QED
  BY <1>3, <1>4 DEF Part, Fits

LEMMA DiscoverFits ==
  ASSUME NEW j \in Job, j.kind = "discover"
  PROVE  Fits(j, Discover(j))
<1>1. /\ Before("idl", {"output"})
      /\ {"idl", "output"} \subseteq AllSteps
  BY PhaseOf DEF Before, MayFollow, AllSteps, Preparing, Harmless, Sending, Awaiting, ApiSteps
<1>2. Part(<<"idl", "output">>, {"idl", "output"})
  BY <1>1, TwoSteps
<1>3. Part(Discover(j), {"connect", "api"} \cup {"idl", "output"})
  BY <1>1, <1>2, AfterApi DEF Discover
<1>4. Suits(j, {"connect", "api"} \cup {"idl", "output"})
  BY DEF Suits, EthereumOnly, Preview, Preparing, Harmless
<1> QED
  BY <1>3, <1>4 DEF Part, Fits

LEMMA TokenBalanceFits ==
  ASSUME NEW j \in Job, j.kind = "tokenBalance"
  PROVE  Fits(j, TokenBalance(j))
<1>1. /\ Before("read", {"output"})
      /\ {"read", "output"} \subseteq AllSteps
  BY PhaseOf DEF Before, MayFollow, AllSteps, Preparing, Harmless, Sending, Awaiting, ApiSteps
<1>2. Part(<<"read", "output">>, {"read", "output"})
  BY <1>1, TwoSteps
<1>3. Part(TokenBalance(j), {"connect", "api"} \cup {"read", "output"})
  BY <1>1, <1>2, AfterApi DEF TokenBalance
<1>4. Suits(j, {"connect", "api"} \cup {"read", "output"})
  BY DEF Suits, EthereumOnly, Preview, Preparing, Harmless
<1> QED
  BY <1>3, <1>4 DEF Part, Fits

LEMMA TopUpFits ==
  ASSUME NEW j \in Job, j.kind = "topUp"
  PROVE  Fits(j, TopUp(j))
<1>1. /\ Before("read", {"signer", "apiPermit", "send", "receipt", "output"})
      /\ Before("signer", {"apiPermit", "send", "receipt", "output"})
      /\ Before("apiPermit", {"send", "receipt", "output"})
      /\ Before("send", {"receipt", "output"})
      /\ Before("receipt", {"output"})
      /\ {"read", "signer", "apiPermit", "send", "receipt", "output"} \subseteq AllSteps
  BY PhaseOf DEF Before, MayFollow, AllSteps, Preparing, Harmless, Sending, Awaiting, ApiSteps
<1>2. Part(<<"read", "signer", "apiPermit", "send", "receipt", "output">>, {"read", "signer", "apiPermit", "send", "receipt", "output"})
  BY <1>1, SixSteps
<1>3. Part(TopUp(j), {"connect", "api"} \cup {"read", "signer", "apiPermit", "send", "receipt", "output"})
  BY <1>1, <1>2, AfterApi DEF TopUp
<1>4. Suits(j, {"connect", "api"} \cup {"read", "signer", "apiPermit", "send", "receipt", "output"})
  BY DEF Suits, EthereumOnly, Preview, Preparing, Harmless
<1> QED
  BY <1>3, <1>4 DEF Part, Fits

LEMMA RecoverFits ==
  ASSUME NEW j \in Job, j.kind = "recover"
  PROVE  Fits(j, Recover(j))
<1>1. /\ Before("signer", {"read", "send", "waited", "output"})
      /\ Before("read", {"send", "waited", "output"})
      /\ Before("send", {"waited", "output"})
      /\ Before("waited", {"output"})
      /\ {"signer", "read", "send", "waited", "output"} \subseteq AllSteps
  BY PhaseOf DEF Before, MayFollow, AllSteps, Preparing, Harmless, Sending, Awaiting, ApiSteps
<1>2. Part(<<"signer", "read", "send", "waited", "output">>, {"signer", "read", "send", "waited", "output"})
  BY <1>1, FiveSteps
<1>3. Part(Recover(j), {"connect", "api"} \cup {"signer", "read", "send", "waited", "output"})
  BY <1>1, <1>2, AfterApi DEF Recover
<1>4. Suits(j, {"connect", "api"} \cup {"signer", "read", "send", "waited", "output"})
  BY DEF Suits, EthereumOnly, Preview, Preparing, Harmless
<1> QED
  BY <1>3, <1>4 DEF Part, Fits

LEMMA SessionFits ==
  ASSUME NEW j \in Job, j.kind = "session"
  PROVE  Fits(j, Session(j))
<1>1. /\ Before("signer", {"request", "output"})
      /\ Before("request", {"request", "output"})
      /\ Before("request", {"output"})
      /\ {"signer", "request", "output"} \subseteq AllSteps
  BY PhaseOf DEF Before, MayFollow, AllSteps, Preparing, Harmless, Sending, Awaiting, ApiSteps
<1>2. Part(<<"signer", "request", "request", "output">>, {"signer", "request", "output"})
  BY <1>1, FourSteps
<1>3. Part(Session(j), {"connect", "api"} \cup {"signer", "request", "output"})
  BY <1>1, <1>2, AfterApi DEF Session
<1>4. Suits(j, {"connect", "api"} \cup {"signer", "request", "output"})
  BY DEF Suits, EthereumOnly, Preview, Preparing, Harmless
<1> QED
  BY <1>3, <1>4 DEF Part, Fits

\* The commands that need no validator.
LEMMA EthereumFits ==
  ASSUME NEW j \in Job
  PROVE  /\ j.kind = "approve" => Fits(j, Approve(j))
         /\ j.kind = "transfer" => Fits(j, Transfer(j))
         /\ j.kind = "permit" => Fits(j, Permit(j))
         /\ j.kind = "reply" => Fits(j, MessageReply(j))
<1> DEFINE sent == IF j.submitted THEN {"send", "output"} ELSE {"send", "receipt", "output"}
           read == IF ~(j.submitted /\ j.raw) THEN {"read"} ELSE {}
<1>1. Part(SendAndMaybeWait(j), sent) /\ sent \subseteq {"send", "receipt", "output"}
  BY SendPart
<1>2. {"send", "receipt", "output"} \subseteq AllSteps /\ {"ethClient", "signer", "read", "ethPermit"} \subseteq Preparing
  BY DEF AllSteps, Preparing, Harmless, Sending, Awaiting
<1>3. Part(If(~(j.submitted /\ j.raw), <<"read">>), read) /\ read \subseteq {"read"}
  BY <1>2, OneStep, IfPart DEF Job, AllSteps
<1>4. Part(<<"ethPermit">>, {"ethPermit"}) /\ Part(<<"signer">>, {"signer"})
  BY <1>2, OneStep DEF AllSteps
<1>5. Preparing \subseteq AllSteps
  BY DEF AllSteps
<1> HIDE DEF sent, read
<1>6. Part(Approve(j), {"ethClient", "signer"} \cup sent)
  BY <1>1, <1>2, EthPart, Prepared DEF Approve
<1>7. Part(Transfer(j), ({"ethClient", "signer"} \cup read) \cup sent)
  <2>1. Part(EthClientAndSigner \o If(~(j.submitted /\ j.raw), <<"read">>), {"ethClient", "signer"} \cup read)
    BY <1>2, <1>3, <1>5, EthPart, Prepared
  <2> QED
    BY <1>1, <1>2, <1>3, <2>1, Prepared DEF Transfer
<1>8. Part(Permit(j), ({"ethClient", "signer"} \cup {"ethPermit"}) \cup sent)
  <2>1. Part(EthClientAndSigner \o <<"ethPermit">>, {"ethClient", "signer"} \cup {"ethPermit"})
    BY <1>2, <1>4, <1>5, EthPart, Prepared
  <2> QED
    BY <1>1, <1>2, <2>1, Prepared DEF Permit
<1>9. Part(MessageReply(j), {"signer"} \cup sent)
  BY <1>1, <1>2, <1>4, Prepared DEF MessageReply
<1>10. ASSUME NEW steps \in SUBSET {"ethClient", "signer", "read", "ethPermit", "send", "receipt", "output"},
              j.kind \in {"approve", "transfer", "permit", "reply"}
       PROVE  Suits(j, steps)
  BY <1>10 DEF Suits, Preview, ApiSteps
<1> QED
  BY <1>1, <1>3, <1>6, <1>7, <1>8, <1>9, <1>10 DEF Part, Fits

\* The steps that send a message and the output, one of three ways.
LEMMA OneThenOutput ==
  ASSUME NEW a \in AllSteps \ {"output", "ceremony"}
  PROVE  Part(<<a, "output">>, {a, "output"})
<1>1. MayFollow(a, "output") /\ "output" \in AllSteps
  <2>1. Phase[a] \in 1 .. 5
    BY PhaseOf DEF AllSteps, Preparing, Harmless, Sending, Awaiting
  <2> QED
    BY <2>1, PhaseOf DEF MayFollow, AllSteps, Preparing, Harmless, Sending, Awaiting
<1> QED
  BY <1>1, TwoSteps DEF Before

LEMMA OutputPart == Part(<<"output">>, {"output"})
  BY OneStep DEF AllSteps

LEMMA MessageSendFits ==
  ASSUME NEW j \in Job, j.kind = "send"
  PROVE  Fits(j, MessageSend(j))
<1> DEFINE validator == j.via = "injected" \/ ~j.submitted
           connect == IF validator THEN {"connect"} ELSE {}
           api == IF validator THEN {"api"} ELSE {}
           way == CASE j.submitted /\ j.via = "eth" -> <<"send", "output">>
                    [] j.submitted /\ j.via = "injected" -> <<"inject", "output">>
                    [] ~j.submitted -> <<"exchange", "output">>
           sent == CASE j.submitted /\ j.via = "eth" -> {"send", "output"}
                     [] j.submitted /\ j.via = "injected" -> {"inject", "output"}
                     [] ~j.submitted -> {"exchange", "output"}
<1>1. MessageSend(j) = ((If(validator, <<"connect">>) \o <<"signer">>) \o If(validator, <<"api">>)) \o way
  BY DEF MessageSend
<1>2. j.submitted \in BOOLEAN /\ j.via \in {"eth", "injected"} /\ validator \in BOOLEAN
  BY DEF Job
<1>3. /\ {"connect", "signer", "api"} \subseteq Preparing /\ Preparing \subseteq AllSteps
      /\ {"send", "inject", "exchange", "output"} \subseteq AllSteps
      /\ "connect" \notin ApiSteps /\ "signer" \notin ApiSteps
  BY DEF AllSteps, Preparing, Harmless, Sending, Awaiting, ApiSteps
<1>4. Part(way, sent) /\ sent \subseteq {"send", "inject", "exchange", "output"}
  <2>1. Part(<<"send", "output">>, {"send", "output"}) /\ Part(<<"inject", "output">>, {"inject", "output"})
        /\ Part(<<"exchange", "output">>, {"exchange", "output"})
    BY <1>3, OneThenOutput
  <2>2. CASE j.submitted /\ j.via = "eth"
    BY <2>1, <2>2
  <2>3. CASE j.submitted /\ j.via = "injected"
    BY <2>1, <2>3
  <2>4. CASE ~j.submitted
    BY <2>1, <2>4
  <2> QED
    BY <1>2, <2>2, <2>3, <2>4
<1>5. /\ Part(If(validator, <<"connect">>), connect) /\ Part(If(validator, <<"api">>), api)
      /\ Part(<<"signer">>, {"signer"}) /\ connect \subseteq {"connect"} /\ api \subseteq {"api"}
  BY <1>2, <1>3, OneStep, IfPart
<1>6. ApiSteps \cap sent # {} => validator
  BY <1>2 DEF ApiSteps
<1>7. validator => "api" \in api
  OBVIOUS
<1>8. EthereumOnly(j) => ~validator
  BY <1>2 DEF EthereumOnly
<1>9. ~validator => connect = {}
  OBVIOUS
<1> HIDE DEF connect, api, way, sent, validator
<1>10. Part(If(validator, <<"connect">>) \o <<"signer">>, connect \cup {"signer"})
  BY <1>3, <1>5, Prepared
<1>11. Part((If(validator, <<"connect">>) \o <<"signer">>) \o If(validator, <<"api">>), (connect \cup {"signer"}) \cup api)
  BY <1>3, <1>5, <1>10, Prepared
<1>12. Part(MessageSend(j), ((connect \cup {"signer"}) \cup api) \cup sent)
  <2>1. (connect \cup {"signer"}) \cup api \subseteq Preparing /\ sent \subseteq AllSteps
        /\ "connect" \notin sent /\ "api" \notin sent
    BY <1>3, <1>4, <1>5
  <2>2. Part(((If(validator, <<"connect">>) \o <<"signer">>) \o If(validator, <<"api">>)) \o way,
             ((connect \cup {"signer"}) \cup api) \cup sent)
    BY <1>4, <1>11, <2>1, Prepared
  <2> QED
    BY <1>1, <2>2
<1>13. Suits(j, ((connect \cup {"signer"}) \cup api) \cup sent)
  <2>1. ~Preview(j)
    BY DEF Preview
  <2> QED
    BY <1>3, <1>4, <1>5, <1>6, <1>7, <1>8, <1>9, <2>1 DEF Suits
<1> QED
  BY <1>12, <1>13 DEF Part, Fits

LEMMA DeployedPart ==
  ASSUME NEW j \in Job
  PROVE  Part(Deployed(j), IF j.init THEN {"init", "output"} ELSE {"output"})
<1>1. Part(<<"init">>, {"init"}) /\ Part(<<"output">>, {"output"}) /\ Before("init", {"output"})
  BY OneStep, PhaseOf DEF AllSteps, Preparing, Harmless, Sending, Awaiting, ApiSteps, Before, MayFollow
<1>2. CASE j.init
  <2>1. Part(<<"init">> \o <<"output">>, {"init"} \cup {"output"})
    BY <1>1, Parts
  <2> QED
    BY <1>2, <2>1 DEF Deployed, If
<1>3. CASE ~j.init
  <2>1. Part(<<>> \o <<"output">>, {} \cup {"output"})
    BY <1>1, EmptyPart, Parts
  <2> QED
    BY <1>3, <2>1 DEF Deployed, If
<1> QED
  BY <1>2, <1>3 DEF Job

LEMMA UploadFits ==
  ASSUME NEW j \in Job, j.kind = "upload"
  PROVE  Fits(j, Upload(j))
<1>1. CASE j.dryRun
  <2>1. Part(Upload(j), {"output"})
    BY <1>1, OutputPart DEF Upload
  <2> QED
    BY <2>1 DEF Part, Fits, Suits, ApiSteps
<1>2. CASE ~j.dryRun
  <2> DEFINE rest == IF j.init THEN {"init", "output"} ELSE {"output"}
  <2>1. Part(Deployed(j), rest) /\ rest \subseteq {"init", "output"}
    BY DeployedPart
  <2> HIDE DEF rest
  <2>2. Part(<<"signer", "ceremony">>, {"signer", "ceremony"})
    <3>1. Before("signer", {"ceremony"}) /\ "signer" \in AllSteps /\ "ceremony" \in AllSteps
      BY PhaseOf DEF AllSteps, Preparing, Harmless, Sending, Awaiting, ApiSteps, Before, MayFollow
    <3> QED
      BY <3>1, TwoSteps
  <2>3. Before("signer", {"init", "output"}) /\ Before("ceremony", {"init", "output"})
        /\ {"init", "output", "signer", "ceremony"} \subseteq AllSteps \ {"connect", "api"}
    BY PhaseOf DEF AllSteps, Preparing, Harmless, Sending, Awaiting, ApiSteps, Before, MayFollow
  <2>4. Part(Api \o <<"signer", "ceremony">>, {"connect", "api"} \cup {"signer", "ceremony"})
    BY <2>2, <2>3, AfterApi
  <2>5. Before("connect", {"init", "output"}) /\ Before("api", {"init", "output"})
    BY PhaseOf DEF AllSteps, Preparing, Harmless, Sending, Awaiting, ApiSteps, Before, MayFollow
  <2>6. Part(Upload(j), ({"connect", "api"} \cup {"signer", "ceremony"}) \cup rest)
    <3>1. Upload(j) = (Api \o <<"signer", "ceremony">>) \o Deployed(j)
      BY <1>2 DEF Upload
    <3>2. \A x \in {"connect", "api"} \cup {"signer", "ceremony"} : Before(x, rest)
      BY <2>1, <2>3, <2>5 DEF Before
    <3> QED
      BY <2>1, <2>4, <3>1, <3>2, Parts
  <2>7. Suits(j, ({"connect", "api"} \cup {"signer", "ceremony"}) \cup rest)
    BY <1>2 DEF Suits, EthereumOnly, Preview
  <2> QED
    BY <2>6, <2>7 DEF Part, Fits
<1> QED
  BY <1>1, <1>2 DEF Job

LEMMA DeployFits ==
  ASSUME NEW j \in Job, j.kind = "deploy"
  PROVE  Fits(j, Deploy(j))
<1>1. CASE j.dryRun
  <2>1. Part(Deploy(j), {"output"})
    BY <1>1, OutputPart DEF Deploy
  <2> QED
    BY <2>1 DEF Part, Fits, Suits, ApiSteps
<1>2. CASE ~j.dryRun
  <2> DEFINE rest == IF j.init THEN {"init", "output"} ELSE {"output"}
             permit == IF j.funded THEN {"apiPermit"} ELSE {}
             made == {"send", "mined", "programId"}
  <2>1. Part(Deployed(j), rest) /\ rest \subseteq {"init", "output"}
    BY DeployedPart
  <2>2. Part(If(j.funded, <<"apiPermit">>), permit) /\ permit \subseteq {"apiPermit"}
    BY OneStep, IfPart DEF Job, AllSteps, Preparing, Harmless, Sending, Awaiting
  <2>3. Part(<<"send", "mined", "programId">>, made) /\ made \subseteq AllSteps \ {"connect", "api"}
    <3>1. /\ Before("send", {"mined", "programId"}) /\ Before("mined", {"programId"})
          /\ {"send", "mined", "programId"} \subseteq AllSteps
      BY PhaseOf DEF AllSteps, Preparing, Harmless, Sending, Awaiting, ApiSteps, Before, MayFollow
    <3> QED
      BY <3>1, ThreeSteps
  <2>4. Part(<<"signer">>, {"signer"})
    BY OneStep DEF AllSteps, Preparing, Harmless, Sending, Awaiting
  <2>5. \A x \in made : Before(x, {"init", "output"})
    BY PhaseOf DEF AllSteps, Preparing, Harmless, Sending, Awaiting, ApiSteps, Before, MayFollow
  <2>6. /\ {"init", "output", "signer", "apiPermit"} \subseteq AllSteps \ {"connect", "api"}
        /\ {"connect", "api", "signer", "apiPermit"} \subseteq Preparing /\ Preparing \subseteq AllSteps
    BY DEF AllSteps, Preparing, Harmless, Sending, Awaiting
  <2> HIDE DEF rest, permit, made
  <2>7. Part(Api \o <<"signer">>, {"connect", "api"} \cup {"signer"})
    BY <2>4, <2>6, AfterApi
  <2>8. Part((Api \o <<"signer">>) \o If(j.funded, <<"apiPermit">>), ({"connect", "api"} \cup {"signer"}) \cup permit)
    BY <2>2, <2>6, <2>7, Prepared
  <2>9. Part(((Api \o <<"signer">>) \o If(j.funded, <<"apiPermit">>)) \o <<"send", "mined", "programId">>,
             (({"connect", "api"} \cup {"signer"}) \cup permit) \cup made)
    BY <2>2, <2>3, <2>6, <2>8, Prepared
  <2>10. Part(Deploy(j), ((({"connect", "api"} \cup {"signer"}) \cup permit) \cup made) \cup rest)
    <3>1. Deploy(j) = (((Api \o <<"signer">>) \o If(j.funded, <<"apiPermit">>)) \o <<"send", "mined", "programId">>) \o Deployed(j)
      BY <1>2 DEF Deploy
    <3>2. \A x \in {"connect", "api", "signer", "apiPermit"} : Before(x, {"init", "output"})
      BY PhaseOf DEF AllSteps, Preparing, Harmless, Sending, Awaiting, ApiSteps, Before, MayFollow
    <3>3. \A x \in (({"connect", "api"} \cup {"signer"}) \cup permit) \cup made : Before(x, rest)
      BY <2>1, <2>2, <2>5, <3>2 DEF Before
    <3>4. Part((((Api \o <<"signer">>) \o If(j.funded, <<"apiPermit">>)) \o <<"send", "mined", "programId">>) \o Deployed(j),
               ((({"connect", "api"} \cup {"signer"}) \cup permit) \cup made) \cup rest)
      BY <2>1, <2>9, <3>3, Parts
    <3> QED
      BY <3>1, <3>4
  <2>11. Suits(j, ((({"connect", "api"} \cup {"signer"}) \cup permit) \cup made) \cup rest)
    BY <1>2 DEF Suits, EthereumOnly, Preview
  <2> QED
    BY <2>10, <2>11 DEF Part, Fits
<1> QED
  BY <1>1, <1>2 DEF Job

\* What a call does once it has its IDL.
Submitted(j) ==
  CASE j.submitted /\ j.via = "eth" -> <<"send", "output">>
    [] j.submitted /\ j.via = "injected" -> <<"inject", "output">>
    [] ~j.submitted -> <<"exchange", "output">>
Called(j) ==
  CASE j.dryRun -> If(j.estimate /\ ~j.query, <<"signer", "estimate">>) \o <<"output">>
    [] ~j.dryRun /\ j.query -> <<"query", "output">>
    [] ~j.dryRun /\ ~j.query /\ j.estimate -> <<"signer", "estimate", "output">>
    [] ~j.dryRun /\ ~j.query /\ ~j.estimate -> <<"signer", "origin">> \o Submitted(j)

LEMMA CalledPart ==
  ASSUME NEW j \in Job, j.kind = "call"
  PROVE  \E steps \in SUBSET (AllSteps \ {"connect", "api", "ceremony", "programId"}) :
           /\ Part(Called(j), steps)
           /\ steps \cap ApiSteps # {} => NeedsValidatorApi(j)
           /\ Preview(j) => steps \subseteq Preparing \cup {"output"}
<1> /\ j.submitted \in BOOLEAN /\ j.via \in {"eth", "injected"} /\ j.dryRun \in BOOLEAN
    /\ j.estimate \in BOOLEAN /\ j.query \in BOOLEAN
  BY DEF Job
<1> DEFINE Rest == AllSteps \ {"connect", "api", "ceremony", "programId"}
<1>1. /\ {"signer", "origin", "estimate", "query"} \subseteq Preparing /\ Preparing \subseteq AllSteps
      /\ {"signer", "origin", "estimate", "query", "send", "inject", "exchange", "output"} \subseteq Rest
  BY DEF AllSteps, Preparing, Harmless, Sending, Awaiting
<1>2. CASE j.dryRun
  <2> DEFINE estimated == IF j.estimate /\ ~j.query THEN {"signer", "estimate"} ELSE {}
  <2>1. Part(<<"signer", "estimate">>, {"signer", "estimate"})
    <3>1. Before("signer", {"estimate"})
      BY PhaseOf DEF Before, MayFollow, Preparing, Harmless, ApiSteps
    <3> QED
      BY <1>1, <3>1, TwoSteps
  <2>2. Part(If(j.estimate /\ ~j.query, <<"signer", "estimate">>), estimated) /\ estimated \subseteq {"signer", "estimate"}
    BY <2>1, IfPart
  <2>3. estimated # {} => NeedsValidatorApi(j)
    BY DEF NeedsValidatorApi
  <2> HIDE DEF estimated
  <2>4. Part(If(j.estimate /\ ~j.query, <<"signer", "estimate">>) \o <<"output">>, estimated \cup {"output"})
    BY <1>1, <2>2, OutputPart, Prepared
  <2>5. Called(j) = If(j.estimate /\ ~j.query, <<"signer", "estimate">>) \o <<"output">>
    BY <1>2 DEF Called
  <2>6. "output" \notin ApiSteps
    BY DEF ApiSteps
  <2>8. estimated \cup {"output"} \in SUBSET Rest
    BY <1>1, <2>2
  <2> QED
    BY <1>1, <2>2, <2>3, <2>4, <2>5, <2>6, <2>8
<1>3. CASE ~j.dryRun /\ j.query
  <2>1. Part(Called(j), {"query", "output"})
    BY <1>1, <1>3, OneThenOutput DEF Called
  <2>8. {"query", "output"} \in SUBSET Rest
    BY <1>1
  <2> QED
    BY <1>1, <1>3, <2>1, <2>8 DEF NeedsValidatorApi
<1>4. CASE ~j.dryRun /\ ~j.query /\ j.estimate
  <2>1. Part(<<"signer", "estimate", "output">>, {"signer", "estimate", "output"})
    <3>1. Before("signer", {"estimate", "output"}) /\ Before("estimate", {"output"})
      BY PhaseOf DEF Before, MayFollow, Preparing, Harmless, ApiSteps
    <3> QED
      BY <1>1, <3>1, ThreeSteps
  <2>2. Part(Called(j), {"signer", "estimate", "output"})
    BY <1>4, <2>1 DEF Called
  <2>8. {"signer", "estimate", "output"} \in SUBSET Rest
    BY <1>1
  <2> QED
    BY <1>1, <1>4, <2>2, <2>8 DEF NeedsValidatorApi
<1>5. CASE ~j.dryRun /\ ~j.query /\ ~j.estimate
  <2>1. PICK sent \in SUBSET {"send", "inject", "exchange", "output"} :
          Part(Submitted(j), sent) /\ (sent \cap ApiSteps # {} => ~(j.submitted /\ j.via = "eth"))
    <3>1. /\ Part(<<"send", "output">>, {"send", "output"}) /\ Part(<<"inject", "output">>, {"inject", "output"})
          /\ Part(<<"exchange", "output">>, {"exchange", "output"})
      BY <1>1, OneThenOutput
    <3>2. CASE j.submitted /\ j.via = "eth"
      BY <3>1, <3>2 DEF Submitted, ApiSteps
    <3>3. CASE j.submitted /\ j.via = "injected"
      BY <3>1, <3>3 DEF Submitted
    <3>4. CASE ~j.submitted
      BY <3>1, <3>4 DEF Submitted
    <3> QED
      BY <3>2, <3>3, <3>4
  <2>2. Part(<<"signer", "origin">>, {"signer", "origin"})
    <3>1. Before("signer", {"origin"})
      BY PhaseOf DEF Before, MayFollow, Preparing, Harmless, ApiSteps
    <3> QED
      BY <1>1, <3>1, TwoSteps
  <2>3. Part(<<"signer", "origin">> \o Submitted(j), {"signer", "origin"} \cup sent)
    BY <1>1, <2>1, <2>2, Prepared
  <2>4. Called(j) = <<"signer", "origin">> \o Submitted(j)
    BY <1>5 DEF Called
  <2>5. ~Preview(j)
    BY <1>5 DEF Preview
  <2>6. sent \cap ApiSteps # {} => NeedsValidatorApi(j)
    BY <1>5, <2>1 DEF NeedsValidatorApi, EthereumOnlySubmit
  <2>7. "signer" \notin ApiSteps /\ "origin" \notin ApiSteps
    BY DEF ApiSteps
  <2>8. {"signer", "origin"} \cup sent \in SUBSET Rest
    BY <1>1, <2>1
  <2> QED
    BY <1>1, <2>1, <2>3, <2>4, <2>5, <2>6, <2>7, <2>8
<1> QED
  BY <1>2, <1>3, <1>4, <1>5

LEMMA SailsCallFits ==
  ASSUME NEW j \in Job, j.kind = "call"
  PROVE  Fits(j, SailsCall(j))
<1> DEFINE first == IF ~j.idl THEN {"connect", "api"} ELSE {}
           then == IF j.idl /\ NeedsValidatorApi(j) THEN {"connect", "api"} ELSE {}
<1>1. j.idl \in BOOLEAN /\ NeedsValidatorApi(j) \in BOOLEAN
  BY DEF Job, NeedsValidatorApi, EthereumOnlySubmit
<1>2. PICK steps \in SUBSET (AllSteps \ {"connect", "api", "ceremony", "programId"}) :
           /\ Part(Called(j), steps)
           /\ steps \cap ApiSteps # {} => NeedsValidatorApi(j)
           /\ Preview(j) => steps \subseteq Preparing \cup {"output"}
  BY CalledPart
<1>3. SailsCall(j) = ((If(~j.idl, Api) \o <<"idl">>) \o If(j.idl /\ NeedsValidatorApi(j), Api)) \o Called(j)
  BY DEF SailsCall, Called, Submitted
<1>4. /\ {"connect", "api", "idl"} \subseteq Preparing /\ Preparing \subseteq AllSteps
      /\ {"connect", "api", "idl"} \cap ApiSteps = {}
  BY DEF AllSteps, Preparing, Harmless, Sending, Awaiting, ApiSteps
<1>5. /\ Part(If(~j.idl, Api), first) /\ first \subseteq {"connect", "api"}
      /\ Part(If(j.idl /\ NeedsValidatorApi(j), Api), then) /\ then \subseteq {"connect", "api"}
      /\ first = {} \/ then = {}
      /\ Part(<<"idl">>, {"idl"})
  BY <1>1, <1>4, ApiPart, IfPart, OneStep
<1>6. /\ NeedsValidatorApi(j) => "api" \in first \cup then
      /\ EthereumOnly(j) => first = {} /\ then = {}
  BY <1>1 DEF EthereumOnly, EthereumOnlySubmit, NeedsValidatorApi
<1> HIDE DEF first, then
<1>7. Part(If(~j.idl, Api) \o <<"idl">>, first \cup {"idl"})
  BY <1>4, <1>5, Prepared
<1>8. Part((If(~j.idl, Api) \o <<"idl">>) \o If(j.idl /\ NeedsValidatorApi(j), Api), (first \cup {"idl"}) \cup then)
  <2>1. CASE then = {}
    BY <1>4, <1>5, <1>7, <2>1, Prepared
  <2>2. CASE first = {}
    BY <1>4, <1>5, <1>7, <2>2, Prepared
  <2> QED
    BY <1>5, <2>1, <2>2
<1>9. Part(((If(~j.idl, Api) \o <<"idl">>) \o If(j.idl /\ NeedsValidatorApi(j), Api)) \o Called(j),
           ((first \cup {"idl"}) \cup then) \cup steps)
  <2>1. (first \cup {"idl"}) \cup then \subseteq Preparing /\ steps \subseteq AllSteps
        /\ "connect" \notin steps /\ "api" \notin steps
    BY <1>2, <1>4, <1>5
  <2> QED
    BY <1>2, <1>8, <2>1, Prepared
<1>10. Part(SailsCall(j), ((first \cup {"idl"}) \cup then) \cup steps)
  BY <1>3, <1>9
<1>11. Suits(j, ((first \cup {"idl"}) \cup then) \cup steps)
  <2>1. {"ceremony", "programId"} \cap Preparing = {}
    BY DEF AllSteps, Preparing, Harmless, Sending, Awaiting
  <2> QED
    BY <1>2, <1>4, <1>5, <1>6, <2>1 DEF Suits
<1> QED
  BY <1>10, <1>11 DEF Part, Fits

\* Every command line's plan keeps the order, and takes no step its command line excludes.
LEMMA PlanFits ==
  ASSUME NEW j \in Job
  PROVE  Fits(j, Plan(j))
<1>1. j.kind \in Kinds
  BY DEF Job
<1> QED
  BY <1>1, BalanceFits, ProgramInfoFits, ProgramListFits, StateReadFits, DiscoverFits, TokenBalanceFits,
     TopUpFits, RecoverFits, SessionFits, EthereumFits, MessageSendFits, UploadFits, DeployFits, SailsCallFits
     DEF Plan, Kinds
-----------------------------------------------------------------------------
(* What a step leaves                                                      *)

LEMMA NothingLeft == StepsOf(<<>>) = {} /\ Ordered(<<>>) /\ <<>> \in Plans
  BY EmptyPart DEF Part

\* The step that is next, and the rest, which may follow it.
LEMMA HeadAndRest ==
  ASSUME NEW plan \in Plans, Ordered(plan), plan # <<>>
  PROVE  /\ Head(plan) \in AllSteps /\ Tail(plan) \in Plans /\ Ordered(Tail(plan))
         /\ StepsOf(plan) = {Head(plan)} \cup StepsOf(Tail(plan))
         /\ Before(Head(plan), StepsOf(Tail(plan)))
<1>1. /\ Head(plan) \in AllSteps /\ Tail(plan) \in Plans /\ Len(plan) \in Nat \ {0} /\ Head(plan) = plan[1]
      /\ Len(Tail(plan)) = Len(plan) - 1 /\ \A i \in 1 .. Len(Tail(plan)) : Tail(plan)[i] = plan[i + 1]
  BY HeadTailProperties, LenProperties, EmptySeq DEF Plans
<1>2. \A i \in 1 .. Len(Tail(plan)) : i + 1 \in 1 .. Len(plan) /\ 1 < i + 1
  BY <1>1
<1>3. Ordered(Tail(plan))
  <2> SUFFICES ASSUME NEW i \in 1 .. Len(Tail(plan)), NEW k \in 1 .. Len(Tail(plan)), i < k
               PROVE  MayFollow(Tail(plan)[i], Tail(plan)[k])
    BY DEF Ordered
  <2>1. i + 1 < k + 1
    OBVIOUS
  <2> QED
    BY <1>1, <1>2, <2>1 DEF Ordered
<1>4. Before(Head(plan), StepsOf(Tail(plan)))
  <2> SUFFICES ASSUME NEW i \in 1 .. Len(Tail(plan))
               PROVE  MayFollow(plan[1], plan[i + 1])
    BY <1>1 DEF Before, StepsOf
  <2>1. 1 \in 1 .. Len(plan)
    BY <1>1
  <2> QED
    BY <1>2, <2>1 DEF Ordered
<1>5. StepsOf(plan) = {Head(plan)} \cup StepsOf(Tail(plan))
  <2>1. ASSUME NEW i \in 1 .. Len(plan)
        PROVE  plan[i] \in {Head(plan)} \cup StepsOf(Tail(plan))
    <3>1. CASE i = 1
      BY <1>1, <3>1
    <3>2. CASE i # 1
      <4>1. i - 1 \in 1 .. Len(Tail(plan)) /\ (i - 1) + 1 = i
        BY <1>1, <3>2
      <4>2. plan[i] = Tail(plan)[i - 1]
        BY <1>1, <4>1
      <4> QED
        BY <4>1, <4>2 DEF StepsOf
    <3> QED
      BY <3>1, <3>2
  <2>2. ASSUME NEW i \in 1 .. Len(Tail(plan))
        PROVE  Tail(plan)[i] \in StepsOf(plan)
    BY <1>1, <1>2 DEF StepsOf
  <2>3. Head(plan) \in StepsOf(plan)
    <3>1. 1 \in 1 .. Len(plan)
      BY <1>1
    <3> QED
      BY <1>1, <3>1 DEF StepsOf
  <2> QED
    BY <2>1, <2>2, <2>3 DEF StepsOf
<1> QED
  BY <1>1, <1>3, <1>4, <1>5

\* A step is done and the plan goes on.
LEMMA PlanPasses ==
  ASSUME TypeInv, PlanInv, cmd.plan # <<>>,
         cmd'.plan = Tail(cmd.plan), cmd'.job = cmd.job, cmd'.result = cmd.result, UNCHANGED conn,
         Head(cmd.plan) # "connect", Head(cmd.plan) = "api" => conn.result = "ready",
         Preview(cmd.job) => cmd'.tx = "none" /\ cmd'.init = "none",
         cmd'.address => cmd.job.kind \in {"upload", "deploy"}
  PROVE  PlanInv'
<1>1. /\ cmd.plan \in Plans /\ Ordered(cmd.plan)
      /\ Ordered(Tail(cmd.plan)) /\ StepsOf(cmd.plan) = {Head(cmd.plan)} \cup StepsOf(Tail(cmd.plan))
  BY HeadAndRest DEF TypeInv, CommandRecords, PlanInv
<1>2. cmd.result = ""
  BY DEF PlanInv
<1>3. Preview(cmd'.job) = Preview(cmd.job) /\ EthereumOnly(cmd'.job) = EthereumOnly(cmd.job)
  BY DEF Preview, EthereumOnly, EthereumOnlySubmit
<1> QED
  BY <1>1, <1>2, <1>3 DEF PlanInv

\* The command gives up, or is done.
LEMMA PlanEnds ==
  ASSUME PlanInv, cmd'.plan = <<>>, cmd'.job = cmd.job, conn'.ws = conn.ws,
         Preview(cmd.job) => cmd'.tx = "none" /\ cmd'.init = "none", cmd'.address = cmd.address
  PROVE  PlanInv'
<1>1. Preview(cmd'.job) = Preview(cmd.job) /\ EthereumOnly(cmd'.job) = EthereumOnly(cmd.job)
  BY DEF Preview, EthereumOnly, EthereumOnlySubmit
<1> QED
  BY <1>1, NothingLeft DEF PlanInv

\* The plan is what it was, and so is the command but for its transaction.
LEMMA PlanWaits ==
  ASSUME PlanInv, cmd'.plan = cmd.plan, cmd'.job = cmd.job, cmd'.result = cmd.result, cmd'.address = cmd.address,
         conn.result = "ready" => conn'.result = "ready",
         conn'.result # "none" => "connect" \notin StepsOf(cmd.plan),
         EthereumOnly(cmd.job) => conn'.ws = "none",
         Preview(cmd.job) => cmd'.tx = "none" /\ cmd'.init = "none"
  PROVE  PlanInv'
<1>1. Preview(cmd'.job) = Preview(cmd.job) /\ EthereumOnly(cmd'.job) = EthereumOnly(cmd.job)
  BY DEF Preview, EthereumOnly, EthereumOnlySubmit
<1> QED
  BY <1>1 DEF PlanInv

\* What is known of the phase of the next step.
LEMMA NextPhase ==
  ASSUME TypeInv, PlanInv, ReportInv, cmd.plan # <<>>
  PROVE  LET next == Head(cmd.plan) IN
         /\ next \in StepsOf(cmd.plan) /\ cmd.result = "" /\ cmd.initStatus # "failed"
         /\ cmd.status \in {"success", "reverted"} => Phase[next] > 3
         /\ cmd.status \in {"submitted", "recovered"} => Phase[next] > 2
         /\ cmd.tx # "none" => Phase[next] > 1
         /\ cmd.address => Phase[next] > 4
<1>1. Head(cmd.plan) \in StepsOf(cmd.plan)
  BY HeadAndRest DEF TypeInv, CommandRecords, PlanInv
<1> QED
  BY <1>1 DEF PlanInv, ReportInv, Beyond

LEMMA PassedIs ==
  ASSUME TypeInv, PlanInv, cmd.plan # <<>>
  PROVE  /\ Passed(cmd) \in CommandRecords /\ Passed(cmd).plan = Tail(cmd.plan) /\ Passed(cmd).job = cmd.job
         /\ Passed(cmd).tx = cmd.tx /\ Passed(cmd).init = cmd.init /\ Passed(cmd).address = cmd.address
         /\ Passed(cmd).reported = cmd.reported /\ Passed(cmd).shuttingDown = cmd.shuttingDown
         /\ Passed(cmd).status = cmd.status /\ Passed(cmd).initStatus = cmd.initStatus
         /\ Passed(cmd).result = cmd.result
<1>1. Tail(cmd.plan) \in Plans
  BY HeadAndRest DEF TypeInv, CommandRecords, PlanInv
<1> QED
  BY <1>1 DEF Passed, TypeInv, CommandRecords

LEMMA EndedIs ==
  ASSUME TypeInv, NEW result \in Outcomes
  PROVE  /\ Ended(cmd, result) \in CommandRecords /\ Ended(cmd, result).plan = <<>> /\ Ended(cmd, result).job = cmd.job
         /\ Ended(cmd, result).tx = cmd.tx /\ Ended(cmd, result).init = cmd.init
         /\ Ended(cmd, result).address = cmd.address /\ Ended(cmd, result).reported = cmd.reported
         /\ Ended(cmd, result).shuttingDown = cmd.shuttingDown /\ Ended(cmd, result).status = cmd.status
         /\ Ended(cmd, result).initStatus = cmd.initStatus /\ Ended(cmd, result).result = result
  BY NothingLeft DEF Ended, TypeInv, CommandRecords

\* The phases of what follows the next step.
LEMMA RestBeyond ==
  ASSUME TypeInv, PlanInv, cmd.plan # <<>>
  PROVE  LET next == Head(cmd.plan) IN
         /\ next \in AllSteps
         /\ \A s \in StepsOf(Tail(cmd.plan)) :
              /\ s \in StepsOf(cmd.plan) /\ Phase[s] \in 1 .. 6 /\ Phase[s] >= Phase[next]
              /\ next \notin Preparing \cup {"request"} => Phase[s] > Phase[next]
              /\ next = "ceremony" => Phase[s] > 4
<1>1. /\ Head(cmd.plan) \in AllSteps /\ Tail(cmd.plan) \in Plans
      /\ StepsOf(cmd.plan) = {Head(cmd.plan)} \cup StepsOf(Tail(cmd.plan))
      /\ Before(Head(cmd.plan), StepsOf(Tail(cmd.plan)))
  BY HeadAndRest DEF TypeInv, CommandRecords, PlanInv
<1>2. \A s \in StepsOf(Tail(cmd.plan)) : s \in AllSteps
  BY <1>1, LenProperties, ElementOfSeq DEF StepsOf, Plans
<1>3. ASSUME NEW s \in StepsOf(Tail(cmd.plan))
      PROVE  MayFollow(Head(cmd.plan), s) /\ Phase[s] \in 1 .. 6 /\ Phase[Head(cmd.plan)] \in 1 .. 6
  BY <1>1, <1>2, PhaseRange DEF Before
<1>4. Phase["init"] > 4 /\ Phase["output"] > 4
  BY PhaseOf
<1> QED
  BY <1>1, <1>3, <1>4 DEF MayFollow

\* A step that is done and leaves the transaction as it is.
LEMMA ReportPasses ==
  ASSUME TypeInv, PlanInv, ReportInv, cmd.plan # <<>>, cmd' = Passed(cmd)
  PROVE  ReportInv'
<1>1. cmd.result = "" /\ \A s \in StepsOf(Tail(cmd.plan)) : s \in StepsOf(cmd.plan)
  BY RestBeyond DEF PlanInv
<1> QED
  BY <1>1, PassedIs DEF ReportInv, Beyond

LEMMA StepPassesKeeps == ASSUME IInv, StepPasses PROVE IInv'
<1>1. /\ TypeInv /\ PlanInv /\ ReportInv /\ ConnFits(conn) /\ cmd.plan # <<>> /\ cmd' = Passed(cmd) /\ UNCHANGED conn
      /\ Head(cmd.plan) \in Harmless
  BY DEF IInv, StepPasses, DoingOneOf
<1>2. TypeInv'
  BY <1>1, PassedIs DEF TypeInv
<1>3. PlanInv'
  <2>1. Head(cmd.plan) # "connect" /\ Head(cmd.plan) # "api"
    BY <1>1 DEF Harmless
  <2>2. /\ cmd'.plan = Tail(cmd.plan) /\ cmd'.job = cmd.job /\ cmd'.result = cmd.result
        /\ cmd'.tx = cmd.tx /\ cmd'.init = cmd.init /\ cmd'.address = cmd.address
    BY <1>1, PassedIs
  <2>3. /\ Preview(cmd.job) => cmd.tx = "none" /\ cmd.init = "none"
        /\ cmd.address => cmd.job.kind \in {"upload", "deploy"}
    BY <1>1 DEF PlanInv
  <2> QED
    BY <1>1, <2>1, <2>2, <2>3, PlanPasses
<1>4. ReportInv'
  BY <1>1, ReportPasses
<1> QED
  BY <1>1, <1>2, <1>3, <1>4 DEF IInv

\* A step that is done and changes what is known of the transaction, the init or the program.
LEMMA StepKeeps ==
  ASSUME IInv, cmd.plan # <<>>, Head(cmd.plan) \notin Preparing \cup {"output"}, UNCHANGED conn,
         cmd' \in CommandRecords, cmd'.plan = Tail(cmd.plan), cmd'.job = cmd.job, cmd'.result = cmd.result,
         ReportInv', cmd'.address => cmd.address \/ Head(cmd.plan) \in {"ceremony", "programId"}
  PROVE  IInv'
<1>1. TypeInv /\ PlanInv /\ ConnFits(conn)
  BY DEF IInv
<1>2. Head(cmd.plan) # "connect" /\ Head(cmd.plan) # "api"
  BY DEF Preparing
<1>3. Head(cmd.plan) \in StepsOf(cmd.plan)
  <2>1. cmd.plan \in Plans /\ Ordered(cmd.plan)
    BY <1>1 DEF PlanInv, TypeInv, CommandRecords
  <2>2. StepsOf(cmd.plan) = {Head(cmd.plan)} \cup StepsOf(Tail(cmd.plan))
    BY <2>1, HeadAndRest
  <2> QED
    BY <2>2
<1>4. ~Preview(cmd.job) /\ (cmd'.address => cmd.job.kind \in {"upload", "deploy"})
  BY <1>1, <1>3 DEF PlanInv
<1>5. PlanInv'
  BY <1>1, <1>2, <1>4, PlanPasses
<1>6. TypeInv'
  BY <1>1 DEF TypeInv
<1> QED
  BY <1>1, <1>5, <1>6 DEF IInv

\* What follows the next step is beyond every phase that has been left.
Later(n) == \A s \in StepsOf(Tail(cmd.plan)) : Phase[s] > n

LEMMA RestPhase ==
  ASSUME TypeInv, PlanInv, cmd.plan # <<>>
  PROVE  LET next == Head(cmd.plan) IN
         /\ next \in {"send", "inject", "exchange"} => Later(1) /\ Later(2)
         /\ next = "request" => Later(1)
         /\ next \in Awaiting => Later(1) /\ Later(2) /\ Later(3)
         /\ next \in {"ceremony", "programId", "init"} => Later(1) /\ Later(2) /\ Later(3) /\ Later(4)
<1>1. ASSUME NEW s \in StepsOf(Tail(cmd.plan))
      PROVE  /\ Phase[s] \in Int /\ Phase[Head(cmd.plan)] \in Int /\ Phase[s] >= Phase[Head(cmd.plan)]
             /\ Head(cmd.plan) \notin Preparing \cup {"request"} => Phase[s] > Phase[Head(cmd.plan)]
             /\ Head(cmd.plan) = "ceremony" => Phase[s] > 4
  BY RestBeyond, PhaseRange
<1>2. CASE Head(cmd.plan) \in {"send", "inject", "exchange"}
  <2>1. Phase[Head(cmd.plan)] = 2 /\ Head(cmd.plan) \notin Preparing \cup {"request"}
    BY <1>2, PhaseOf DEF Preparing, Harmless
  <2> QED
    BY <1>1, <1>2, <2>1 DEF Later, Awaiting
<1>3. CASE Head(cmd.plan) = "request"
  <2>1. Phase[Head(cmd.plan)] = 2
    BY <1>3, PhaseOf
  <2> QED
    BY <1>1, <1>3, <2>1 DEF Later, Awaiting
<1>4. CASE Head(cmd.plan) \in Awaiting
  <2>1. Phase[Head(cmd.plan)] = 3 /\ Head(cmd.plan) \notin Preparing \cup {"request"}
    BY <1>4, PhaseOf DEF Preparing, Harmless, Awaiting
  <2> QED
    BY <1>1, <1>4, <2>1 DEF Later, Awaiting
<1>5. CASE Head(cmd.plan) = "ceremony"
  <2> QED
    BY <1>1, <1>5 DEF Later, Awaiting
<1>6. CASE Head(cmd.plan) \in {"programId", "init"}
  <2>1. Phase[Head(cmd.plan)] \in {4, 5} /\ Head(cmd.plan) \notin Preparing \cup {"request"}
    BY <1>6, PhaseOf DEF Preparing, Harmless
  <2> QED
    BY <1>1, <1>6, <2>1 DEF Later, Awaiting
<1> QED
  BY <1>2, <1>3, <1>4, <1>5, <1>6

\* What is not yet so while a step of an earlier phase is next.
LEMMA NotYet ==
  ASSUME TypeInv, PlanInv, ReportInv, cmd.plan # <<>>
  PROVE  LET next == Head(cmd.plan) IN
         /\ cmd.result = "" /\ cmd.initStatus # "failed"
         /\ next \in Preparing => cmd.tx = "none"
         /\ next \in Preparing \cup Sending => cmd.status \notin {"submitted", "recovered", "success", "reverted"}
         /\ next \in Preparing \cup Sending \cup Awaiting => cmd.status \notin {"success", "reverted"}
         /\ next \in Preparing \cup Sending \cup Awaiting \cup {"programId"} => ~cmd.address
<1>1. /\ cmd.result = "" /\ cmd.initStatus # "failed"
      /\ cmd.status \in {"success", "reverted"} => Phase[Head(cmd.plan)] > 3
      /\ cmd.status \in {"submitted", "recovered"} => Phase[Head(cmd.plan)] > 2
      /\ cmd.tx # "none" => Phase[Head(cmd.plan)] > 1
      /\ cmd.address => Phase[Head(cmd.plan)] > 4
  BY NextPhase
<1>2. ~(1 > 1) /\ ~(1 > 2) /\ ~(1 > 3) /\ ~(1 > 4) /\ ~(2 > 2) /\ ~(2 > 3) /\ ~(2 > 4) /\ ~(3 > 3) /\ ~(3 > 4) /\ ~(4 > 4)
  OBVIOUS
<1>3. CASE Head(cmd.plan) \in Preparing
  <2>1. Phase[Head(cmd.plan)] = 1
    BY <1>3, PhaseIs
  <2> QED
    BY <1>1, <1>2, <2>1
<1>4. CASE Head(cmd.plan) \in Sending
  <2>1. Phase[Head(cmd.plan)] = 2 /\ Head(cmd.plan) \notin Preparing
    BY <1>4, PhaseIs DEF Preparing, Harmless, Sending
  <2> QED
    BY <1>1, <1>2, <2>1
<1>5. CASE Head(cmd.plan) \in Awaiting
  <2>1. Phase[Head(cmd.plan)] = 3 /\ Head(cmd.plan) \notin Preparing \cup Sending
    BY <1>5, PhaseIs DEF Preparing, Harmless, Sending, Awaiting
  <2> QED
    BY <1>1, <1>2, <2>1
<1>6. CASE Head(cmd.plan) = "programId"
  <2>1. Phase[Head(cmd.plan)] = 4 /\ Head(cmd.plan) \notin Preparing \cup Sending \cup Awaiting
    BY <1>6, PhaseIs DEF Preparing, Harmless, Sending, Awaiting
  <2> QED
    BY <1>1, <1>2, <2>1
<1> QED
  BY <1>1, <1>3, <1>4, <1>5, <1>6

LEMMA SendKeeps == ASSUME IInv, Send \/ Inject PROVE IInv'
<1>1. /\ TypeInv /\ PlanInv /\ ReportInv /\ cmd.plan # <<>> /\ UNCHANGED conn
      /\ Head(cmd.plan) \in {"send", "inject"}
  BY DEF IInv, Send, Inject, Doing
<1>2. cmd' = [Passed(cmd) EXCEPT !.tx = "pool", !.status = "submitted"]
  BY DEF Send, Inject
<1>3. /\ cmd' \in CommandRecords /\ cmd'.plan = Tail(cmd.plan) /\ cmd'.job = cmd.job /\ cmd'.result = cmd.result
      /\ cmd'.tx = "pool" /\ cmd'.status = "submitted"
      /\ cmd'.init = cmd.init /\ cmd'.address = cmd.address /\ cmd'.reported = cmd.reported /\ cmd'.shuttingDown = cmd.shuttingDown
      /\ cmd'.initStatus = cmd.initStatus
  <2> DEFINE c == Passed(cmd)
  <2>1. cmd' = [c EXCEPT !.tx = "pool", !.status = "submitted"]
    BY <1>1, <1>2
  <2>2. /\ c \in CommandRecords /\ c.plan = Tail(cmd.plan) /\ c.job = cmd.job /\ c.result = cmd.result
        /\ c.tx = cmd.tx /\ c.init = cmd.init /\ c.address = cmd.address /\ c.reported = cmd.reported
        /\ c.shuttingDown = cmd.shuttingDown /\ c.status = cmd.status /\ c.initStatus = cmd.initStatus
    BY <1>1, <1>2, PassedIs
  <2> HIDE DEF c
  <2> QED
    BY <2>1, <2>2 DEF CommandRecords
<1>4. /\ Phase[Head(cmd.plan)] = 2 /\ Head(cmd.plan) \notin Preparing \cup {"output"}
      /\ cmd.result = "" /\ Head(cmd.plan) \notin Preparing \cup {"request"}
  BY <1>1, PhaseOf DEF Preparing, Harmless, PlanInv
<1>5. Later(1) /\ Later(2) /\ StepsOf(Tail(cmd.plan)) \subseteq StepsOf(cmd.plan)
  <2>1. Later(1)
    BY <1>1, RestPhase DEF Awaiting
  <2>2. Later(2)
    BY <1>1, RestPhase DEF Awaiting
  <2>3. StepsOf(Tail(cmd.plan)) \subseteq StepsOf(cmd.plan)
    BY <1>1, RestBeyond
  <2> QED
    BY <2>1, <2>2, <2>3
<1>6. ReportInv'
  BY <1>1, <1>3, <1>4, <1>5, NotYet DEF ReportInv, Beyond, Later, Preparing, Harmless, Sending, Awaiting
<1> QED
  BY <1>1, <1>3, <1>4, <1>6, StepKeeps

LEMMA ExchangeKeeps == ASSUME IInv, Exchange PROVE IInv'
<1>1. /\ TypeInv /\ PlanInv /\ ReportInv /\ cmd.plan # <<>> /\ UNCHANGED conn
      /\ Head(cmd.plan) = "exchange"
  BY DEF IInv, Exchange, Doing
<1>2. cmd' = [Passed(cmd) EXCEPT !.tx = "executed", !.status = "resolved"]
  BY DEF Exchange
<1>3. /\ cmd' \in CommandRecords /\ cmd'.plan = Tail(cmd.plan) /\ cmd'.job = cmd.job /\ cmd'.result = cmd.result
      /\ cmd'.tx = "executed" /\ cmd'.status = "resolved"
      /\ cmd'.init = cmd.init /\ cmd'.address = cmd.address /\ cmd'.reported = cmd.reported /\ cmd'.shuttingDown = cmd.shuttingDown
      /\ cmd'.initStatus = cmd.initStatus
  <2> DEFINE c == Passed(cmd)
  <2>1. cmd' = [c EXCEPT !.tx = "executed", !.status = "resolved"]
    BY <1>1, <1>2
  <2>2. /\ c \in CommandRecords /\ c.plan = Tail(cmd.plan) /\ c.job = cmd.job /\ c.result = cmd.result
        /\ c.tx = cmd.tx /\ c.init = cmd.init /\ c.address = cmd.address /\ c.reported = cmd.reported
        /\ c.shuttingDown = cmd.shuttingDown /\ c.status = cmd.status /\ c.initStatus = cmd.initStatus
    BY <1>1, <1>2, PassedIs
  <2> HIDE DEF c
  <2> QED
    BY <2>1, <2>2 DEF CommandRecords
<1>4. /\ Phase[Head(cmd.plan)] = 2 /\ Head(cmd.plan) \notin Preparing \cup {"output"}
      /\ cmd.result = "" /\ Head(cmd.plan) \notin Preparing \cup {"request"}
  BY <1>1, PhaseOf DEF Preparing, Harmless, PlanInv
<1>5. Later(1) /\ StepsOf(Tail(cmd.plan)) \subseteq StepsOf(cmd.plan)
  <2>1. Later(1)
    BY <1>1, RestPhase DEF Awaiting
  <2>2. StepsOf(Tail(cmd.plan)) \subseteq StepsOf(cmd.plan)
    BY <1>1, RestBeyond
  <2> QED
    BY <2>1, <2>2
<1>6. ReportInv'
  BY <1>1, <1>3, <1>4, <1>5, NotYet DEF ReportInv, Beyond, Later, Preparing, Harmless, Sending, Awaiting
<1> QED
  BY <1>1, <1>3, <1>4, <1>6, StepKeeps

LEMMA CeremonyKeeps == ASSUME IInv, Ceremony PROVE IInv'
<1>1. /\ TypeInv /\ PlanInv /\ ReportInv /\ cmd.plan # <<>> /\ UNCHANGED conn
      /\ Head(cmd.plan) = "ceremony"
  BY DEF IInv, Ceremony, Doing
<1>2. cmd' = [Passed(cmd) EXCEPT !.tx = "success", !.address = TRUE]
  BY DEF Ceremony
<1>3. /\ cmd' \in CommandRecords /\ cmd'.plan = Tail(cmd.plan) /\ cmd'.job = cmd.job /\ cmd'.result = cmd.result
      /\ cmd'.tx = "success" /\ cmd'.address = TRUE
      /\ cmd'.init = cmd.init /\ cmd'.reported = cmd.reported /\ cmd'.shuttingDown = cmd.shuttingDown /\ cmd'.status = cmd.status
      /\ cmd'.initStatus = cmd.initStatus
  <2> DEFINE c == Passed(cmd)
  <2>1. cmd' = [c EXCEPT !.tx = "success", !.address = TRUE]
    BY <1>1, <1>2
  <2>2. /\ c \in CommandRecords /\ c.plan = Tail(cmd.plan) /\ c.job = cmd.job /\ c.result = cmd.result
        /\ c.tx = cmd.tx /\ c.init = cmd.init /\ c.address = cmd.address /\ c.reported = cmd.reported
        /\ c.shuttingDown = cmd.shuttingDown /\ c.status = cmd.status /\ c.initStatus = cmd.initStatus
    BY <1>1, <1>2, PassedIs
  <2> HIDE DEF c
  <2> QED
    BY <2>1, <2>2 DEF CommandRecords
<1>4. /\ Phase[Head(cmd.plan)] = 2 /\ Head(cmd.plan) \notin Preparing \cup {"output"}
      /\ cmd.result = "" /\ Head(cmd.plan) \notin Preparing \cup {"request"}
  BY <1>1, PhaseOf DEF Preparing, Harmless, PlanInv
<1>5. Later(1) /\ Later(2) /\ Later(3) /\ Later(4) /\ StepsOf(Tail(cmd.plan)) \subseteq StepsOf(cmd.plan)
  <2>1. Later(1)
    BY <1>1, RestPhase DEF Awaiting
  <2>2. Later(2)
    BY <1>1, RestPhase DEF Awaiting
  <2>3. Later(3)
    BY <1>1, RestPhase DEF Awaiting
  <2>4. Later(4)
    BY <1>1, RestPhase DEF Awaiting
  <2>5. StepsOf(Tail(cmd.plan)) \subseteq StepsOf(cmd.plan)
    BY <1>1, RestBeyond
  <2> QED
    BY <2>1, <2>2, <2>3, <2>4, <2>5
<1>6. ReportInv'
  BY <1>1, <1>3, <1>4, <1>5, NotYet DEF ReportInv, Beyond, Later, Preparing, Harmless, Sending, Awaiting
<1> QED
  BY <1>1, <1>3, <1>4, <1>6, StepKeeps

LEMMA ProgramIdKeeps == ASSUME IInv, ProgramId PROVE IInv'
<1>1. /\ TypeInv /\ PlanInv /\ ReportInv /\ cmd.plan # <<>> /\ UNCHANGED conn
      /\ Head(cmd.plan) = "programId"
  BY DEF IInv, ProgramId, Doing
<1>2. cmd' = [Passed(cmd) EXCEPT !.address = TRUE]
  BY DEF ProgramId
<1>3. /\ cmd' \in CommandRecords /\ cmd'.plan = Tail(cmd.plan) /\ cmd'.job = cmd.job /\ cmd'.result = cmd.result
      /\ cmd'.address = TRUE
      /\ cmd'.tx = cmd.tx /\ cmd'.init = cmd.init /\ cmd'.reported = cmd.reported /\ cmd'.shuttingDown = cmd.shuttingDown
      /\ cmd'.status = cmd.status /\ cmd'.initStatus = cmd.initStatus
  <2> DEFINE c == Passed(cmd)
  <2>1. cmd' = [c EXCEPT !.address = TRUE]
    BY <1>1, <1>2
  <2>2. /\ c \in CommandRecords /\ c.plan = Tail(cmd.plan) /\ c.job = cmd.job /\ c.result = cmd.result
        /\ c.tx = cmd.tx /\ c.init = cmd.init /\ c.address = cmd.address /\ c.reported = cmd.reported
        /\ c.shuttingDown = cmd.shuttingDown /\ c.status = cmd.status /\ c.initStatus = cmd.initStatus
    BY <1>1, <1>2, PassedIs
  <2> HIDE DEF c
  <2> QED
    BY <2>1, <2>2 DEF CommandRecords
<1>4. /\ Phase[Head(cmd.plan)] = 4 /\ Head(cmd.plan) \notin Preparing \cup {"output"}
      /\ cmd.result = "" /\ Head(cmd.plan) \notin Preparing \cup {"request"}
  BY <1>1, PhaseOf DEF Preparing, Harmless, PlanInv
<1>5. Later(1) /\ Later(2) /\ Later(3) /\ Later(4) /\ StepsOf(Tail(cmd.plan)) \subseteq StepsOf(cmd.plan)
  <2>1. Later(1)
    BY <1>1, RestPhase DEF Awaiting
  <2>2. Later(2)
    BY <1>1, RestPhase DEF Awaiting
  <2>3. Later(3)
    BY <1>1, RestPhase DEF Awaiting
  <2>4. Later(4)
    BY <1>1, RestPhase DEF Awaiting
  <2>5. StepsOf(Tail(cmd.plan)) \subseteq StepsOf(cmd.plan)
    BY <1>1, RestBeyond
  <2> QED
    BY <2>1, <2>2, <2>3, <2>4, <2>5
<1>6. ReportInv'
  BY <1>1, <1>3, <1>4, <1>5, NotYet DEF ReportInv, Beyond, Later, Preparing, Harmless, Sending, Awaiting
<1> QED
  BY <1>1, <1>3, <1>4, <1>6, StepKeeps

LEMMA InitRepliesKeeps == ASSUME IInv, InitReplies PROVE IInv'
<1>1. /\ TypeInv /\ PlanInv /\ ReportInv /\ cmd.plan # <<>> /\ UNCHANGED conn
      /\ Head(cmd.plan) = "init"
  BY DEF IInv, InitReplies, Doing
<1>2. PICK init \in {"executed", "refused"} :
        cmd' = [Passed(cmd) EXCEPT !.init = init, !.initStatus = "success"]
  BY DEF InitReplies
<1>3. /\ cmd' \in CommandRecords /\ cmd'.plan = Tail(cmd.plan) /\ cmd'.job = cmd.job /\ cmd'.result = cmd.result
      /\ cmd'.init = init /\ cmd'.initStatus = "success"
      /\ cmd'.tx = cmd.tx /\ cmd'.address = cmd.address /\ cmd'.reported = cmd.reported /\ cmd'.shuttingDown = cmd.shuttingDown
      /\ cmd'.status = cmd.status
  <2> DEFINE c == Passed(cmd)
  <2>1. cmd' = [c EXCEPT !.init = init, !.initStatus = "success"]
    BY <1>1, <1>2
  <2>2. /\ c \in CommandRecords /\ c.plan = Tail(cmd.plan) /\ c.job = cmd.job /\ c.result = cmd.result
        /\ c.tx = cmd.tx /\ c.init = cmd.init /\ c.address = cmd.address /\ c.reported = cmd.reported
        /\ c.shuttingDown = cmd.shuttingDown /\ c.status = cmd.status /\ c.initStatus = cmd.initStatus
    BY <1>1, <1>2, PassedIs
  <2> HIDE DEF c
  <2> QED
    BY <2>1, <2>2 DEF CommandRecords
<1>4. /\ Phase[Head(cmd.plan)] = 5 /\ Head(cmd.plan) \notin Preparing \cup {"output"}
      /\ cmd.result = "" /\ Head(cmd.plan) \notin Preparing \cup {"request"}
  BY <1>1, PhaseOf DEF Preparing, Harmless, PlanInv
<1>5. Later(1) /\ Later(2) /\ Later(3) /\ Later(4) /\ StepsOf(Tail(cmd.plan)) \subseteq StepsOf(cmd.plan)
  <2>1. Later(1)
    BY <1>1, RestPhase DEF Awaiting
  <2>2. Later(2)
    BY <1>1, RestPhase DEF Awaiting
  <2>3. Later(3)
    BY <1>1, RestPhase DEF Awaiting
  <2>4. Later(4)
    BY <1>1, RestPhase DEF Awaiting
  <2>5. StepsOf(Tail(cmd.plan)) \subseteq StepsOf(cmd.plan)
    BY <1>1, RestBeyond
  <2> QED
    BY <2>1, <2>2, <2>3, <2>4, <2>5
<1>6. ReportInv'
  BY <1>1, <1>3, <1>4, <1>5, NotYet DEF ReportInv, Beyond, Later, Preparing, Harmless, Sending, Awaiting
<1> QED
  BY <1>1, <1>3, <1>4, <1>6, StepKeeps

LEMMA ReceiptKeeps == ASSUME IInv, Receipt PROVE IInv'
<1>1. /\ TypeInv /\ PlanInv /\ ReportInv /\ cmd.plan # <<>> /\ UNCHANGED conn
      /\ Head(cmd.plan) \in {"receipt", "mined", "waited"} /\ cmd.tx \in {"success", "reverted"}
  BY DEF IInv, Receipt, DoingOneOf
<1>2. PICK status \in {"success", "reverted", "recovered"} :
        /\ cmd' = [Passed(cmd) EXCEPT !.status = status]
        /\ status # "recovered" => status = cmd.tx
  <2>1. CASE Doing("waited")
    BY <2>1 DEF Receipt
  <2>2. CASE ~Doing("waited")
    BY <1>1, <2>2 DEF Receipt
  <2> QED
    BY <2>1, <2>2
<1>3. /\ cmd' \in CommandRecords /\ cmd'.plan = Tail(cmd.plan) /\ cmd'.job = cmd.job /\ cmd'.result = cmd.result
      /\ cmd'.status = status
      /\ cmd'.tx = cmd.tx /\ cmd'.init = cmd.init /\ cmd'.address = cmd.address /\ cmd'.reported = cmd.reported
      /\ cmd'.shuttingDown = cmd.shuttingDown /\ cmd'.initStatus = cmd.initStatus
  <2> DEFINE c == Passed(cmd)
  <2>1. cmd' = [c EXCEPT !.status = status]
    BY <1>1, <1>2
  <2>2. /\ c \in CommandRecords /\ c.plan = Tail(cmd.plan) /\ c.job = cmd.job /\ c.result = cmd.result
        /\ c.tx = cmd.tx /\ c.init = cmd.init /\ c.address = cmd.address /\ c.reported = cmd.reported
        /\ c.shuttingDown = cmd.shuttingDown /\ c.status = cmd.status /\ c.initStatus = cmd.initStatus
    BY <1>1, <1>2, PassedIs
  <2> HIDE DEF c
  <2> QED
    BY <2>1, <2>2 DEF CommandRecords
<1>4. /\ Phase[Head(cmd.plan)] = 3 /\ Head(cmd.plan) \notin Preparing \cup {"output"}
      /\ cmd.result = "" /\ Head(cmd.plan) \notin Preparing \cup {"request"}
  BY <1>1, PhaseOf DEF Preparing, Harmless, PlanInv
<1>5. Later(1) /\ Later(2) /\ Later(3) /\ StepsOf(Tail(cmd.plan)) \subseteq StepsOf(cmd.plan)
  <2>1. Later(1)
    BY <1>1, RestPhase DEF Awaiting
  <2>2. Later(2)
    BY <1>1, RestPhase DEF Awaiting
  <2>3. Later(3)
    BY <1>1, RestPhase DEF Awaiting
  <2>4. StepsOf(Tail(cmd.plan)) \subseteq StepsOf(cmd.plan)
    BY <1>1, RestBeyond
  <2> QED
    BY <2>1, <2>2, <2>3, <2>4
<1>6. ReportInv'
  BY <1>1, <1>2, <1>3, <1>4, <1>5, NotYet DEF ReportInv, Beyond, Later, Preparing, Harmless, Sending, Awaiting
<1> QED
  BY <1>1, <1>3, <1>4, <1>6, StepKeeps

\* A request leaves the transaction as it is, or has one in the pool.
LEMMA RequestKeeps == ASSUME IInv, Request PROVE IInv'
<1>1. /\ TypeInv /\ PlanInv /\ ReportInv /\ cmd.plan # <<>> /\ UNCHANGED conn
      /\ Head(cmd.plan) = "request"
  BY DEF IInv, Request, Doing
<1>2. CASE cmd' = Passed(cmd)
  <2>1. ReportInv'
    BY <1>1, <1>2, ReportPasses
  <2>2. Head(cmd.plan) \notin Preparing \cup {"output"}
    BY <1>1 DEF Preparing, Harmless
  <2> QED
    BY <1>1, <1>2, <2>1, <2>2, PassedIs, StepKeeps
<1>3. CASE cmd' = [Passed(cmd) EXCEPT !.tx = "pool"]
  <2>1. /\ cmd' \in CommandRecords /\ cmd'.plan = Tail(cmd.plan) /\ cmd'.job = cmd.job /\ cmd'.result = cmd.result
        /\ cmd'.tx = "pool"
        /\ cmd'.init = cmd.init /\ cmd'.address = cmd.address /\ cmd'.reported = cmd.reported /\ cmd'.shuttingDown = cmd.shuttingDown
        /\ cmd'.status = cmd.status /\ cmd'.initStatus = cmd.initStatus
    <3> DEFINE c == Passed(cmd)
    <3>1. cmd' = [c EXCEPT !.tx = "pool"]
      BY <1>1, <1>3
    <3>2. /\ c \in CommandRecords /\ c.plan = Tail(cmd.plan) /\ c.job = cmd.job /\ c.result = cmd.result
          /\ c.tx = cmd.tx /\ c.init = cmd.init /\ c.address = cmd.address /\ c.reported = cmd.reported
          /\ c.shuttingDown = cmd.shuttingDown /\ c.status = cmd.status /\ c.initStatus = cmd.initStatus
      BY <1>1, <1>3, PassedIs
    <3> HIDE DEF c
    <3> QED
      BY <3>1, <3>2 DEF CommandRecords
  <2>2. /\ Phase[Head(cmd.plan)] = 2 /\ Head(cmd.plan) \notin Preparing \cup {"output"} /\ cmd.result = ""
    BY <1>1, PhaseOf DEF Preparing, Harmless, PlanInv
  <2>3. Later(1) /\ StepsOf(Tail(cmd.plan)) \subseteq StepsOf(cmd.plan)
    BY <1>1, RestPhase, RestBeyond
  <2>4. ReportInv'
    BY <1>1, <2>1, <2>2, <2>3, NotYet DEF ReportInv, Beyond, Later, Preparing, Harmless, Sending, Awaiting
  <2> QED
    BY <1>1, <2>1, <2>2, <2>4, StepKeeps
<1> QED
  BY <1>2, <1>3 DEF Request

\* The command gives up, or is done.
LEMMA EndKeeps ==
  ASSUME IInv, cmd' \in CommandRecords, cmd'.plan = <<>>, cmd'.job = cmd.job, cmd'.address = cmd.address,
         Preview(cmd.job) => cmd'.tx = "none" /\ cmd'.init = "none",
         ReportInv', UNCHANGED conn
  PROVE  IInv'
<1>1. PlanInv'
  BY PlanEnds DEF IInv
<1> QED
  BY <1>1 DEF IInv, TypeInv

LEMMA StepFailsKeeps == ASSUME IInv, StepFails PROVE IInv'
<1>1. /\ TypeInv /\ PlanInv /\ ReportInv /\ cmd.plan # <<>> /\ UNCHANGED conn
      /\ Head(cmd.plan) \in Harmless
  BY DEF IInv, StepFails, DoingOneOf
<1>2. cmd' = Ended(cmd, "REFUSED")
  BY DEF StepFails
<1>3. /\ cmd' \in CommandRecords /\ cmd'.plan = <<>> /\ cmd'.job = cmd.job /\ cmd'.result = "REFUSED"
      /\ cmd'.tx = cmd.tx /\ cmd'.init = cmd.init /\ cmd'.address = cmd.address /\ cmd'.reported = cmd.reported
      /\ cmd'.shuttingDown = cmd.shuttingDown /\ cmd'.status = cmd.status /\ cmd'.initStatus = cmd.initStatus
  BY <1>1, <1>2, EndedIs DEF Outcomes
<1>4. Phase[Head(cmd.plan)] = 1
  BY <1>1, PhaseOf DEF Harmless
<1>5. ReportInv'
  <2>1. Beyond(1)' /\ Beyond(2)' /\ Beyond(3)' /\ Beyond(4)'
    BY <1>3, NothingLeft DEF Beyond
  <2> QED
    BY <1>1, <1>3, <1>4, <2>1, NotYet DEF ReportInv, Preparing, Harmless, Sending, Awaiting
<1>6. Preview(cmd.job) => cmd'.tx = "none" /\ cmd'.init = "none"
  BY <1>1, <1>3, <1>4 DEF PlanInv
<1> QED
  BY <1>3, <1>5, <1>6, <1>1, EndKeeps

LEMMA SendFailsKeeps == ASSUME IInv, SendFails PROVE IInv'
<1>1. /\ TypeInv /\ PlanInv /\ ReportInv /\ cmd.plan # <<>> /\ UNCHANGED conn
      /\ Head(cmd.plan) \in {"send", "inject", "exchange", "ceremony"}
  BY DEF IInv, SendFails, DoingOneOf
<1>2. PICK tx \in {"none", "pool"} : cmd' = [Ended(cmd, "SEND_FAILED") EXCEPT !.tx = tx]
  BY DEF SendFails
<1>3. /\ cmd' \in CommandRecords /\ cmd'.plan = <<>> /\ cmd'.job = cmd.job /\ cmd'.result = "SEND_FAILED"
      /\ cmd'.tx = tx
      /\ cmd'.init = cmd.init /\ cmd'.address = cmd.address /\ cmd'.reported = cmd.reported /\ cmd'.shuttingDown = cmd.shuttingDown
      /\ cmd'.status = cmd.status /\ cmd'.initStatus = cmd.initStatus
  <2> DEFINE c == Ended(cmd, "SEND_FAILED")
  <2>1. cmd' = [c EXCEPT !.tx = tx]
    BY <1>1, <1>2
  <2>2. /\ c \in CommandRecords /\ c.plan = <<>> /\ c.job = cmd.job /\ c.result = "SEND_FAILED"
        /\ c.tx = cmd.tx /\ c.init = cmd.init /\ c.address = cmd.address /\ c.reported = cmd.reported
        /\ c.shuttingDown = cmd.shuttingDown /\ c.status = cmd.status /\ c.initStatus = cmd.initStatus
    BY <1>1, <1>2, EndedIs DEF Outcomes
  <2> HIDE DEF c
  <2> QED
    BY <2>1, <2>2 DEF CommandRecords
<1>4. /\ Head(cmd.plan) \notin Preparing \cup {"output"}
      /\ Phase[Head(cmd.plan)] = 2 /\ ~Preview(cmd.job)
  <2>1. Head(cmd.plan) \notin Preparing \cup {"output"} /\ Phase[Head(cmd.plan)] = 2
    BY <1>1, PhaseOf DEF Preparing, Harmless
  <2> QED
    BY <1>1, <2>1, NextPhase DEF PlanInv
<1>5. ReportInv'
  <2>1. Beyond(1)' /\ Beyond(2)' /\ Beyond(3)' /\ Beyond(4)'
    BY <1>3, NothingLeft DEF Beyond
  <2> QED
    BY <1>1, <1>3, <1>4, <2>1, NotYet DEF ReportInv, Preparing, Harmless, Sending, Awaiting
<1>6. Preview(cmd.job) => cmd'.tx = "none" /\ cmd'.init = "none"
  BY <1>1, <1>3, <1>4 DEF PlanInv
<1> QED
  BY <1>3, <1>5, <1>6, <1>1, EndKeeps

LEMMA ReceiptFailsKeeps == ASSUME IInv, ReceiptFails PROVE IInv'
<1>1. /\ TypeInv /\ PlanInv /\ ReportInv /\ cmd.plan # <<>> /\ UNCHANGED conn
      /\ Head(cmd.plan) \in {"receipt", "mined", "waited"}
  BY DEF IInv, ReceiptFails, DoingOneOf
<1>2. cmd' = Ended(cmd, "RECEIPT_FAILED")
  BY DEF ReceiptFails
<1>3. /\ cmd' \in CommandRecords /\ cmd'.plan = <<>> /\ cmd'.job = cmd.job /\ cmd'.result = "RECEIPT_FAILED"
      /\ cmd'.tx = cmd.tx /\ cmd'.init = cmd.init /\ cmd'.address = cmd.address /\ cmd'.reported = cmd.reported
      /\ cmd'.shuttingDown = cmd.shuttingDown /\ cmd'.status = cmd.status /\ cmd'.initStatus = cmd.initStatus
  BY <1>1, <1>2, EndedIs DEF Outcomes
<1>4. /\ Head(cmd.plan) \notin Preparing \cup {"output"}
      /\ Phase[Head(cmd.plan)] = 3 /\ ~Preview(cmd.job)
  <2>1. Head(cmd.plan) \notin Preparing \cup {"output"} /\ Phase[Head(cmd.plan)] = 3
    BY <1>1, PhaseOf DEF Preparing, Harmless
  <2> QED
    BY <1>1, <2>1, NextPhase DEF PlanInv
<1>5. ReportInv'
  <2>1. Beyond(1)' /\ Beyond(2)' /\ Beyond(3)' /\ Beyond(4)'
    BY <1>3, NothingLeft DEF Beyond
  <2> QED
    BY <1>1, <1>3, <1>4, <2>1, NotYet DEF ReportInv, Preparing, Harmless, Sending, Awaiting
<1>6. Preview(cmd.job) => cmd'.tx = "none" /\ cmd'.init = "none"
  BY <1>1, <1>3, <1>4 DEF PlanInv
<1> QED
  BY <1>3, <1>5, <1>6, <1>1, EndKeeps

LEMMA ProgramIdFailsKeeps == ASSUME IInv, ProgramIdFails PROVE IInv'
<1>1. /\ TypeInv /\ PlanInv /\ ReportInv /\ cmd.plan # <<>> /\ UNCHANGED conn
      /\ Head(cmd.plan) = "programId"
  BY DEF IInv, ProgramIdFails, Doing
<1>2. cmd' = Ended(cmd, "PROGRAM_ID_FAILED")
  BY DEF ProgramIdFails
<1>3. /\ cmd' \in CommandRecords /\ cmd'.plan = <<>> /\ cmd'.job = cmd.job /\ cmd'.result = "PROGRAM_ID_FAILED"
      /\ cmd'.tx = cmd.tx /\ cmd'.init = cmd.init /\ cmd'.address = cmd.address /\ cmd'.reported = cmd.reported
      /\ cmd'.shuttingDown = cmd.shuttingDown /\ cmd'.status = cmd.status /\ cmd'.initStatus = cmd.initStatus
  BY <1>1, <1>2, EndedIs DEF Outcomes
<1>4. /\ Head(cmd.plan) \notin Preparing \cup {"output"}
      /\ Phase[Head(cmd.plan)] = 4 /\ ~Preview(cmd.job)
  <2>1. Head(cmd.plan) \notin Preparing \cup {"output"} /\ Phase[Head(cmd.plan)] = 4
    BY <1>1, PhaseOf DEF Preparing, Harmless
  <2> QED
    BY <1>1, <2>1, NextPhase DEF PlanInv
<1>5. ReportInv'
  <2>1. Beyond(1)' /\ Beyond(2)' /\ Beyond(3)' /\ Beyond(4)'
    BY <1>3, NothingLeft DEF Beyond
  <2> QED
    BY <1>1, <1>3, <1>4, <2>1, NotYet DEF ReportInv, Preparing, Harmless, Sending, Awaiting
<1>6. Preview(cmd.job) => cmd'.tx = "none" /\ cmd'.init = "none"
  BY <1>1, <1>3, <1>4 DEF PlanInv
<1> QED
  BY <1>3, <1>5, <1>6, <1>1, EndKeeps

LEMMA OutputKeeps == ASSUME IInv, Output PROVE IInv'
<1>1. /\ TypeInv /\ PlanInv /\ ReportInv /\ cmd.plan # <<>> /\ UNCHANGED conn
      /\ Head(cmd.plan) = "output"
  BY DEF IInv, Output, Doing
<1>2. cmd' = [Ended(cmd, "ok") EXCEPT !.reported = cmd.address]
  BY DEF Output
<1>3. /\ cmd' \in CommandRecords /\ cmd'.plan = <<>> /\ cmd'.job = cmd.job /\ cmd'.result = "ok"
      /\ cmd'.reported = cmd.address
      /\ cmd'.tx = cmd.tx /\ cmd'.init = cmd.init /\ cmd'.address = cmd.address /\ cmd'.shuttingDown = cmd.shuttingDown
      /\ cmd'.status = cmd.status /\ cmd'.initStatus = cmd.initStatus
  <2> DEFINE c == Ended(cmd, "ok")
  <2>1. cmd' = [c EXCEPT !.reported = cmd.address]
    BY <1>1, <1>2
  <2>2. /\ c \in CommandRecords /\ c.plan = <<>> /\ c.job = cmd.job /\ c.result = "ok"
        /\ c.tx = cmd.tx /\ c.init = cmd.init /\ c.address = cmd.address /\ c.reported = cmd.reported
        /\ c.shuttingDown = cmd.shuttingDown /\ c.status = cmd.status /\ c.initStatus = cmd.initStatus
    BY <1>1, <1>2, EndedIs DEF Outcomes
  <2> HIDE DEF c
  <2> QED
    BY <2>1, <2>2 DEF CommandRecords
<1>4. Phase[Head(cmd.plan)] = 6
  BY <1>1, PhaseOf
<1>5. ReportInv'
  <2>1. Beyond(1)' /\ Beyond(2)' /\ Beyond(3)' /\ Beyond(4)'
    BY <1>3, NothingLeft DEF Beyond
  <2> QED
    BY <1>1, <1>3, <1>4, <2>1, NotYet DEF ReportInv, Preparing, Harmless, Sending, Awaiting
<1>6. Preview(cmd.job) => cmd'.tx = "none" /\ cmd'.init = "none"
  BY <1>1, <1>3, <1>4 DEF PlanInv
<1> QED
  BY <1>3, <1>5, <1>6, <1>1, EndKeeps

LEMMA DecodeFailsKeeps == ASSUME IInv, DecodeFails PROVE IInv'
<1>1. /\ TypeInv /\ PlanInv /\ ReportInv /\ cmd.plan # <<>> /\ UNCHANGED conn
      /\ Head(cmd.plan) = "output" /\ cmd.job.kind = "call"
  BY DEF IInv, DecodeFails, Doing
<1>2. cmd' = Ended(cmd, "DECODE_FAILED")
  BY DEF DecodeFails
<1>3. /\ cmd' \in CommandRecords /\ cmd'.plan = <<>> /\ cmd'.job = cmd.job /\ cmd'.result = "DECODE_FAILED"
      /\ cmd'.tx = cmd.tx /\ cmd'.init = cmd.init /\ cmd'.address = cmd.address /\ cmd'.reported = cmd.reported
      /\ cmd'.shuttingDown = cmd.shuttingDown /\ cmd'.status = cmd.status /\ cmd'.initStatus = cmd.initStatus
  BY <1>1, <1>2, EndedIs DEF Outcomes
<1>4. Phase[Head(cmd.plan)] = 6 /\ ~cmd.address
  BY <1>1, PhaseOf DEF PlanInv
<1>5. ReportInv'
  <2>1. Beyond(1)' /\ Beyond(2)' /\ Beyond(3)' /\ Beyond(4)'
    BY <1>3, NothingLeft DEF Beyond
  <2> QED
    BY <1>1, <1>3, <1>4, <2>1, NotYet DEF ReportInv, Preparing, Harmless, Sending, Awaiting
<1>6. Preview(cmd.job) => cmd'.tx = "none" /\ cmd'.init = "none"
  BY <1>1, <1>3, <1>4 DEF PlanInv
<1> QED
  BY <1>3, <1>5, <1>6, <1>1, EndKeeps

LEMMA InitFailsKeeps == ASSUME IInv, InitFails PROVE IInv'
<1>1. /\ TypeInv /\ PlanInv /\ ReportInv /\ cmd.plan # <<>> /\ UNCHANGED conn
      /\ Head(cmd.plan) = "init"
  BY DEF IInv, InitFails, Doing
<1>2. PICK init \in {"none", "executed", "refused"} : cmd' = [FailedInit(cmd) EXCEPT !.init = init]
  BY DEF InitFails
<1>3. /\ cmd' \in CommandRecords /\ cmd'.plan = <<>> /\ cmd'.job = cmd.job /\ cmd'.result = "VARA_ETH_INIT_FAILED"
      /\ cmd'.initStatus = "failed" /\ cmd'.reported = TRUE
      /\ cmd'.tx = cmd.tx /\ cmd'.address = cmd.address /\ cmd'.status = cmd.status
  <2> DEFINE c == Ended(cmd, "VARA_ETH_INIT_FAILED")
             d == [c EXCEPT !.initStatus = "failed", !.reported = TRUE]
  <2>1. cmd' = [d EXCEPT !.init = init]
    BY <1>2 DEF FailedInit
  <2>2. /\ c \in CommandRecords /\ c.plan = <<>> /\ c.job = cmd.job /\ c.result = "VARA_ETH_INIT_FAILED"
        /\ c.tx = cmd.tx /\ c.address = cmd.address /\ c.status = cmd.status
    BY <1>1, EndedIs DEF Outcomes
  <2> HIDE DEF c
  <2>3. /\ d \in CommandRecords /\ d.plan = <<>> /\ d.job = cmd.job /\ d.result = "VARA_ETH_INIT_FAILED"
        /\ d.initStatus = "failed" /\ d.reported = TRUE
        /\ d.tx = cmd.tx /\ d.address = cmd.address /\ d.status = cmd.status
    BY <2>2 DEF CommandRecords
  <2> HIDE DEF d
  <2> QED
    BY <2>1, <2>3 DEF CommandRecords
<1>4. Head(cmd.plan) \in StepsOf(cmd.plan) /\ ~Preview(cmd.job)
  <2>1. Head(cmd.plan) \in StepsOf(cmd.plan)
    BY <1>1, NextPhase
  <2> QED
    BY <1>1, <2>1 DEF PlanInv, Preparing, Harmless
<1>5. ReportInv'
  <2>1. Beyond(1)' /\ Beyond(2)' /\ Beyond(3)' /\ Beyond(4)'
    BY <1>3, NothingLeft DEF Beyond
  <2> QED
    BY <1>1, <1>3, <2>1 DEF ReportInv
<1> QED
  BY <1>1, <1>3, <1>4, <1>5, EndKeeps

LEMMA AwaitApiKeeps == ASSUME IInv, AwaitApi PROVE IInv'
<1>1. /\ TypeInv /\ PlanInv /\ ReportInv /\ ConnFits(conn) /\ cmd.plan # <<>> /\ UNCHANGED conn
      /\ Head(cmd.plan) = "api" /\ Head(cmd.plan) \in Preparing
  BY DEF IInv, AwaitApi, Doing, Preparing
<1>2. /\ Preview(cmd.job) => cmd.tx = "none" /\ cmd.init = "none"
      /\ cmd.address => cmd.job.kind \in {"upload", "deploy"}
  BY <1>1 DEF PlanInv
<1>3. CASE conn.result = "ready"
  <2>1. cmd' = Passed(cmd)
    BY <1>3 DEF AwaitApi
  <2>2. /\ cmd' \in CommandRecords /\ cmd'.plan = Tail(cmd.plan) /\ cmd'.job = cmd.job /\ cmd'.result = cmd.result
        /\ cmd'.tx = cmd.tx /\ cmd'.init = cmd.init /\ cmd'.address = cmd.address
    BY <1>1, <2>1, PassedIs
  <2>3. PlanInv'
    BY <1>1, <1>2, <1>3, <2>2, PlanPasses
  <2>4. ReportInv'
    BY <1>1, <2>1, ReportPasses
  <2> QED
    BY <1>1, <2>2, <2>3, <2>4 DEF IInv, TypeInv
<1>4. CASE conn.result # "ready"
  <2>1. cmd' = Ended(cmd, "TRANSPORT_ERROR")
    BY <1>4 DEF AwaitApi
  <2>2. /\ cmd' \in CommandRecords /\ cmd'.plan = <<>> /\ cmd'.job = cmd.job /\ cmd'.result = "TRANSPORT_ERROR"
        /\ cmd'.tx = cmd.tx /\ cmd'.init = cmd.init /\ cmd'.address = cmd.address /\ cmd'.reported = cmd.reported /\ cmd'.status = cmd.status /\ cmd'.initStatus = cmd.initStatus
    BY <1>1, <2>1, EndedIs DEF Outcomes
  <2>3. ReportInv'
    <3>1. Beyond(1)' /\ Beyond(2)' /\ Beyond(3)' /\ Beyond(4)'
      BY <2>2, NothingLeft DEF Beyond
    <3> QED
      BY <1>1, <2>2, <3>1, NotYet DEF ReportInv
  <2> QED
    BY <1>1, <1>2, <2>2, <2>3, EndKeeps
<1> QED
  BY <1>3, <1>4

\* connect comes once, so the connection it starts is the first.
LEMMA ConnectKeeps == ASSUME IInv, Connect PROVE IInv'
<1>1. /\ TypeInv /\ PlanInv /\ ReportInv /\ ConnFits(conn) /\ cmd.plan # <<>>
      /\ Head(cmd.plan) = "connect" /\ conn' = Started(conn) /\ cmd' = Passed(cmd)
  BY DEF IInv, Connect, Doing
<1>2. /\ cmd' \in CommandRecords /\ cmd'.plan = Tail(cmd.plan) /\ cmd'.job = cmd.job /\ cmd'.result = cmd.result
      /\ cmd'.tx = cmd.tx /\ cmd'.init = cmd.init /\ cmd'.address = cmd.address
  BY <1>1, PassedIs
<1>3. conn' \in Connections /\ ConnFits(conn')
  BY <1>1, StartedFits DEF TypeInv
<1>4. /\ cmd.plan \in Plans /\ Ordered(Tail(cmd.plan))
      /\ StepsOf(cmd.plan) = {"connect"} \cup StepsOf(Tail(cmd.plan))
      /\ Before("connect", StepsOf(Tail(cmd.plan)))
  BY <1>1, HeadAndRest DEF TypeInv, CommandRecords, PlanInv
<1>5. "connect" \notin StepsOf(Tail(cmd.plan))
  BY <1>4 DEF Before, MayFollow
<1>6. PlanInv'
  <2>1. Preview(cmd'.job) = Preview(cmd.job) /\ EthereumOnly(cmd'.job) = EthereumOnly(cmd.job)
    BY <1>2 DEF Preview, EthereumOnly, EthereumOnlySubmit
  <2>2. conn.result = "none" /\ ~EthereumOnly(cmd.job)
    BY <1>1, <1>4 DEF PlanInv
  <2>3. cmd.result = ""
    BY <1>1 DEF PlanInv
  <2>4. "connect" \notin ApiSteps
    BY DEF ApiSteps
  <2> QED
    BY <1>1, <1>2, <1>4, <1>5, <2>1, <2>2, <2>3, <2>4 DEF PlanInv
<1>7. ReportInv'
  BY <1>1, ReportPasses
<1> QED
  BY <1>2, <1>3, <1>6, <1>7 DEF IInv, TypeInv

\* The connection goes on by itself; the command is what it was.
LEMMA WaitKeeps ==
  ASSUME IInv, cmd' = cmd, conn' \in Connections, ConnFits(conn'), conn.result # "ready", conn.ws # "none"
  PROVE  IInv'
<1>1. TypeInv /\ PlanInv /\ ReportInv /\ ConnFits(conn)
  BY DEF IInv
<1>2. conn.result # "none"
  BY <1>1 DEF ConnFits
<1>3. "connect" \notin StepsOf(cmd.plan) /\ ~EthereumOnly(cmd.job)
  BY <1>1, <1>2 DEF PlanInv
<1>4. PlanInv'
  BY <1>1, <1>3, PlanWaits DEF PlanInv
<1>5. ReportInv'
  BY <1>1 DEF ReportInv, Beyond
<1> QED
  BY <1>1, <1>4, <1>5 DEF IInv, TypeInv

LEMMA ConnectionKeeps ==
  ASSUME IInv, WsHalf \/ BootstrapHalf \/ ConnectTimeout
  PROVE  IInv'
<1>1. conn \in Connections /\ ConnFits(conn)
  BY DEF IInv, TypeInv
<1>2. CASE WsHalf
  <2>1. PICK ok \in BOOLEAN : conn' = WsConnects(conn, ok)
    BY <1>2 DEF WsHalf
  <2>2. cmd' = cmd /\ conn.ws = "pending" /\ conn.result # "ready"
    BY <1>1, <1>2 DEF WsHalf, ConnFits
  <2> QED
    BY <1>1, <2>1, <2>2, WsConnectsFits, WaitKeeps
<1>3. CASE BootstrapHalf
  <2>1. PICK ok \in BOOLEAN : conn' = Bootstraps(conn, ok)
    BY <1>3 DEF BootstrapHalf
  <2>2. cmd' = cmd /\ conn.bootstrap = "pending" /\ conn.result # "ready" /\ conn.ws # "none"
    BY <1>1, <1>3 DEF BootstrapHalf, ConnFits
  <2> QED
    BY <1>1, <2>1, <2>2, BootstrapsFits, WaitKeeps
<1>4. CASE ConnectTimeout
  <2>1. cmd' = cmd /\ conn.timer = "on" /\ conn.result # "ready" /\ conn.ws # "none" /\ conn' = TimesOut(conn)
    BY <1>1, <1>4 DEF ConnectTimeout, ConnFits
  <2> QED
    BY <1>1, <2>1, TimesOutFits, WaitKeeps
<1> QED
  BY <1>2, <1>3, <1>4

LEMMA InterruptKeeps == ASSUME IInv, Interrupt PROVE IInv'
<1>1. TypeInv /\ PlanInv /\ ReportInv /\ ConnFits(conn)
  BY DEF IInv
<1>2. /\ cmd' \in CommandRecords /\ cmd'.plan = cmd.plan /\ cmd'.job = cmd.job /\ cmd'.result = cmd.result
      /\ cmd'.tx = cmd.tx /\ cmd'.init = cmd.init /\ cmd'.address = cmd.address /\ cmd'.reported = cmd.reported /\ cmd'.status = cmd.status /\ cmd'.initStatus = cmd.initStatus
  BY <1>1 DEF Interrupt, TypeInv, CommandRecords
<1>3. /\ conn' \in Connections /\ ConnFits(conn') /\ conn'.result = conn.result /\ conn'.ws = conn.ws
  BY <1>1, DisconnectedFits DEF Interrupt, TypeInv
<1>4. /\ conn.result # "none" => "connect" \notin StepsOf(cmd.plan)
      /\ EthereumOnly(cmd.job) => conn.ws = "none"
      /\ Preview(cmd.job) => cmd.tx = "none" /\ cmd.init = "none"
  BY <1>1 DEF PlanInv
<1>5. PlanInv'
  BY <1>1, <1>2, <1>3, <1>4, PlanWaits
<1>6. ReportInv'
  BY <1>1, <1>2 DEF ReportInv, Beyond
<1> QED
  BY <1>2, <1>3, <1>5, <1>6 DEF IInv, TypeInv

LEMMA ExitKeeps == ASSUME IInv, Exit PROVE IInv'
<1>1. TypeInv /\ PlanInv /\ ReportInv /\ ConnFits(conn)
  BY DEF IInv
<1>2. /\ cmd' \in CommandRecords /\ cmd'.plan = <<>> /\ cmd'.job = cmd.job /\ cmd'.result = "exited"
      /\ cmd'.tx = cmd.tx /\ cmd'.init = cmd.init /\ cmd'.address = cmd.address /\ cmd'.reported = cmd.reported /\ cmd'.status = cmd.status /\ cmd'.initStatus = cmd.initStatus
  BY <1>1, EndedIs DEF Exit, Outcomes
<1>3. /\ conn' \in Connections /\ ConnFits(conn') /\ conn'.result = conn.result /\ conn'.ws = conn.ws
  BY <1>1, DisconnectedFits DEF Exit, TypeInv
<1>4. PlanInv'
  <2>1. Preview(cmd.job) => cmd.tx = "none" /\ cmd.init = "none"
    BY <1>1 DEF PlanInv
  <2> QED
    BY <1>1, <1>2, <1>3, <2>1, PlanEnds
<1>5. ReportInv'
  <2>1. Beyond(1)' /\ Beyond(2)' /\ Beyond(3)' /\ Beyond(4)'
    BY <1>2, NothingLeft DEF Beyond
  <2> QED
    BY <1>1, <1>2, <2>1 DEF ReportInv
<1> QED
  BY <1>2, <1>3, <1>4, <1>5 DEF IInv, TypeInv

LEMMA MineKeeps == ASSUME IInv, Mine PROVE IInv'
<1>1. TypeInv /\ PlanInv /\ ReportInv /\ ConnFits(conn) /\ cmd.tx = "pool" /\ UNCHANGED conn
  BY DEF IInv, Mine
<1>2. PICK outcome \in {"success", "reverted"} : cmd' = [cmd EXCEPT !.tx = outcome]
  BY DEF Mine
<1>3. /\ cmd' \in CommandRecords /\ cmd'.plan = cmd.plan /\ cmd'.job = cmd.job /\ cmd'.result = cmd.result
      /\ cmd'.init = cmd.init /\ cmd'.address = cmd.address /\ cmd'.reported = cmd.reported
      /\ cmd'.status = cmd.status /\ cmd'.initStatus = cmd.initStatus /\ cmd'.tx = outcome
  BY <1>1, <1>2 DEF TypeInv, CommandRecords
<1>4. PlanInv'
  <2>1. /\ conn.result # "none" => "connect" \notin StepsOf(cmd.plan)
        /\ EthereumOnly(cmd.job) => conn.ws = "none"
        /\ ~Preview(cmd.job)
    BY <1>1 DEF PlanInv
  <2> QED
    BY <1>1, <1>3, <2>1, PlanWaits
<1>5. ReportInv'
  BY <1>1, <1>3 DEF ReportInv, Beyond
<1> QED
  BY <1>1, <1>3, <1>4, <1>5 DEF IInv, TypeInv
-----------------------------------------------------------------------------
(* The theorems                                                            *)

\* A command begins with its whole plan and nothing known.
LEMMA InitFits == Init => IInv
<1> SUFFICES ASSUME Init
             PROVE  IInv
  OBVIOUS
<1>1. conn = NoConnection
  BY DEF Init
<1>2. PICK job \in Jobs :
        cmd = [job |-> job, plan |-> Plan(job), tx |-> "none", init |-> "none", address |-> FALSE,
               reported |-> FALSE, shuttingDown |-> FALSE, status |-> "", initStatus |-> "", result |-> ""]
  BY DEF Init
<1>3. job \in Job /\ Fits(job, Plan(job))
  BY PlanFits, VaraEthCommandAssumption
<1>4. /\ cmd.job = job /\ cmd.plan = Plan(job) /\ cmd.tx = "none" /\ cmd.init = "none" /\ cmd.address = FALSE
      /\ cmd.status = "" /\ cmd.initStatus = "" /\ cmd.result = ""
  BY <1>2
<1>5. cmd \in CommandRecords
  BY <1>2, <1>3 DEF CommandRecords, Outcomes, Fits
<1>6. conn \in Connections /\ ConnFits(conn) /\ conn.result = "none" /\ conn.ws = "none"
  BY <1>1, NoConnectionFits DEF NoConnection
<1>7. PlanInv
  BY <1>3, <1>4, <1>6 DEF PlanInv, Fits, Suits
<1>8. ReportInv
  BY <1>4 DEF ReportInv
<1> QED
  BY <1>5, <1>6, <1>7, <1>8 DEF IInv, TypeInv

LEMMA NextKeeps == IInv /\ [Next]_vars => IInv'
<1> SUFFICES ASSUME IInv, [Next]_vars
             PROVE  IInv'
  OBVIOUS
<1>1. CASE UNCHANGED vars
  <2>1. conn' = conn /\ cmd' = cmd
    BY <1>1 DEF vars
  <2>2. PlanInv' <=> PlanInv
    BY <2>1 DEF PlanInv
  <2>3. ReportInv' <=> ReportInv
    BY <2>1 DEF ReportInv, Beyond
  <2> QED
    BY <2>1, <2>2, <2>3 DEF IInv, TypeInv
<1>2. CASE Next
  BY <1>2, ConnectKeeps, AwaitApiKeeps, ConnectionKeeps, StepPassesKeeps, StepFailsKeeps, SendKeeps,
     SendFailsKeeps, ExchangeKeeps, ReceiptKeeps, ReceiptFailsKeeps, CeremonyKeeps, ProgramIdKeeps,
     ProgramIdFailsKeeps, InitRepliesKeeps, InitFailsKeeps, RequestKeeps, OutputKeeps, DecodeFailsKeeps,
     InterruptKeeps, ExitKeeps, MineKeeps DEF Next
<1> QED
  BY <1>1, <1>2

LEMMA Invariance == Spec => []IInv
<1>1. Init => IInv
  BY InitFits
<1>2. IInv /\ [Next]_vars => IInv'
  BY NextKeeps
<1> QED
  BY <1>1, <1>2, PTL DEF Spec

\* A connection that timed out or failed has closed the validator's socket once both of its
\* halves have ended, unless the socket opened after the failure.
THEOREM SocketsReleased == Spec => []SocketReleased
<1>1. IInv => SocketReleased
  BY DEF IInv, TypeInv, Connections, ConnFits, Settled, SocketReleased
<1> QED
  BY <1>1, Invariance, PTL

\* For every command line: what uses the api comes after one was opened, a command documented
\* as Ethereum-only opens no validator socket, and a preview sends nothing away.
THEOREM CommandsPlanned == Spec => []CallPlanned
<1>1. IInv => CallPlanned
  <2> SUFFICES ASSUME IInv
               PROVE  CallPlanned
    OBVIOUS
  <2>1. TypeInv /\ PlanInv
    BY DEF IInv
  <2>2. ASSUME DoingOneOf(ApiSteps)
        PROVE  conn.result = "ready"
    <3>1. cmd.plan # <<>> /\ Head(cmd.plan) \in ApiSteps
      BY <2>2 DEF DoingOneOf
    <3>2. /\ StepsOf(cmd.plan) = {Head(cmd.plan)} \cup StepsOf(Tail(cmd.plan))
          /\ Before(Head(cmd.plan), StepsOf(Tail(cmd.plan)))
      BY <2>1, <3>1, HeadAndRest DEF TypeInv, CommandRecords, PlanInv
    <3>3. "api" \notin StepsOf(cmd.plan)
      BY <3>1, <3>2 DEF Before, MayFollow, ApiSteps
    <3> QED
      BY <2>1, <3>1, <3>2, <3>3 DEF PlanInv
  <2> QED
    BY <2>1, <2>2 DEF CallPlanned, PlanInv
<1> QED
  BY <1>1, Invariance, PTL

\* What a command has printed of its transaction and its init is so, an error before the
\* broadcast means there was none, and a known program is always reported.
THEOREM ReportsTrue == Spec => []ReportTruth
<1>1. IInv => ReportTruth
  BY DEF IInv, ReportInv, ReportTruth
<1> QED
  BY <1>1, Invariance, PTL
=============================================================================
