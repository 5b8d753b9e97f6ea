--------------------------- MODULE VaraEthCommand ---------------------------
(***************************************************************************)
(* The commands of the Vara.eth rail (src/src/commands/vara-eth-actions.ts,*)
(* vara-eth-wvara.ts, vara-eth-inheritor.ts, vara-eth-session.ts): which   *)
(* connections each opens, in which order it signs, sends and waits, and   *)
(* what it reports when one of its steps fails.                            *)
(***************************************************************************)
EXTENDS EthexeConnection, Sequences

CONSTANT Jobs \* the command lines

Kinds == {"balance", "transfer", "approve", "permit", "send", "reply", "state", "upload", "deploy",
          "discover", "call", "info", "list", "topUp", "recover", "session", "tokenBalance"}
\* submitted: --wait submitted; raw: amounts in minimal units; idl: --idl is given; query: the
\* method is one; init: an init message follows the deployment; funded: executable balance.
Job == [kind : Kinds, via : {"eth", "injected"}, submitted : BOOLEAN, raw : BOOLEAN, dryRun : BOOLEAN,
        estimate : BOOLEAN, idl : BOOLEAN, query : BOOLEAN, init : BOOLEAN, funded : BOOLEAN]

ASSUME VaraEthCommandAssumption == Jobs \subseteq Job

VARIABLES conn, cmd
vars == <<conn, cmd>>

If(condition, steps) == IF condition THEN steps ELSE <<>>
-----------------------------------------------------------------------------
(* The commands, as the steps each takes.  connect starts getEthexeApi and *)
(* api waits for it; a signer resolved between the two runs beside it.     *)

Api == <<"connect", "api">>
EthClientAndSigner == <<"ethClient", "signer">>

Balance(j) == Api \o <<"settled", "output">>
ProgramInfo(j) == Api \o <<"settled", "output">>
ProgramList(j) == Api \o <<"query", "output">>
StateRead(j) == Api \o <<"read", "query", "output">>
Discover(j) == Api \o <<"idl", "output">>

SendAndMaybeWait(j) == IF j.submitted THEN <<"send", "output">> ELSE <<"send", "receipt", "output">>

\* transfer reads the decimals unless a raw amount is only submitted.
Transfer(j) == EthClientAndSigner \o If(~(j.submitted /\ j.raw), <<"read">>) \o SendAndMaybeWait(j)
TokenBalance(j) == Api \o <<"read", "output">>
\* vara-eth:wvara transfer, whose amount is raw, is an approve in this respect.
Approve(j) == EthClientAndSigner \o SendAndMaybeWait(j)
Permit(j) == EthClientAndSigner \o <<"ethPermit">> \o SendAndMaybeWait(j)
MessageReply(j) == <<"signer">> \o SendAndMaybeWait(j)
TopUp(j) == Api \o <<"read", "signer", "apiPermit", "send", "receipt", "output">>
Recover(j) == Api \o <<"signer", "read", "send", "waited", "output">>

\* The injected path with a reply, and its store, is the module InjectedPromises.
MessageSend(j) ==
  LET validator == j.via = "injected" \/ ~j.submitted
  IN  If(validator, <<"connect">>) \o <<"signer">> \o If(validator, <<"api">>)
        \o CASE j.submitted /\ j.via = "eth" -> <<"send", "output">>
             [] j.submitted /\ j.via = "injected" -> <<"inject", "output">>
             [] ~j.submitted -> <<"exchange", "output">>

\* The init message follows the deployment when there is one to send.
Deployed(j) == If(j.init, <<"init">>) \o <<"output">>
Upload(j) == IF j.dryRun THEN <<"output">> ELSE Api \o <<"signer", "ceremony">> \o Deployed(j)
Deploy(j) ==
  IF j.dryRun THEN <<"output">>
  ELSE Api \o <<"signer">> \o If(j.funded, <<"apiPermit">>) \o <<"send", "mined", "programId">> \o Deployed(j)

EthereumOnlySubmit(j) == j.submitted /\ j.via = "eth" /\ ~j.query /\ ~j.dryRun /\ ~j.estimate
NeedsValidatorApiUnlessDry(j) == j.query \/ (~j.dryRun /\ ~EthereumOnlySubmit(j))
NeedsValidatorApi(j) == j.query \/ j.estimate \/ (~j.dryRun /\ ~EthereumOnlySubmit(j))

SailsCall(j) ==
  If(~j.idl, Api) \o <<"idl">> \o If(j.idl /\ NeedsValidatorApi(j), Api)
    \o CASE j.dryRun -> If(j.estimate /\ ~j.query, <<"signer", "estimate">>) \o <<"output">>
         [] ~j.dryRun /\ j.query -> <<"query", "output">>
         [] ~j.dryRun /\ ~j.query /\ j.estimate -> <<"signer", "estimate", "output">>
         [] ~j.dryRun /\ ~j.query /\ ~j.estimate ->
              <<"signer", "origin">>
                \o CASE j.submitted /\ j.via = "eth" -> <<"send", "output">>
                     [] j.submitted /\ j.via = "injected" -> <<"inject", "output">>
                     [] ~j.submitted -> <<"exchange", "output">>

\* Two requests of a session; each reports on its own.
Session(j) == Api \o <<"signer", "request", "request", "output">>

Plan(j) ==
  CASE j.kind = "balance" -> Balance(j) [] j.kind = "transfer" -> Transfer(j) [] j.kind = "approve" -> Approve(j)
    [] j.kind = "permit" -> Permit(j) [] j.kind = "send" -> MessageSend(j) [] j.kind = "reply" -> MessageReply(j)
    [] j.kind = "state" -> StateRead(j) [] j.kind = "upload" -> Upload(j) [] j.kind = "deploy" -> Deploy(j)
    [] j.kind = "discover" -> Discover(j) [] j.kind = "call" -> SailsCall(j) [] j.kind = "info" -> ProgramInfo(j)
    [] j.kind = "list" -> ProgramList(j) [] j.kind = "topUp" -> TopUp(j) [] j.kind = "recover" -> Recover(j)
    [] j.kind = "session" -> Session(j) [] j.kind = "tokenBalance" -> TokenBalance(j)
-----------------------------------------------------------------------------
(* The state of a command. *)

\* cmd.tx: the transaction or injected message ("none", "pool", "success", "reverted" or
\* "executed"); init: the init message ("none", "executed", or "refused" by the program's
\* reply); address: the command knows the program it deployed;
\* reported: it has printed it; status and initStatus: what it prints; result: how it ended.
Doing(step) == cmd.plan # <<>> /\ Head(cmd.plan) = step
DoingOneOf(steps) == cmd.plan # <<>> /\ Head(cmd.plan) \in steps
Passed(c) == [c EXCEPT !.plan = Tail(@)]
Ended(c, result) == [c EXCEPT !.plan = <<>>, !.result = result]

\* The steps that use the api, which the code asserts to be there.
ApiSteps == {"query", "estimate", "apiPermit", "inject", "exchange", "ceremony", "init", "request", "settled"}
ApiThere == DoingOneOf(ApiSteps) => conn.socket
-----------------------------------------------------------------------------
(* Connecting. *)

Connect ==
  /\ Doing("connect")
  /\ conn' = Started(conn) /\ cmd' = Passed(cmd)

AwaitApi ==
  /\ Doing("api") /\ conn.result \in {"ready", "timeout", "failed"}
  /\ cmd' = IF conn.result = "ready" THEN Passed(cmd) ELSE Ended(cmd, "TRANSPORT_ERROR")
  /\ UNCHANGED conn

Running == cmd.result # "exited"
WsHalf ==
  /\ Running /\ conn.ws = "pending"
  /\ \E ok \in BOOLEAN : conn' = WsConnects(conn, ok)
  /\ UNCHANGED cmd
BootstrapHalf ==
  /\ Running /\ conn.bootstrap = "pending"
  /\ \E ok \in BOOLEAN : conn' = Bootstraps(conn, ok)
  /\ UNCHANGED cmd
ConnectTimeout ==
  /\ Running /\ conn.timer = "on"
  /\ conn' = TimesOut(conn)
  /\ UNCHANGED cmd
-----------------------------------------------------------------------------
(* The steps that send nothing, and those that do. *)

Harmless == {"ethClient", "signer", "settled", "read", "query", "idl", "estimate", "origin", "ethPermit", "apiPermit"}
StepPasses ==
  /\ DoingOneOf(Harmless) /\ ApiThere
  /\ cmd' = Passed(cmd)
  /\ UNCHANGED conn

\* Promise.allSettled turns the failure of a read into a null of the output.
StepFails ==
  /\ DoingOneOf(Harmless \ {"settled"})
  /\ cmd' = Ended(cmd, "REFUSED")
  /\ UNCHANGED conn

Send ==
  /\ Doing("send")
  /\ cmd' = [Passed(cmd) EXCEPT !.tx = "pool", !.status = "submitted"]
  /\ UNCHANGED conn

\* Refused, or accepted while the answer is lost.
SendFails ==
  /\ DoingOneOf({"send", "inject", "exchange", "ceremony"})
  /\ \E tx \in {"none", "pool"} : cmd' = [Ended(cmd, "SEND_FAILED") EXCEPT !.tx = tx]
  /\ UNCHANGED conn

Inject ==
  /\ Doing("inject") /\ ApiThere
  /\ cmd' = [Passed(cmd) EXCEPT !.tx = "pool", !.status = "submitted"]
  /\ UNCHANGED conn

\* programs.sendAndWait: the reply is there, whatever its code.
Exchange ==
  /\ Doing("exchange") /\ ApiThere
  /\ cmd' = [Passed(cmd) EXCEPT !.tx = "executed", !.status = "resolved"]
  /\ UNCHANGED conn

\* The receipt's status is printed; the recovery of an inheritor does not look at it.
Receipt ==
  /\ DoingOneOf({"receipt", "mined", "waited"}) /\ cmd.tx \in {"success", "reverted"}
  /\ cmd' = [Passed(cmd) EXCEPT !.status = IF Doing("waited") THEN "recovered" ELSE cmd.tx]
  /\ UNCHANGED conn

ReceiptFails ==
  /\ DoingOneOf({"receipt", "mined", "waited"})
  /\ cmd' = Ended(cmd, "RECEIPT_FAILED")
  /\ UNCHANGED conn

\* programs.deploy: validation of the code and creation of the program.
Ceremony ==
  /\ Doing("ceremony") /\ ApiThere
  /\ cmd' = [Passed(cmd) EXCEPT !.tx = "success", !.address = TRUE]
  /\ UNCHANGED conn

ProgramId ==
  /\ Doing("programId") /\ cmd.tx = "success"
  /\ cmd' = [Passed(cmd) EXCEPT !.address = TRUE]
  /\ UNCHANGED conn

\* A reverted deployment has no program; a lookup that fails loses the address.
ProgramIdFails ==
  /\ Doing("programId")
  /\ cmd' = Ended(cmd, "PROGRAM_ID_FAILED")
  /\ UNCHANGED conn

\* The code of the reply is printed and not looked at.
InitReplies ==
  /\ Doing("init") /\ ApiThere
  /\ \E init \in {"executed", "refused"} :
       cmd' = [Passed(cmd) EXCEPT !.init = init, !.initStatus = "success"]
  /\ UNCHANGED conn

\* The init message fails, or its reply is lost: the recovery output comes first.
FailedInitUnreported(c) == [Ended(c, "VARA_ETH_INIT_FAILED") EXCEPT !.initStatus = "failed"]
FailedInit(c) == [Ended(c, "VARA_ETH_INIT_FAILED") EXCEPT !.initStatus = "failed", !.reported = TRUE]
InitFails ==
  /\ Doing("init")
  /\ \E init \in {"none", "executed", "refused"} : cmd' = [FailedInit(cmd) EXCEPT !.init = init]
  /\ UNCHANGED conn

\* A session answers a request with an error, a query's reply or a sent message.
Request ==
  /\ Doing("request")
  /\ cmd' \in {Passed(cmd)} \cup (IF conn.socket THEN {[Passed(cmd) EXCEPT !.tx = "pool"]} ELSE {})
  /\ UNCHANGED conn

Output ==
  /\ Doing("output")
  /\ cmd' = [Ended(cmd, "ok") EXCEPT !.reported = cmd.address]
  /\ UNCHANGED conn

\* A reply that does not decode, a panic's for one, costs the caller the result of a call.
DecodeFails ==
  /\ Doing("output") /\ cmd.job.kind = "call" /\ ~cmd.job.dryRun
  /\ cmd.job.query \/ cmd.status = "resolved"
  /\ cmd' = Ended(cmd, "DECODE_FAILED")
  /\ UNCHANGED conn
-----------------------------------------------------------------------------
(* The way out. *)

Interrupt ==
  /\ cmd.result = "" /\ ~cmd.shuttingDown
  /\ cmd' = [cmd EXCEPT !.shuttingDown = TRUE]
  /\ conn' = Disconnected(conn)

Exit ==
  /\ Running
  /\ cmd.result # "" \/ cmd.shuttingDown
  /\ cmd' = Ended(cmd, "exited")
  /\ conn' = Disconnected(conn)

\* External: a permit that outlived its 300 s makes its transaction revert.
Mine ==
  /\ Running /\ cmd.tx = "pool"
  /\ \E outcome \in {"success", "reverted"} : cmd' = [cmd EXCEPT !.tx = outcome]
  /\ UNCHANGED conn

Init ==
  /\ conn = NoConnection
  /\ \E job \in Jobs :
       cmd = [job |-> job, plan |-> Plan(job), tx |-> "none", init |-> "none", address |-> FALSE,
              reported |-> FALSE, shuttingDown |-> FALSE, status |-> "", initStatus |-> "", result |-> ""]

Next ==
  \/ Connect \/ AwaitApi \/ WsHalf \/ BootstrapHalf \/ ConnectTimeout
  \/ StepPasses \/ StepFails \/ Send \/ SendFails \/ Inject \/ Exchange
  \/ Receipt \/ ReceiptFails \/ Ceremony \/ ProgramId \/ ProgramIdFails \/ InitReplies \/ InitFails
  \/ Request \/ Output \/ DecodeFails \/ Interrupt \/ Exit \/ Mine

Spec == Init /\ [][Next]_vars
-----------------------------------------------------------------------------
\* The commands for which the documentation excludes a validator connection.
EthereumOnly(j) ==
  \/ j.kind \in {"transfer", "approve", "permit", "reply"}
  \/ j.kind = "send" /\ j.submitted /\ j.via = "eth"
  \/ j.kind = "call" /\ j.idl /\ EthereumOnlySubmit(j)
Preview(j) ==
  \/ j.kind \in {"balance", "state", "discover", "info", "list", "tokenBalance"}
  \/ j.kind \in {"upload", "deploy"} /\ j.dryRun
  \/ j.kind = "call" /\ (j.dryRun \/ j.estimate \/ j.query)

\* Over every combination of options: a step that uses the api runs after one was opened,
\* what documents an Ethereum-only path opens no validator socket, and what reads,
\* estimates or previews signs and sends nothing away.
CallPlanned ==
  /\ DoingOneOf(ApiSteps) => conn.result = "ready"
  /\ EthereumOnly(cmd.job) => conn.ws = "none"
  /\ Preview(cmd.job) => cmd.tx = "none" /\ cmd.init = "none"

\* However the two halves and the timer fall: once both halves of a connection that timed
\* out or failed have ended, no socket is open, unless it opened after the failure.
SocketReleased ==
  /\ conn.result \in {"timeout", "failed"} /\ conn.ws # "pending" /\ conn.bootstrap # "pending"
  => ~conn.socket \/ conn.late

\* The receipt status a command prints is its transaction's; "submitted" says that the
\* transaction was sent, a recovery that it was mined, a successful init that the program
\* answered it.  An error before the broadcast means that there was no transaction, and a
\* program whose address is known is reported however the init ends.
ReportTruth ==
  /\ cmd.result = "ok" =>
       /\ cmd.status \in {"success", "reverted"} => cmd.tx = cmd.status
       /\ cmd.status = "submitted" => cmd.tx # "none"
       /\ cmd.status = "recovered" => cmd.tx \in {"success", "reverted"}
       /\ cmd.initStatus = "success" => cmd.init \in {"executed", "refused"}
       /\ cmd.initStatus # "failed"
  /\ cmd.result \in {"TRANSPORT_ERROR", "REFUSED"} => cmd.tx = "none"
  /\ cmd.address /\ cmd.result \notin {"", "exited"} => cmd.reported
=============================================================================
