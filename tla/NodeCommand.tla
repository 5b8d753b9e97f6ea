---------------------------- MODULE NodeCommand ----------------------------
(***************************************************************************)
(* A CLI process that talks to a Vara node: connect with timeouts, retries *)
(* and recovery from a poisoned metadata cache (services/api.ts), the      *)
(* checks of its command, one extrinsic with its 60 s timer                *)
(* (services/tx-executor.ts), and the way out (app.ts, utils/fast-exit.ts).*)
(* Several processes share the metadata cache.  An interrupted process     *)
(* keeps running while its output drains.                                  *)
(***************************************************************************)
EXTENDS MetadataCache, Sequences, TLC

CONSTANTS Processes,
          Assignments, \* which process runs which command line
          Interruptible, \* bound: the processes a signal may reach
          Caches,      \* what earlier runs left in the cache
          Chain,       \* the chain of the endpoint
          LastSpec     \* bound on runtime upgrades

Kinds == {"send", "reply", "upload", "deploy", "code", "issue", "revoke", "tx", "transfer",
          "transferAll", "faucet", "query", "clear"}
\* toUser: the destination of a message is no program; noRetry: VARA_NO_RETRY.
Job == [kind : Kinds, dryRun : BOOLEAN, gasLimit : BOOLEAN, voucher : BOOLEAN,
        toUser : BOOLEAN, noRetry : BOOLEAN]

Key == {Chain} \X (0..LastSpec)
CachedEntry == [key : Key, content : Contents, mtime : Nat]

ASSUME NodeCommandAssumption ==
  /\ Assignments \subseteq [Processes -> Job] /\ LastSpec \in Nat
  /\ Interruptible \subseteq Processes
  \* Only the order of the times matters: those of the entries found are numbered from 1.
  /\ \A entries \in Caches :
       /\ entries \subseteq CachedEntry /\ Cardinality(entries) \in Nat
       /\ \A one \in entries : one.mtime <= Cardinality(entries)
       /\ \A one, other \in entries : one.key = other.key \/ one.mtime = other.mtime => one = other
  /\ \A job \in Assignments, p \in Processes :
       job[p].dryRun => job[p].kind \in {"upload", "deploy"}

\* clock: of the file system, the time of the last write.
VARIABLES cache, clock, spec, proc
vars == <<cache, clock, spec, proc>>

MaxAttempts == 3

Steps == {"start", "handshake", "create", "backoff", "save", "write", "list", "unlink",
          "check", "submit", "pending", "header", "done", "exited"}
CheckNames == {"account", "gas", "voucher", "file", "pallet", "balance", "funded", "challenge"}
Results == {"", "ok", "preview", "already_funded", "TRANSPORT_ERROR", "METADATA_ERROR", "REFUSED",
            "TX_SUBMIT_FAILED", "TX_FAILED", "TX_TIMEOUT"}
\* loaded: what was read from the cache at the start, emptied by the recovery;
\* socket: the provider of the attempt in flight, then of the api; chk: checks left;
\* timer: the 60 s timer; gasZero: sent with gas limit 0.
Process ==
  [job : Job, step : Steps, attempt : 0..MaxAttempts - 1, loaded : SUBSET CachedEntry,
   recovered : BOOLEAN, sockets : 0..MaxAttempts + 1, api : BOOLEAN, key : Key,
   victims : SUBSET CachedEntry, checks : Seq(CheckNames), timer : {"off", "on", "fired"},
   tx : {"none", "pool", "included", "failed", "dropped"}, gasZero : BOOLEAN,
   shuttingDown : BOOLEAN, result : Results]

-----------------------------------------------------------------------------
(* The commands: what each does between connecting and its extrinsic. *)

GasUnless(given) == IF given THEN <<>> ELSE <<"gas">>
VoucherIf(given) == IF given THEN <<"voucher">> ELSE <<>>

MessageSend(j) == GasUnless(j.gasLimit) \o VoucherIf(j.voucher)
MessageReply(j) == GasUnless(j.gasLimit) \o VoucherIf(j.voucher)
ProgramUpload(j) == GasUnless(j.gasLimit)
ProgramDeploy(j) == GasUnless(j.gasLimit)
CodeUpload(j) == <<"file">> \o VoucherIf(j.voucher)
VoucherIssue(j) == <<>>
VoucherRevoke(j) == <<>>
Tx(j) == <<"pallet">>
Transfer(j) == IF j.kind = "transferAll" THEN <<"balance">> ELSE <<>>
Faucet(j) == <<"funded", "challenge">>

ChecksOfKind(j) ==
  CASE j.kind = "send" -> MessageSend(j) [] j.kind = "reply" -> MessageReply(j)
    [] j.kind = "upload" -> ProgramUpload(j) [] j.kind = "deploy" -> ProgramDeploy(j)
    [] j.kind = "code" -> CodeUpload(j) [] j.kind = "issue" -> VoucherIssue(j)
    [] j.kind = "revoke" -> VoucherRevoke(j) [] j.kind = "tx" -> Tx(j)
    [] j.kind \in {"transfer", "transferAll"} -> Transfer(j)
    [] j.kind = "faucet" -> Faucet(j) [] j.kind \in {"query", "clear"} -> <<>>

\* Once connected, a command that signs resolves its account before anything else, and
\* with it the amounts and the payload of its command line.
Checks(j) ==
  IF j.kind \in {"query", "clear"} THEN <<>> ELSE <<"account">> \o ChecksOfKind(j)
-----------------------------------------------------------------------------
(* Starting and connecting. *)

Becomes(p, s) == proc' = [proc EXCEPT ![p] = s]
\* The locals of connecting go out of scope.
Connected(s) == [s EXCEPT !.attempt = 0, !.loaded = {}, !.recovered = FALSE]
Ended(s, result) ==
  [Connected(s) EXCEPT !.step = "done", !.result = result, !.key = <<Chain, 0>>, !.checks = <<>>]
Connecting(s) == [s EXCEPT !.step = "handshake", !.sockets = @ + 1]

\* Dry runs answer before they connect; metadata clear works on the cache alone.
Start(p) ==
  LET s == proc[p]
  IN  /\ s.step = "start"
      /\ CASE s.job.dryRun -> Becomes(p, Ended(s, "preview")) /\ UNCHANGED cache
           [] ~s.job.dryRun /\ s.job.kind = "clear" -> Becomes(p, Ended(s, "ok")) /\ cache' = Cleared
           [] ~s.job.dryRun /\ s.job.kind # "clear" ->
                /\ cache' = Readable(cache)
                /\ Becomes(p, Connecting([s EXCEPT !.loaded = Readable(cache)]))
      /\ UNCHANGED <<clock, spec>>

\* Before connecting, the faucet refuses the mainnet, and the program commands a missing
\* file or an init message they cannot encode, on a dry run too.
Refuse(p) ==
  /\ proc[p].step = "start" /\ proc[p].job.kind \in {"upload", "deploy", "faucet"}
  /\ Becomes(p, Ended(proc[p], "REFUSED"))
  /\ UNCHANGED <<cache, clock, spec>>

\* The socket opens; GearApi.create follows on the same attempt.
Handshake(p) ==
  /\ proc[p].step = "handshake"
  /\ Becomes(p, [proc[p] EXCEPT !.step = "create"])
  /\ UNCHANGED <<cache, clock, spec>>

Poisoned(s) == Has(s.loaded, <<Chain, spec>>) /\ Content(s.loaded, <<Chain, spec>>) = "corrupt"

\* The api is up.  It belongs to the runtime the node has now.
Create(p) ==
  /\ proc[p].step = "create" /\ ~Poisoned(proc[p])
  /\ Becomes(p, [Connected(proc[p]) EXCEPT !.step = "save", !.api = TRUE, !.key = <<Chain, spec>>])
  /\ UNCHANGED <<cache, clock, spec>>

\* connectOnce releases its provider on every failure.
ReleaseNothing(s) == s
Release(s) == [s EXCEPT !.sockets = @ - 1]

RetriesLeft(s) == ~s.job.noRetry /\ s.attempt < MaxAttempts - 1

\* Timeouts and abnormal closures are retried unless the process is shutting down.
Fail(p, retriable) ==
  LET s == Release(proc[p])
  IN  /\ proc[p].step \in {"handshake", "create"}
      /\ Becomes(p, IF retriable /\ RetriesLeft(s) /\ ~s.shuttingDown
                      THEN [s EXCEPT !.step = "backoff", !.attempt = @ + 1]
                    ELSE Ended(s, "TRANSPORT_ERROR"))
      /\ UNCHANGED <<cache, clock, spec>>

BackoffUnchecked(p) ==
  /\ proc[p].step = "backoff"
  /\ Becomes(p, Connecting(proc[p]))
  /\ UNCHANGED <<cache, clock, spec>>
Backoff(p) ==
  /\ proc[p].step = "backoff"
  /\ Becomes(p, IF proc[p].shuttingDown THEN Ended(proc[p], "TRANSPORT_ERROR")
               ELSE Connecting(proc[p]))
  /\ UNCHANGED <<cache, clock, spec>>

\* A decoding error with cached metadata: clear the cache, retry without it.
RecoverWithSame(s) == Connecting([Release(s) EXCEPT !.recovered = TRUE, !.attempt = 0])
Recover(s) == Connecting([Release(s) EXCEPT !.recovered = TRUE, !.attempt = 0, !.loaded = {}])

CreateFailsOnMetadata(p) ==
  LET s == proc[p]
  IN  /\ s.step = "create" /\ Poisoned(s)
      /\ IF s.recovered THEN Becomes(p, Ended(Release(s), "METADATA_ERROR")) /\ UNCHANGED cache
         ELSE Becomes(p, Recover(s)) /\ cache' = Cleared
      /\ UNCHANGED <<clock, spec>>
-----------------------------------------------------------------------------
(* saveMetadataIfNew: look, write, list, unlink. *)

\* A read-only command has its answer, whatever it asks.
StartChecks(s) ==
  IF s.job.kind = "query" THEN Ended(s, "ok")
  ELSE [s EXCEPT !.step = "check", !.checks = Checks(s.job), !.key = <<Chain, 0>>]

SaveMetadata(p) ==
  /\ proc[p].step = "save"
  /\ Becomes(p, IF Has(cache, proc[p].key) THEN StartChecks(proc[p])
               ELSE [proc[p] EXCEPT !.step = "write"])
  /\ UNCHANGED <<cache, clock, spec>>

WriteMetadata(p) ==
  /\ proc[p].step = "write"
  /\ clock' = clock + 1
  /\ cache' = Saved(cache, proc[p].key, clock')
  /\ Becomes(p, [proc[p] EXCEPT !.step = "list"])
  /\ UNCHANGED spec

\* The write fails (disk full, no permission): the command goes on.
WriteFails(p) ==
  /\ proc[p].step = "write"
  /\ Becomes(p, StartChecks(proc[p]))
  /\ UNCHANGED <<cache, clock, spec>>

PruneList(p) ==
  /\ proc[p].step = "list"
  /\ Becomes(p, [proc[p] EXCEPT !.step = "unlink", !.victims = Victims(cache, Chain)])
  /\ UNCHANGED <<cache, clock, spec>>

PruneUnlink(p) ==
  /\ proc[p].step = "unlink"
  /\ cache' = Unlinked(cache, proc[p].victims)
  /\ Becomes(p, [StartChecks(proc[p]) EXCEPT !.victims = {}])
  /\ UNCHANGED <<clock, spec>>
-----------------------------------------------------------------------------
(* The checks of the command. *)

Checking(p, check) ==
  /\ proc[p].step = "check" /\ proc[p].checks # <<>> /\ Head(proc[p].checks) = check
  /\ UNCHANGED <<cache, clock, spec>>
Passed(s) == [s EXCEPT !.checks = Tail(@)]

CheckPasses(p) ==
  /\ proc[p].step = "check" /\ proc[p].checks # <<>>
  /\ Head(proc[p].checks) = "gas" => ~proc[p].job.toUser
  /\ proc[p].api \/ Head(proc[p].checks) \in {"account", "file", "challenge"}
  /\ Becomes(p, Passed(proc[p]))
  /\ UNCHANGED <<cache, clock, spec>>

\* The account cannot be resolved; a gas estimate, a voucher, a file, a pallet or the
\* faucet's challenge is refused; or the connection is gone.
CheckFails(p) ==
  /\ \E check \in CheckNames :
       /\ Checking(p, check)
       /\ Becomes(p, Ended(proc[p], "REFUSED"))

\* No program to estimate gas for: message send goes on with gas limit 0.
GasForUser(p) ==
  /\ Checking(p, "gas") /\ proc[p].api /\ proc[p].job.toUser /\ proc[p].job.kind = "send"
  /\ Becomes(p, [Passed(proc[p]) EXCEPT !.gasZero = TRUE])

AlreadyFunded(p) ==
  /\ Checking(p, "funded")
  /\ Becomes(p, Ended(proc[p], "already_funded"))
-----------------------------------------------------------------------------
(* executeTx, and the faucet's claim: a request over HTTP with a timer of  *)
(* its own, granted or refused. *)

Reaches(s) == s.api \/ s.job.kind = "faucet"

SignAndSend(p) ==
  /\ proc[p].step = "check" /\ proc[p].checks = <<>>
  /\ Becomes(p, [proc[p] EXCEPT !.step = "submit", !.timer = "on"])
  /\ UNCHANGED <<cache, clock, spec>>

\* The node has the extrinsic, or refuses it, or has it while its answer is lost.
AcceptedTimerOff(p) ==
  /\ proc[p].step = "submit" /\ Reaches(proc[p])
  /\ Becomes(p, [proc[p] EXCEPT !.step = "pending", !.tx = "pool", !.timer = "off"])
  /\ UNCHANGED <<cache, clock, spec>>
Accepted(p) ==
  /\ proc[p].step = "submit" /\ Reaches(proc[p])
  /\ Becomes(p, [proc[p] EXCEPT !.step = "pending", !.tx = "pool"])
  /\ UNCHANGED <<cache, clock, spec>>

SubmitFails(p) ==
  /\ proc[p].step = "submit"
  /\ \E tx \in IF Reaches(proc[p]) THEN {"none", "pool"} ELSE {"none"} :
       Becomes(p, Ended([proc[p] EXCEPT !.timer = "off", !.tx = tx], "TX_SUBMIT_FAILED"))
  /\ UNCHANGED <<cache, clock, spec>>

\* The status callback settles on inclusion only.
InBlockUnchecked(s) == [s EXCEPT !.timer = "off", !.step = "header"]
InBlock(s) ==
  IF s.tx = "failed" THEN Ended([s EXCEPT !.timer = "off"], "TX_FAILED")
  ELSE [s EXCEPT !.timer = "off", !.step = "header"]

OnStatus(p) ==
  /\ proc[p].step = "pending" /\ Reaches(proc[p]) /\ proc[p].tx \in {"included", "failed"}
  /\ Becomes(p, InBlock(proc[p]))
  /\ UNCHANGED <<cache, clock, spec>>

TimerFires(p) ==
  /\ proc[p].step \in {"submit", "pending"} /\ proc[p].timer = "on"
  /\ \E tx \in IF proc[p].step = "submit" /\ Reaches(proc[p]) THEN {"none", "pool"} ELSE {proc[p].tx} :
       Becomes(p, Ended([proc[p] EXCEPT !.timer = "fired", !.tx = tx], "TX_TIMEOUT"))
  /\ UNCHANGED <<cache, clock, spec>>

\* resolveBlockNumber swallows its error: the answer comes with or without a number.
ResolveBlockNumber(p) ==
  /\ proc[p].step = "header"
  /\ Becomes(p, Ended(proc[p], "ok"))
  /\ UNCHANGED <<cache, clock, spec>>
-----------------------------------------------------------------------------
(* The way out. *)

DisconnectedTwice(s) == [s EXCEPT !.shuttingDown = TRUE, !.api = FALSE, !.sockets = @ - 1]

\* disconnectApi closes the api it knows of; an attempt in flight is not known.
Disconnected(s) ==
  [s EXCEPT !.shuttingDown = TRUE, !.api = FALSE, !.sockets = IF s.api THEN @ - 1 ELSE @]

\* SIGINT or SIGTERM: the process exits when its output has drained.
Interrupt(p) ==
  /\ p \in Interruptible /\ proc[p].step \notin {"done", "exited"} /\ ~proc[p].shuttingDown
  /\ Becomes(p, Disconnected(proc[p]))
  /\ UNCHANGED <<cache, clock, spec>>

Exit(p) ==
  /\ \/ proc[p].step = "done"
     \/ proc[p].shuttingDown /\ proc[p].step # "exited"
  /\ Becomes(p, [Ended(Disconnected(proc[p]), proc[p].result) EXCEPT !.step = "exited", !.victims = {}])
  /\ UNCHANGED <<cache, clock, spec>>
-----------------------------------------------------------------------------
(* External: the chain goes on whether or not anyone waits. *)

Settle(p) ==
  /\ proc[p].tx = "pool"
  /\ \E tx \in {"included", "failed", "dropped"} : Becomes(p, [proc[p] EXCEPT !.tx = tx])
  /\ UNCHANGED <<cache, clock, spec>>

Upgrade ==
  /\ spec < LastSpec
  /\ spec' = spec + 1
  /\ UNCHANGED <<cache, clock, proc>>

Fresh(j) ==
  [job |-> j, step |-> "start", attempt |-> 0, loaded |-> {}, recovered |-> FALSE, sockets |-> 0,
   api |-> FALSE, key |-> <<Chain, 0>>, victims |-> {}, checks |-> <<>>, timer |-> "off",
   tx |-> "none", gasZero |-> FALSE, shuttingDown |-> FALSE, result |-> ""]

Init ==
  /\ cache \in Caches /\ clock = Cardinality(cache)
  /\ spec = 0
  /\ \E job \in Assignments : proc = [p \in Processes |-> Fresh(job[p])]

Step(p) ==
  \/ Start(p) \/ Refuse(p) \/ Handshake(p) \/ Create(p) \/ Backoff(p) \/ CreateFailsOnMetadata(p)
  \/ SaveMetadata(p) \/ WriteMetadata(p) \/ WriteFails(p) \/ PruneList(p) \/ PruneUnlink(p)
  \/ CheckPasses(p) \/ CheckFails(p) \/ GasForUser(p) \/ AlreadyFunded(p)
  \/ SignAndSend(p) \/ Accepted(p) \/ SubmitFails(p) \/ OnStatus(p) \/ TimerFires(p)
  \/ ResolveBlockNumber(p) \/ Exit(p)

Next ==
  \/ \E p \in Processes :
       \/ Step(p)
       \/ \E retriable \in BOOLEAN : Fail(p, retriable)
       \/ Interrupt(p) \/ Settle(p)
  \/ Upgrade

\* Timers end what the network leaves open: 10 s per connection step, 60 s for the
\* extrinsic and for every request of the provider; nothing else is assumed of the node.
Fairness == \A p \in Processes : WF_vars(Step(p) \/ Fail(p, TRUE))

Spec == Init /\ [][Next]_vars /\ Fairness
-----------------------------------------------------------------------------
\* Every field has its type: no socket is released twice, no attempt made beyond three.
TypeOK ==
  /\ spec \in 0..LastSpec /\ clock \in Nat
  /\ cache \subseteq CachedEntry
  /\ proc \in [Processes -> Process]

\* Attempts never overlap: whatever timed out, failed or was poisoned released its
\* provider before the next attempt opened one.
OneSocket == \A p \in Processes : proc[p].sockets <= 1

\* A cached entry the node's library cannot decode never makes a command fail.
CacheRecovers == \A p \in Processes : proc[p].result # "METADATA_ERROR"

\* An interrupted process makes no retry, neither before the backoff nor after it; only
\* the first attempt of retryConnect, the recovery's included, does not look.
NoRetryAfterInterrupt ==
  [][\A p \in Processes :
       /\ proc[p].shuttingDown
       /\ proc[p].step # "handshake" /\ proc'[p].step = "handshake"
       => proc'[p].attempt = 0]_vars

\* What a command reports of its extrinsic is so: success and failure come from its
\* block, and an error before the submission means that nothing was submitted.
ResultTruth ==
  \A p \in Processes :
    /\ proc[p].result = "ok" => proc[p].tx = "included" \/ proc[p].job.kind \in {"query", "clear"}
    /\ proc[p].result = "TX_FAILED" => proc[p].tx = "failed"
    /\ proc[p].result \in {"TRANSPORT_ERROR", "REFUSED", "already_funded", "preview"} =>
         proc[p].tx = "none"

\* Pruning evicts the entry written last, the metadata in use, only if a process wrote it
\* after the pruning one had listed an earlier file of that name.
NewestKept ==
  [][\A p \in Processes, newest \in cache :
       /\ proc[p].step = "unlink" /\ proc'[p].step \in {"check", "done"}
       /\ newest.mtime = clock
       => \/ newest \in cache'
          \/ \E stale \in proc[p].victims : stale.key = newest.key /\ stale.mtime < newest.mtime]_vars

\* Every command ends, whatever the node does.
CommandEnds == \A p \in Processes : <>(proc[p].step = "exited")
=============================================================================
