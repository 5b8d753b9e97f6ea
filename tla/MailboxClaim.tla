---------------------------- MODULE MailboxClaim ----------------------------
(***************************************************************************)
(* `vara-eth:mailbox claim` (src/src/commands/vara-eth-mailbox.ts): any    *)
(* number of CLI processes that submit a claim, replace a pending one with *)
(* the same nonce and a higher fee, or resume a saved one, beside an       *)
(* Ethereum node and over one journal shared through the file system.      *)
(*                                                                         *)
(* Between two awaits a process runs alone only with respect to itself:    *)
(* every RPC call and every SQLite statement is a step of its own, and a   *)
(* process may stop for good (crash) between any two.                      *)
(***************************************************************************)
EXTENDS EthereumNode, DirectTransactions

CONSTANTS Invocations,   \* CLI processes
          Requests,      \* option records a user gives
          Quotes,        \* answers of the RPC node to a fee question
          EarlierClaims, \* pending claims that finished commands journaled
          LegacyClaims   \* the same, from before chain ids were journaled

\* wait: "submitted" or "receipt"; again: --replace-after-ms given;
\* nonce, fees: --nonce and the two fee flags.
RequestSet == [wait : {"submitted", "receipt"}, again : BOOLEAN,
               nonce : Optional(Nat), fees : FeeOverrides]

ASSUME ClaimAssumption == /\ {} \notin {Senders, Chains, Calls, Requests}
                          /\ Requests \subseteq RequestSet
                          /\ Quotes \subseteq FeeQuotes
                          /\ EarlierClaims \cup LegacyClaims \subseteq Transactions
                          /\ \A t \in EarlierClaims \cup LegacyClaims : t.fee.prio <= t.fee.max

VARIABLE inv   \* inv[p] : what process p is doing

vars == <<nodeVars, storeVars, inv>>

Steps == {"idle", "prepare", "send", "insert", "link", "wait",
          "receipt", "count", "done"}
Refusals == {"CLAIM_REPLACEMENT_NOT_FOUND", "CLAIM_NOT_PENDING",
             "CLAIM_REPLACEMENT_MISMATCH", "CLAIM_RESUME_NOT_FOUND",
             "CLAIM_REPLACEMENT_SENDER_MISMATCH", "CLAIM_REPLACEMENT_CHAIN_UNKNOWN",
             "CLAIM_REPLACEMENT_CHAIN_MISMATCH", "CLAIM_REPLACEMENT_FEE_MODE_MISMATCH",
             "REPLACEMENT_FEE_TOO_LOW", "FEE_ESTIMATE_UNAVAILABLE"}
Results == {"", "submitted", "confirmed", "reverted", "CLAIM_PENDING",
            "CLAIM_REPLACED_OR_MINED", "RPC_ERROR"} \cup Refusals

\* over: the claim being replaced; tx: the one broadcast last (or resumed).
Invocation == [step : Steps, sender : Senders, chain : Chains, call : Calls,
               req : RequestSet, over : SUBSET Transactions, nonce : Nat,
               fee : Optional(Fees), tx : SUBSET Transactions, result : Results]

Idle == [step |-> "idle", sender |-> CHOOSE s \in Senders : TRUE,
         chain |-> CHOOSE c \in Chains : TRUE, call |-> CHOOSE k \in Calls : TRUE,
         req |-> CHOOSE r \in Requests : TRUE, over |-> {}, nonce |-> 0,
         fee |-> {}, tx |-> {}, result |-> ""]

At(p, step) == inv[p].step = step
Become(p, job) == inv' = [inv EXCEPT ![p] = job]
Finish(p, result) == Become(p, [Idle EXCEPT !.step = "done", !.result = result])

TypeOK == /\ NodeTypeOK
          /\ DOMAIN rows \subseteq sent
          /\ rows \in [DOMAIN rows -> Row(sent)]
          /\ lost \in 0..MaxLost
          /\ inv \in [Invocations -> Invocation]
-----------------------------------------------------------------------------
(* Starting a command                                                      *)

Start(p, s, c, k, r, over) ==
  Become(p, [Idle EXCEPT !.step = "prepare", !.sender = s, !.chain = c,
                         !.call = k, !.req = r, !.over = over])

\* claim <mirror> <claimedId>
Claim(p) ==
  /\ At(p, "idle")
  /\ \E s \in Senders, c \in Chains, k \in Calls, r \in Requests :
       /\ ~(r.wait = "submitted" /\ r.again)
       /\ Start(p, s, c, k, r, {})
  /\ UNCHANGED <<nodeVars, storeVars>>

\* requireStoredClaim: the row is read once, here.
Replaceable(h) == h \in DOMAIN rows /\ rows[h].status = "pending"

ReplaceRefusal(h, call) ==
  IF h \notin DOMAIN rows THEN "CLAIM_REPLACEMENT_NOT_FOUND"
  ELSE IF rows[h].status # "pending" THEN "CLAIM_NOT_PENDING"
  ELSE "CLAIM_REPLACEMENT_MISMATCH"

\* claim [mirror claimedId] --replace <hash>
Replace(p) ==
  /\ At(p, "idle")
  /\ \E h \in sent, s \in Senders, c \in Chains, k \in Calls, r \in Requests :
       /\ ~(r.wait = "submitted" /\ r.again)
       /\ \/ Replaceable(h) /\ k = h.call /\ Start(p, s, c, k, r, {h})
          \/ ~(Replaceable(h) /\ k = h.call) /\ Finish(p, ReplaceRefusal(h, k))
  /\ UNCHANGED <<nodeVars, storeVars>>

\* claim --resume <hash>
Resume(p) ==
  /\ At(p, "idle")
  /\ \E h \in sent, c \in Chains :
       \/ h \in DOMAIN rows /\ Become(p, [Idle EXCEPT !.step = "receipt", !.chain = c, !.tx = {h}])
       \/ h \notin DOMAIN rows /\ Finish(p, "CLAIM_RESUME_NOT_FOUND")
  /\ UNCHANGED <<nodeVars, storeVars>>
-----------------------------------------------------------------------------
(* prepareClaim                                                            *)

\* assertReplacementScope and the --nonce check, in the code's order; "" passes.
ChainKnown(h) == h \in DOMAIN rows => rows[h].chainKnown

ScopeUnchecked(job, h) == ""    \* mutation: no scope check

ScopeRefusal(job, h) ==
  IF h.sender # job.sender THEN "CLAIM_REPLACEMENT_SENDER_MISMATCH"
  ELSE IF ~ChainKnown(h) THEN "CLAIM_REPLACEMENT_CHAIN_UNKNOWN"
  ELSE IF h.chain # job.chain THEN "CLAIM_REPLACEMENT_CHAIN_MISMATCH"
  ELSE IF \E n \in job.req.nonce : n # h.nonce THEN "CLAIM_REPLACEMENT_MISMATCH"
  ELSE ""

\* Mutation: a replacement asks for a fresh nonce too.
FreshNonce(job) == PendingNonces(job.sender, job.chain)

\* The nonce of a replacement is the replaced claim's; a first submission
\* takes --nonce or the account's pending nonce.
NonceChoices(job) == IF job.over # {} THEN {h.nonce : h \in job.over}
                     ELSE IF job.req.nonce # {} THEN job.req.nonce
                     ELSE PendingNonces(job.sender, job.chain)

InScope(job) == \A h \in job.over : ScopeRefusal(job, h) = ""

\* The record the automatic replacement reads back from the journal, or
\* builds from memory when the journal has none, prices alike: the hash
\* determines the fee.
FeeAnswers(job) == {applyClaimFees(job.req.fees, {h.fee : h \in job.over}, q) : q \in Quotes}

\* The quote is awaited after the nonce.  It is unconstrained, so that reading
\* both in one step loses no behaviour.
Prepare(p) ==
  /\ At(p, "prepare")
  /\ \/ \E h \in inv[p].over : /\ ScopeRefusal(inv[p], h) # ""
                               /\ Finish(p, ScopeRefusal(inv[p], h))
     \/ /\ InScope(inv[p])
        /\ \E n \in NonceChoices(inv[p]), answer \in FeeAnswers(inv[p]) :
             IF answer.code = "ok"
               THEN Become(p, [inv[p] EXCEPT !.step = "send", !.nonce = n, !.fee = answer.fee])
               ELSE Finish(p, answer.code)
  /\ UNCHANGED <<nodeVars, storeVars>>
-----------------------------------------------------------------------------
(* submitClaim, then markDirectTransactionReplaced                         *)

Signed(job, fee) == [sender |-> job.sender, chain |-> job.chain, nonce |-> job.nonce,
                     fee |-> fee, call |-> job.call]

\* The broadcast answered: from here to the insert nothing is awaited, but the
\* process may die.
Send(p) ==
  /\ At(p, "send")
  /\ \E f \in inv[p].fee :
       /\ Broadcast(Signed(inv[p], f))
       /\ Become(p, [inv[p] EXCEPT !.step = "insert", !.tx = {Signed(inv[p], f)}])
  /\ UNCHANGED storeVars

\* The node refuses: underpriced, nonce already used, already known.
SendRefused(p) ==
  /\ At(p, "send")
  /\ \E f \in inv[p].fee : ~Accepts(Signed(inv[p], f))
  /\ Finish(p, "RPC_ERROR")
  /\ UNCHANGED <<nodeVars, storeVars>>

\* The node accepted the transaction and its answer was lost.
SendUnanswered(p) ==
  /\ At(p, "send")
  /\ \E f \in inv[p].fee : Broadcast(Signed(inv[p], f))
  /\ Finish(p, "RPC_ERROR")
  /\ UNCHANGED storeVars

\* Where a submitted transaction leads, by --wait.
AfterSubmit(p) == IF inv[p].req.wait = "submitted"
                    THEN Finish(p, "submitted")
                    ELSE Become(p, [inv[p] EXCEPT !.step = "wait"])

Insert(p) ==
  /\ At(p, "insert")
  /\ \E h \in inv[p].tx : Write(Inserted(h, inv[p].over))
  /\ IF inv[p].over = {} THEN AfterSubmit(p) ELSE Become(p, [inv[p] EXCEPT !.step = "link"])
  /\ UNCHANGED nodeVars

Link(p) ==
  /\ At(p, "link")
  /\ \E g \in inv[p].over, h \in inv[p].tx : Write(ReplacedMarked(g, h))
  /\ AfterSubmit(p)
  /\ UNCHANGED nodeVars
-----------------------------------------------------------------------------
(* waitForClaimReceipt and what follows                                    *)

WaitAnswered(p) ==
  /\ At(p, "wait")
  /\ \E h \in inv[p].tx : \E o \in AwaitedReceipts(h) :
       /\ Write(ReceiptMarked(h, o.status))
       /\ Finish(p, o.status)
  /\ UNCHANGED nodeVars

\* Mutation: the second wait has no end.
WaitTimedOutOnce(p) ==
  /\ At(p, "wait") /\ inv[p].req.again
  /\ Become(p, [inv[p] EXCEPT !.step = "prepare", !.over = inv[p].tx, !.req.again = FALSE])
  /\ UNCHANGED <<nodeVars, storeVars>>

\* After the first interval, --replace-after-ms prepares one replacement.
WaitTimedOut(p) ==
  /\ At(p, "wait")
  /\ IF inv[p].req.again
       THEN Become(p, [inv[p] EXCEPT !.step = "prepare", !.over = inv[p].tx,
                                     !.req.again = FALSE])
       ELSE Finish(p, "CLAIM_PENDING")
  /\ UNCHANGED <<nodeVars, storeVars>>

WaitFailed(p) ==
  /\ At(p, "wait")
  /\ \E h \in inv[p].tx : Write(FailedMarked(h, "RECEIPT_ERROR"))
  /\ Finish(p, "RPC_ERROR")
  /\ UNCHANGED nodeVars
-----------------------------------------------------------------------------
(* resumeClaim: the receipt, then the account's nonce, two RPC calls       *)

ResumeReceipt(p) ==
  /\ At(p, "receipt")
  /\ \E h \in inv[p].tx :
       \/ \E o \in ReceiptsOn(inv[p].chain, h) :
            /\ Write(ReceiptMarked(h, o.status))
            /\ Finish(p, o.status)
       \/ /\ ReceiptsOn(inv[p].chain, h) = {}
          /\ Become(p, [inv[p] EXCEPT !.step = "count"])
          /\ UNCHANGED storeVars
  /\ UNCHANGED nodeVars

ResumeCount(p) ==
  /\ At(p, "count")
  /\ \E h \in inv[p].tx :
       \/ /\ MinedCount(h.sender, inv[p].chain) > h.nonce
          /\ Write(FailedMarked(h, "CLAIM_REPLACED_OR_MINED"))
          /\ Finish(p, "CLAIM_REPLACED_OR_MINED")
       \/ /\ MinedCount(h.sender, inv[p].chain) <= h.nonce
          /\ Finish(p, "CLAIM_PENDING")
          /\ UNCHANGED storeVars
  /\ UNCHANGED nodeVars

\* Any other RPC call may fail: the command ends with its error.
RpcFails(p) ==
  /\ inv[p].step \in {"prepare", "send", "receipt", "count"}
  /\ Finish(p, "RPC_ERROR")
  /\ UNCHANGED <<nodeVars, storeVars>>
-----------------------------------------------------------------------------
Init == /\ sent = EarlierClaims \cup LegacyClaims
        /\ pool = sent
        /\ mined = [s \in Senders |-> [c \in Chains |-> <<>>]]
        /\ foreign = 0 /\ lost = 0
        /\ rows = [h \in sent |-> IF h \in LegacyClaims THEN LegacyRow ELSE PendingRow({})]
        /\ inv = [p \in Invocations |-> Idle]

Progress(p) == \/ Prepare(p) \/ Send(p) \/ SendRefused(p) \/ Insert(p) \/ Link(p)
               \/ WaitAnswered(p) \/ WaitTimedOut(p) \/ ResumeReceipt(p) \/ ResumeCount(p)

Failure(p) == SendUnanswered(p) \/ WaitFailed(p) \/ RpcFails(p)

Next == \/ NodeNext /\ UNCHANGED <<storeVars, inv>>
        \/ \E p \in Invocations : \/ Claim(p) \/ Replace(p) \/ Resume(p)
                                  \/ Progress(p) \/ Failure(p)

Spec == Init /\ [][Next]_vars

\* The RPC client answers or times out, and waiting for a receipt is bounded by
\* --timeout-ms: a process that keeps running takes its next step.  No failure
\* and nothing of the node is assumed to happen.
Fairness == \A p \in Invocations : WF_vars(Progress(p))
FairSpec == Spec /\ Fairness
-----------------------------------------------------------------------------
(* Correctness                                                             *)

\* A row says confirmed or reverted only if its own nonce on its own chain was
\* used, with that result, although the receipt update checks no status and
\* --resume may be run on any network.
SettledTruth ==
  \A h \in DOMAIN rows : rows[h].status \in Settled =>
    Consumed(h) /\ rows[h].status = OutcomeAt(h).status

Links(h) == rows[h].replacementOf \cup rows[h].replacedBy

\* A replacement, automatic or by --replace, journaled or not, is the same
\* claim of the same account on the same chain with the same nonce.
LinkedSameClaim ==
  \A h \in DOMAIN rows : \A g \in Links(h) : SameSlot(g, h) /\ g.call = h.call

\* A claim and its replacement never both execute.
NoDoubleClaim ==
  \A h \in DOMAIN rows : \A g \in Links(h) : IsMined(h) /\ IsMined(g) => g = h

\* A transaction a row names as its replacement pays more, by both caps and in
\* the same fee mode, whatever overrides and quotes were given.
ReplacementOutbids ==
  \A h \in DOMAIN rows : /\ \A g \in rows[h].replacedBy : Outbids(g.fee, h.fee)
                         /\ \A g \in rows[h].replacementOf : Outbids(h.fee, g.fee)

\* A replacement without overrides clears the node's price bump over the claim
\* it replaces, if that one paid a tip, so that only a competitor the command
\* has not seen can make the node refuse it as underpriced.
BumpClearsNode ==
  \A p \in Invocations : \A g \in inv[p].over, f \in inv[p].fee :
    (/\ inv[p].step = "send"
     /\ inv[p].req.fees = [max |-> {}, prio |-> {}]
     /\ g.fee.prio > 0) => PriceBumped(f, g.fee)

\* The journal implements its abstract life cycle.
Journal == INSTANCE ClaimJournal WITH
  status <- [h \in DOMAIN rows |-> rows[h].status],
  outcome <- [s \in Senders |-> [c \in Chains |->
                [i \in DOMAIN mined[s][c] |-> mined[s][c][i].status]]]

JournalLifecycle == Journal!JSpec

\* Every command ends, also when nothing is ever mined.
CommandEnds == \A p \in Invocations : (inv[p].step # "idle") ~> (inv[p].step = "done")

\* README.md:214 "A claim `confirmed` at this layer means the Mirror accepted
\* `ValueClaimingRequested`": some transaction making this claim was mined.
ConfirmedMeansAccepted ==
  \A h \in DOMAIN rows : rows[h].status = "confirmed" =>
    Consumed(h) /\ \E g \in OutcomeAt(h).by : g.call = h.call

\* docs/vara-eth-networks.md:100 "`CLAIM_REPLACED_OR_MINED` means the account
\* nonce advanced without a receipt for that hash".
WrittenOffNonceUsed ==
  \A h \in DOMAIN rows : rows[h].lastError = "CLAIM_REPLACED_OR_MINED" => Consumed(h)
=============================================================================
