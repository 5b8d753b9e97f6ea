------------------------------ MODULE Trading ------------------------------
(***************************************************************************)
(* The commands that spend tokens of one account, run by several CLI       *)
(* processes at once: dex swap, add-liquidity and remove-liquidity with    *)
(* their automatic approvals (src/src/commands/dex.ts), the token commands *)
(* (vft.ts) and call with its previews (call.ts).                          *)
(*                                                                         *)
(* Every transaction is simulated when its gas is calculated, then signed  *)
(* and sent, then executed by the chain, in a state others have changed.   *)
(* The token and pair programs are external: a constant product pair, and  *)
(* tokens of which some accept an approval only over a zero allowance.     *)
(***************************************************************************)
EXTENDS Amounts, Sequences, FiniteSets, TLC

CONSTANTS Commands,   \* CLI processes, each running one command
          Jobs,       \* what a command may be asked to do
          Ledgers,    \* initial states of the programs
          ZeroFirst,  \* tokens that demand a zero allowance before an approval
          DefaultDeadline, \* DEFAULT_DEADLINE_SECONDS
          Expiry,     \* the time the voucher expires
          MaxTime,    \* bound on the clock
          MaxTrades   \* bound on other traders' swaps

PoolTokens == {"t0", "t1"}
Tokens == PoolTokens \cup {"lp"}
PoolKinds == {"swapIn", "swapOut", "add", "remove"}
VftKinds == {"approve", "transfer", "transferFrom", "mint", "burn"}

\* token: the input token, the first token of a deposit, or the token program; swapIn and
\* swapOut are the two modes of dex swap; call calls the token's Approve.  deadline is
\* what --deadline says.
Job == [kind : PoolKinds \cup VftKinds \cup {"call"}, token : Tokens, amount : Nat,
        amount2 : Nat, bps : Int, deadline : Int, skipApprove : BOOLEAN,
        voucher : BOOLEAN, dryRun : BOOLEAN, estimate : BOOLEAN, gasLimit : BOOLEAN]

Ledger == [reserve : [PoolTokens -> Nat], supply : Nat,
           owner : [Tokens -> Nat], allowance : [Tokens -> Nat]]

\* Others hold a share of the pool as well, so that no withdrawal of the account empties it.
Funded(l) == l.owner["lp"] < l.supply /\ \A t \in PoolTokens : l.reserve[t] > 0

\* Only call has previews; a swap and a deposit name the tokens of the pair.
ASSUME TradingAssumption ==
  /\ Jobs \subseteq Job /\ ZeroFirst \subseteq Tokens
  /\ Ledgers \subseteq Ledger /\ \A l \in Ledgers : Funded(l)
  /\ {DefaultDeadline, Expiry, MaxTime, MaxTrades} \subseteq Nat
  /\ \A j \in Jobs : /\ (j.dryRun \/ j.estimate \/ j.gasLimit) => j.kind = "call"
                     /\ j.kind \in {"swapIn", "swapOut", "add"} => j.token \in PoolTokens

VARIABLES ledger,  \* the token and pair programs
          now,     \* the chain's timestamp
          trades,  \* swaps of other traders so far
          cmd      \* cmd[p] : the locals of process p

vars == <<ledger, now, trades, cmd>>

Message == [method : {"none"} \cup PoolKinds \cup VftKinds, token : Tokens,
            amounts : Seq(Nat), limits : Seq(Nat)]
Empty == [method |-> "none", token |-> "lp", amounts |-> <<>>, limits |-> <<>>]
Call(method, token, amounts, limits) ==
  [method |-> method, token |-> token, amounts |-> amounts, limits |-> limits]

Steps == {"start", "deadline", "quote", "allowance", "reset", "approve", "voucher", "build",
          "sent", "done"}
Errors == {"EXPIRED", "SLIPPAGE", "ALLOWANCE", "BALANCE", "APPROVE"}
VoucherErrors == {"INVALID_VOUCHER_ID", "VOUCHER_NOT_FOUND", "VOUCHER_PROGRAM_MISMATCH",
                  "VOUCHER_EXPIRED"}
Results == Errors \cup VoucherErrors \cup {"", "ok", "preview", "INVALID_SLIPPAGE",
  "INVALID_AMOUNT", "INVALID_DEADLINE", "QUERY_FAILED", "PROGRAM_ERROR"}
\* message: the transaction the command is for; need: the approvals still to be made;
\* sending: the transaction in flight; quote: what the pair promised, at pool quoted;
\* disturbed: tokens whose allowance another command changed since this one read it.
Command == [job : Job, step : Steps, sending : {"", "reset", "approve", "build"},
            message : Message, need : Seq(Tokens \X Nat), deadline : Nat,
            quote : Seq(Nat), quoted : [reserve : [PoolTokens -> Nat], supply : Nat],
            disturbed : SUBSET Tokens, result : Results]

Pool(l) == [reserve |-> l.reserve, supply |-> l.supply]
-----------------------------------------------------------------------------
(* External: the programs.  Each call returns an error or a new ledger.    *)

Ok(l) == [error |-> "", ledger |-> l]
Fail(error, l) == [error |-> error, ledger |-> l]
Other(token) == IF token = "t0" THEN "t1" ELSE "t0"

AmountOut(amountIn, in, l) ==
  (amountIn * l.reserve[Other(in)]) \div (l.reserve[in] + amountIn)
AmountIn(amountOut, in, l) ==
  CeilDiv(amountOut * l.reserve[in], l.reserve[Other(in)] - amountOut)

\* The pair draws the given amounts from the account against its allowance.
Of(token, amount) == [t \in Tokens |-> IF t = token THEN amount ELSE 0]
Both(a, b) == [t \in Tokens |-> CASE t = "t0" -> a [] t = "t1" -> b [] t = "lp" -> 0]
Less(held, draw) == [t \in Tokens |-> held[t] - draw[t]]
Drawn(draw, l) == [l EXCEPT !.owner = Less(@, draw), !.allowance = Less(@, draw)]
Refusal(draw, l) ==
  IF \E t \in Tokens : l.allowance[t] < draw[t] THEN "ALLOWANCE"
  ELSE IF \E t \in Tokens : l.owner[t] < draw[t] THEN "BALANCE" ELSE ""

Trade(in, amountIn, amountOut, l) ==
  [l EXCEPT !.reserve = [t \in PoolTokens |-> IF t = in THEN @[t] + amountIn ELSE @[t] - amountOut]]
Swap(in, amountIn, amountOut, l) ==
  LET draw == Of(in, amountIn)
  IN  IF Refusal(draw, l) # "" THEN Fail(Refusal(draw, l), l)
      ELSE Ok([Trade(in, amountIn, amountOut, Drawn(draw, l)) EXCEPT !.owner[Other(in)] = @ + amountOut])

Deposit(a, b, l) ==
  LET draw == Both(a, b)
      shares == {(a * l.supply) \div l.reserve["t0"], (b * l.supply) \div l.reserve["t1"]}
      minted == CHOOSE s \in shares : \A r \in shares : s <= r
  IN  IF Refusal(draw, l) # "" THEN Fail(Refusal(draw, l), l)
      ELSE Ok([Drawn(draw, l) EXCEPT !.reserve = [t \in PoolTokens |-> @[t] + draw[t]],
                                     !.supply = @ + minted, !.owner["lp"] = @ + minted])

Shares(lp, l) == [t \in PoolTokens |-> (lp * l.reserve[t]) \div l.supply]
Withdraw(lp, l) ==
  LET draw == Of("lp", lp)
      d == Drawn(draw, l)
  IN  IF Refusal(draw, l) # "" THEN Fail(Refusal(draw, l), l)
      ELSE Ok([d EXCEPT !.supply = @ - lp,
                        !.reserve = [t \in PoolTokens |-> @[t] - Shares(lp, l)[t]],
                        !.owner = [t \in Tokens |-> @[t] + (IF t = "lp" THEN 0 ELSE Shares(lp, l)[t])]])

SwapIn(in, amount, least, l) ==
  LET out == AmountOut(amount, in, l)
  IN  IF out < least THEN Fail("SLIPPAGE", l) ELSE Swap(in, amount, out, l)
SwapOut(in, amount, most, l) ==
  IF amount >= l.reserve[Other(in)] \/ AmountIn(amount, in, l) > most THEN Fail("SLIPPAGE", l)
  ELSE Swap(in, AmountIn(amount, in, l), amount, l)
Add(taken, least, l) ==
  IF taken[1] < least[1] \/ taken[2] < least[2] THEN Fail("SLIPPAGE", l)
  ELSE Deposit(taken[1], taken[2], l)
Remove(lp, least, l) ==
  IF Shares(lp, l)["t0"] < least[1] \/ Shares(lp, l)["t1"] < least[2] THEN Fail("SLIPPAGE", l)
  ELSE Withdraw(lp, l)

\* A token's own mint and transferFrom meet no other limit than what others hold of the pool.
Execute(m, deadline, l) ==
  LET a == m.amounts
      min == m.limits
  IN CASE m.method \in PoolKinds /\ now > deadline -> Fail("EXPIRED", l)
       [] m.method = "approve" ->
            IF m.token \in ZeroFirst /\ l.allowance[m.token] > 0 /\ a[1] > 0
              THEN Fail("APPROVE", l) ELSE Ok([l EXCEPT !.allowance[m.token] = a[1]])
       [] m.method \in {"transfer", "burn"} ->
            IF l.owner[m.token] < a[1] THEN Fail("BALANCE", l)
            ELSE Ok([l EXCEPT !.owner[m.token] = @ - a[1]])
       [] m.method \in {"mint", "transferFrom"} ->
            IF m.token = "lp" /\ l.owner["lp"] + a[1] >= l.supply THEN Fail("BALANCE", l)
            ELSE Ok([l EXCEPT !.owner[m.token] = @ + a[1]])
       [] m.method = "swapIn" /\ now <= deadline -> SwapIn(m.token, a[1], min[1], l)
       [] m.method = "swapOut" /\ now <= deadline -> SwapOut(m.token, a[1], min[1], l)
       [] m.method = "add" /\ now <= deadline ->
            Add(optimalDeposit(a[1], a[2], l.reserve["t0"], l.reserve["t1"]), min, l)
       [] m.method = "remove" /\ now <= deadline -> Remove(a[1], min, l)
-----------------------------------------------------------------------------
(* A command. *)

Goes(p, c) == cmd' = [cmd EXCEPT ![p] = c]
Ended(c, result) == [c EXCEPT !.step = "done", !.result = result]

InvalidSlippage(j) == j.kind \in PoolKinds /\ ~validSlippage(j.bps)
InvalidAmount(j) ==
  j.kind \in PoolKinds /\ (j.amount = 0 \/ (j.kind = "add" /\ j.amount2 = 0))

\* vft commands and call: one transaction, whose arguments are the command line's.
Direct(j) == Call(IF j.kind = "call" THEN "approve" ELSE j.kind, j.token, <<j.amount>>, <<>>)

Begin(p) ==
  LET c == cmd[p]
      j == c.job
  IN  /\ c.step = "start"
      /\ Goes(p, CASE InvalidSlippage(j) -> Ended(c, "INVALID_SLIPPAGE")
                   [] j.dryRun /\ ~j.estimate -> Ended(c, "preview")
                   [] j.kind \notin PoolKinds /\ ~(j.dryRun /\ ~j.estimate) ->
                        [c EXCEPT !.step = "voucher", !.message = Direct(j)]
                   [] j.kind \in PoolKinds /\ ~InvalidSlippage(j) ->
                        [c EXCEPT !.step = IF j.kind \in {"swapIn", "swapOut"} THEN "deadline"
                                           ELSE "quote"])
      /\ UNCHANGED <<ledger, now, trades>>

AfterDeadline(c) == IF c.job.kind \in {"swapIn", "swapOut"} THEN "quote" ELSE "allowance"
ReadDeadlineUnchecked(p) ==
  /\ cmd[p].step = "deadline"
  /\ Goes(p, [cmd[p] EXCEPT !.deadline = resolveDeadline(now, cmd[p].job.deadline, DefaultDeadline),
                            !.step = AfterDeadline(cmd[p])])
  /\ UNCHANGED <<ledger, now, trades>>

\* swap fixes its deadline before the quote, the liquidity commands after it; both
\* before the approvals.
ReadDeadline(p) ==
  LET c == cmd[p]
  IN  /\ c.step = "deadline"
      /\ Goes(p, IF c.job.deadline < 0 THEN Ended(c, "INVALID_DEADLINE")
                 ELSE [c EXCEPT !.deadline = resolveDeadline(now, c.job.deadline, DefaultDeadline),
                                !.step = AfterDeadline(c)])
      /\ UNCHANGED <<ledger, now, trades>>

DirectionForward(j) == "t0"
\* resolveTokenDirection: which of the pair's tokens goes in.
Direction(j) == j.token

\* What each command asks of the pair at its quote: the amounts promised, the message
\* with the limits computed from them, the allowances the message will draw on.
Terms(j, quote, asked, limits, need) ==
  [quote |-> quote, need |-> IF j.skipApprove THEN <<>> ELSE need,
   message |-> Call(j.kind, IF j.kind \in {"swapIn", "swapOut"} THEN Direction(j) ELSE j.token,
                    asked, limits)]
Min(quote, bps) == [i \in DOMAIN quote |-> computeMinAmount(quote[i], bps)]

SwapTerms(j, l) ==
  IF j.kind = "swapIn"
  THEN LET out == AmountOut(j.amount, j.token, l)
       IN  Terms(j, <<out>>, <<j.amount>>, Min(<<out>>, j.bps), << <<j.token, j.amount>> >>)
  ELSE LET in == AmountIn(j.amount, j.token, l)
           inMax == computeMaxAmount(in, j.bps)
       IN  Terms(j, <<in>>, <<j.amount>>, <<inMax>>, << <<j.token, inMax>> >>)

\* The amounts in the order of the pair's tokens, whichever was named first.
Asked(j) == IF j.token = "t0" THEN <<j.amount, j.amount2>> ELSE <<j.amount2, j.amount>>
AddTermsOfAsked(j, l) ==
  LET asked == Asked(j)
  IN  Terms(j, asked, asked, Min(asked, j.bps), << <<"t0", asked[1]>>, <<"t1", asked[2]>> >>)
AddTerms(j, l) ==
  LET asked == Asked(j)
      optimal == optimalDeposit(asked[1], asked[2], l.reserve["t0"], l.reserve["t1"])
  IN  Terms(j, optimal, asked, Min(optimal, j.bps), << <<"t0", asked[1]>>, <<"t1", asked[2]>> >>)

RemoveTerms(j, l) ==
  LET s == Shares(j.amount, l)
      expected == <<s["t0"], s["t1"]>>
  IN  Terms(j, expected, <<j.amount>>, Min(expected, j.bps), << <<"lp", j.amount>> >>)

Bargain(j, pool) ==
  CASE j.kind \in {"swapIn", "swapOut"} -> SwapTerms(j, pool)
    [] j.kind = "add" -> AddTerms(j, pool)
    [] j.kind = "remove" -> RemoveTerms(j, pool)

\* The amounts, checked as they are resolved, then the pair's answer.
Quote(p) ==
  LET c == cmd[p]
      j == c.job
      terms == Bargain(j, Pool(ledger))
  IN  /\ c.step = "quote"
      /\ Goes(p, IF InvalidAmount(j) THEN Ended(c, "INVALID_AMOUNT")
                 ELSE IF j.kind = "swapOut" /\ j.amount >= ledger.reserve[Other(j.token)]
                   THEN Ended(c, "QUERY_FAILED")
                 ELSE [c EXCEPT !.quote = terms.quote, !.quoted = Pool(ledger),
                                !.message = terms.message, !.need = terms.need,
                                !.step = IF j.kind \in {"swapIn", "swapOut"} THEN "allowance"
                                         ELSE "deadline"])
      /\ UNCHANGED <<ledger, now, trades>>

ShortfallNoReset(allowance, required) == IF allowance >= required THEN "none" ELSE "approve"
\* ensureApproval: which transaction the allowance just read calls for.
Shortfall(allowance, required) ==
  CASE allowance >= required -> "none"
    [] allowance < required /\ allowance > 0 -> "reset"
    [] allowance < required /\ allowance = 0 -> "approve"

CheckAllowance(p) ==
  LET c == cmd[p]
  IN  /\ c.step = "allowance" /\ c.need # <<>>
      /\ LET token == Head(c.need)[1]
             short == Shortfall(ledger.allowance[token], Head(c.need)[2])
         IN  Goes(p, [c EXCEPT !.disturbed = @ \ {token},
                               !.need = IF short = "none" THEN Tail(@) ELSE @,
                               !.step = IF short = "none" THEN @ ELSE short])
      /\ UNCHANGED <<ledger, now, trades>>

Approved(p) ==
  /\ cmd[p].step = "allowance" /\ cmd[p].need = <<>>
  /\ Goes(p, [cmd[p] EXCEPT !.step = "voucher"])
  /\ UNCHANGED <<ledger, now, trades>>

\* The voucher is looked at only before the command's own transaction; one whose expiry
\* cannot be read passes.
ValidateVoucher(p) ==
  LET c == cmd[p]
  IN  /\ c.step = "voucher"
      /\ \/ Goes(p, [c EXCEPT !.step = "build"])
         \/ /\ c.job.voucher
            /\ \E r \in VoucherErrors : /\ r = "VOUCHER_EXPIRED" => now >= Expiry
                                        /\ Goes(p, Ended(c, r))
      /\ UNCHANGED <<ledger, now, trades>>

Transaction(c, sending) ==
  CASE sending = "reset" -> Call("approve", Head(c.need)[1], <<0>>, <<>>)
    [] sending = "approve" -> Call("approve", Head(c.need)[1], <<Head(c.need)[2]>>, <<>>)
    [] sending = "build" -> c.message

PreviewsUnlessDry(j) == j.estimate /\ ~j.dryRun
Previews(j) == j.estimate

\* calculateGas runs the message on the current state: an error ends the command.
\* A gas limit given to call skips it; --estimate stops after it.
Submit(p) ==
  LET c == cmd[p]
      r == Execute(Transaction(c, c.step), c.deadline, ledger)
  IN  /\ c.step \in {"reset", "approve", "build"}
      /\ Goes(p, CASE r.error # "" /\ ~c.job.gasLimit -> Ended(c, r.error)
                   [] Previews(c.job) /\ (r.error = "" \/ c.job.gasLimit) -> Ended(c, "preview")
                   [] ~Previews(c.job) /\ (r.error = "" \/ c.job.gasLimit) ->
                        [c EXCEPT !.step = "sent", !.sending = c.step])
      /\ UNCHANGED <<ledger, now, trades>>

\* The transaction is in a block: every other command's reading of what it changed is old.
Included(p, c, l) ==
  /\ ledger' = l
  /\ cmd' = [q \in Commands |->
              IF q = p THEN c
              ELSE IF cmd[q].step = "done" THEN cmd[q]
              ELSE [cmd[q] EXCEPT !.disturbed = @ \cup
                     {t \in Tokens : l.allowance[t] # ledger.allowance[t]}]]
  /\ UNCHANGED <<now, trades>>

AfterReply(c) ==
  CASE c.sending = "reset" -> [c EXCEPT !.step = "approve", !.sending = ""]
    [] c.sending = "approve" ->
         [c EXCEPT !.need = Tail(@), !.step = "allowance", !.sending = ""]
    [] c.sending = "build" -> Ended([c EXCEPT !.sending = ""], "ok")

Reply(p) ==
  LET c == cmd[p]
      r == Execute(Transaction(c, c.sending), c.deadline, ledger)
  IN  /\ c.step = "sent"
      /\ Included(p, IF r.error # "" THEN Ended(c, r.error) ELSE AfterReply(c), r.ledger)

\* The connection fails after the submission: the command reports an error, whether
\* or not the transaction is executed.
AnswerLost(p) ==
  LET c == cmd[p]
  IN  /\ c.step = "sent"
      /\ \E l \in {ledger, Execute(Transaction(c, c.sending), c.deadline, ledger).ledger} :
           Included(p, Ended(c, "PROGRAM_ERROR"), l)
-----------------------------------------------------------------------------
(* External: other traders and the clock. *)

OtherTrade ==
  /\ trades < MaxTrades
  /\ \E in \in PoolTokens, amount \in 1..2 :
       /\ AmountOut(amount, in, ledger) > 0
       /\ ledger' = Trade(in, amount, AmountOut(amount, in, ledger), ledger)
  /\ trades' = trades + 1
  /\ UNCHANGED <<now, cmd>>

Tick ==
  /\ now < MaxTime
  /\ now' = now + 1
  /\ UNCHANGED <<ledger, trades, cmd>>

Fresh(j, l) ==
  [job |-> j, step |-> "start", sending |-> "", message |-> Empty, need |-> <<>>, deadline |-> 0,
   quote |-> <<>>, quoted |-> Pool(l), disturbed |-> {}, result |-> ""]

Init ==
  /\ ledger \in Ledgers
  /\ now = 0
  /\ trades = 0
  /\ \E job \in [Commands -> Jobs] : cmd = [p \in Commands |-> Fresh(job[p], ledger)]

Next ==
  \/ \E p \in Commands :
       \/ Begin(p) \/ ReadDeadline(p) \/ Quote(p) \/ CheckAllowance(p) \/ Approved(p)
       \/ ValidateVoucher(p) \/ Submit(p) \/ Reply(p) \/ AnswerLost(p)
  \/ OtherTrade \/ Tick

Spec == Init /\ [][Next]_vars
-----------------------------------------------------------------------------
\* Reserves and balances stay natural numbers, and a command holds an approval to
\* make only while it makes approvals.
TypeOK ==
  /\ ledger \in Ledger /\ now \in 0..MaxTime /\ trades \in 0..MaxTrades
  /\ cmd \in [Commands -> Command]
  /\ \A p \in Commands : cmd[p].step \in {"voucher", "build"} => cmd[p].need = <<>>

Executed(p) == cmd[p].step = "sent" /\ cmd[p].sending = "build" /\ cmd'[p].result = "ok"
Rejected(p, error) == cmd[p].result = "" /\ cmd'[p].result = error
Gain(t) == ledger'.owner[t] - ledger.owner[t]

\* A swap reported as done took the token and gave the other at no worse than the
\* quote less the slippage asked for, in the direction asked for, whatever traded in
\* between; a deposit takes each token within what was asked for it and the slippage.
QuoteHonoured ==
  [][\A p \in Commands : Executed(p) =>
       LET j == cmd[p].job
           promised == cmd[p].quote
           atLeast(gain, i) == 10000 * (gain + 1) > promised[i] * (10000 - j.bps)
       IN  /\ j.kind = "swapIn" => Gain(j.token) = -j.amount /\ atLeast(Gain(Other(j.token)), 1)
           /\ j.kind = "swapOut" =>
                /\ Gain(Other(j.token)) = j.amount
                /\ 10000 * (-Gain(j.token) - 1) < promised[1] * (10000 + j.bps)
           /\ j.kind = "add" =>
                /\ -Gain(j.token) <= j.amount /\ -Gain(Other(j.token)) <= j.amount2
                /\ atLeast(-Gain("t0"), 1) /\ atLeast(-Gain("t1"), 2)
           /\ j.kind = "remove" =>
                /\ Gain("lp") = -j.amount
                /\ atLeast(Gain("t0"), 1) /\ atLeast(Gain("t1"), 2)]_vars

\* A command that approves by itself is refused for its allowance, or for approving
\* over one, only if another command changed an allowance after it read it.
ApprovalsSuffice ==
  \A p \in Commands :
    /\ cmd[p].result \in {"ALLOWANCE", "APPROVE"}
    /\ cmd[p].job.kind \in PoolKinds
    /\ ~cmd[p].job.skipApprove
    => cmd[p].disturbed # {}

\* The pair refuses the limits only if the pool moved since the quote: the limits of
\* an off-ratio deposit come from the amounts the pair will really take.
QuoteStands ==
  [][\A p \in Commands : Rejected(p, "SLIPPAGE") => Pool(ledger) # cmd[p].quoted]_vars

\* A preview sends nothing: not with --estimate, not with --dry-run, not with both.
PreviewsSendNothing ==
  \A p \in Commands : (cmd[p].job.dryRun \/ cmd[p].job.estimate) =>
                       cmd[p].step # "sent" /\ cmd[p].result # "ok"
=============================================================================
