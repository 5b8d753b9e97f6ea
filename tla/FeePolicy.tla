------------------------------ MODULE FeePolicy ------------------------------
(***************************************************************************)
(* The fee arithmetic of `vara-eth:mailbox claim`                          *)
(* (src/src/commands/vara-eth-mailbox.ts).  Fees are natural numbers (wei  *)
(* bigints).  A value the code may leave `undefined` is a set with at most *)
(* one element, so that `maximum(a, b, c)` is the maximum of a union.      *)
(***************************************************************************)
EXTENDS Integers, FiniteSetsExt

Optional(S) == {X \in SUBSET S : \A x, y \in X : x = y}

\* A transaction prices its gas either by EIP-1559 caps or by one gasPrice.
\* A node compares a legacy price with both caps of a competitor.
FeeModes == {"eip1559", "legacy"}
Fees == {f \in [mode : FeeModes, max : Nat, prio : Nat] :
           f.mode = "legacy" => f.prio = f.max}
Eip1559(max, prio) == [mode |-> "eip1559", max |-> max, prio |-> prio]
Legacy(price) == [mode |-> "legacy", max |-> price, prio |-> price]

\* Overrides are the two fee flags; a quote is what the RPC node answers to
\* estimateFeesPerGas (either field may be missing) and to getGasPrice.
FeeOverrides == [max : Optional(Nat), prio : Optional(Nat)]
FeeQuotes == [max : Optional(Nat), prio : Optional(Nat), price : Nat]

Accepted(fee) == [code |-> "ok", fee |-> {fee}]
Refused(code) == [code |-> code, fee |-> {}]
-----------------------------------------------------------------------------
\* A replacement's 12.5 percent and a quote's 20 percent, rounded up.
BumpRoundedDown(v) == (v * 1125) \div 1000   \* mutation: plain division

Bump(v) == (v * 1125 + 1000 - 1) \div 1000
Headroom(v) == (v * 1200 + 1000 - 1) \div 1000

replacementBump(values) == {Bump(v) : v \in values}
feeHeadroom(values) == {Headroom(v) : v \in values}

CapOf(previous) == {f.max : f \in {g \in previous : g.mode = "eip1559"}}
TipOf(previous) == {f.prio : f \in {g \in previous : g.mode = "eip1559"}}
PriceOf(previous) == {f.max : f \in {g \in previous : g.mode = "legacy"}}

\* An explicit override that does not exceed the value it replaces.
TooLow(explicit, previous) == \E e \in explicit, p \in previous : e <= p

\* Mutation: the caps of the replaced transaction left out of the maximum.
quotedFeesForgetPrevious(explicit, previous, quote) ==
  LET caps == explicit.max \cup feeHeadroom(quote.max)
      tips == explicit.prio \cup quote.prio
  IN  IF caps # {} /\ tips # {} THEN Accepted(Eip1559(Max(caps), Max(tips)))
                                ELSE Refused("FEE_ESTIMATE_UNAVAILABLE")

quotedFees(explicit, previous, quote) ==
  LET caps == explicit.max \cup feeHeadroom(quote.max) \cup replacementBump(CapOf(previous))
      tips == explicit.prio \cup quote.prio \cup replacementBump(TipOf(previous))
  IN  IF caps # {}
        THEN IF tips # {} THEN Accepted(Eip1559(Max(caps), Max(tips)))
                          ELSE Refused("FEE_ESTIMATE_UNAVAILABLE")
      ELSE IF explicit.prio # {} THEN Refused("FEE_ESTIMATE_UNAVAILABLE")
                                 ELSE Accepted(Legacy(quote.price))

\* `previous` is {} for a first submission, {fee} for a replacement.
applyClaimFees(explicit, previous, quote) ==
  IF PriceOf(previous) # {}
    THEN IF explicit.max \cup explicit.prio # {}
           THEN Refused("CLAIM_REPLACEMENT_FEE_MODE_MISMATCH")
           ELSE Accepted(Legacy(Max({quote.price} \cup replacementBump(PriceOf(previous)))))
  ELSE IF \/ TooLow(explicit.max, CapOf(previous))
          \/ TooLow(explicit.prio, TipOf(previous))
    THEN Refused("REPLACEMENT_FEE_TOO_LOW")
  ELSE IF explicit.max # {} /\ explicit.prio # {}
    THEN Accepted(Eip1559(Max(explicit.max), Max(explicit.prio)))
    ELSE quotedFees(explicit, previous, quote)
-----------------------------------------------------------------------------
\* What a replacement's fee is to be: the same fee mode, and by both caps more
\* than the replaced transaction's, except that 12.5 percent of nothing is
\* nothing.
Exceeds(new, old) == new >= old /\ (old > 0 => new > old)
Outbids(new, old) == /\ new.mode = old.mode
                     /\ Exceeds(new.max, old.max)
                     /\ Exceeds(new.prio, old.prio)

\* An Ethereum node's price bump: it drops a same-nonce transaction unless
\* both caps grow by a tenth (go-ethereum's txpool default).
PriceBumped(new, old) == /\ new.max > old.max /\ new.prio > old.prio
                         /\ 10 * new.max >= 11 * old.max
                         /\ 10 * new.prio >= 11 * old.prio
=============================================================================
