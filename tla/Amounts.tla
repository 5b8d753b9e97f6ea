------------------------------ MODULE Amounts ------------------------------
(***************************************************************************)
(* Arithmetic of the DEX commands (src/src/commands/dex.ts): slippage      *)
(* bounds, the amounts a deposit takes, the deadline.  Price impact and    *)
(* the conversion of units only print.                                     *)
(***************************************************************************)
EXTENDS Integers

CeilDiv(a, b) == (a + b - 1) \div b

validSlippage(bps) == bps >= 0 /\ bps <= 5000

\* amount * (10000n - bps) / 10000n, and its ceiling counterpart.
computeMinAmount(amount, bps) == (amount * (10000 - bps)) \div 10000

computeMaxAmount(amount, bps) == CeilDiv(amount * (10000 + bps), 10000)

\* The two amounts of a deposit at the pool's ratio (add-liquidity).
optimalDeposit(amountA, amountB, reserveA, reserveB) ==
  IF reserveA = 0 \/ reserveB = 0 THEN <<amountA, amountB>>
  ELSE LET quotedB == (amountA * reserveB) \div reserveA
       IN  IF quotedB <= amountB THEN <<amountA, quotedB>>
           ELSE <<(amountB * reserveA) \div reserveB, amountB>>

\* resolveDeadline: 0 and NaN are falsy and take the default.
resolveDeadline(now, seconds, default) == now + (IF seconds = 0 THEN default ELSE seconds)
=============================================================================
