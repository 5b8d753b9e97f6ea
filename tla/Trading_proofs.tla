-------------------------- MODULE Trading_proofs --------------------------
(***************************************************************************)
(* Proofs about the commands that spend tokens, for any number of          *)
(* commands, command lines, pools, voucher expiry, foreign trades and      *)
(* moments: amounts stay natural, quotes are honoured, the limits sent are *)
(* those of the quote, approvals suffice, previews send nothing.           *)
(***************************************************************************)
EXTENDS Trading, SequenceTheorems, TLAPS

\* The ledger as every transaction leaves it.
Solvent(l) == l \in Ledger /\ Funded(l)
Pools == [reserve : [PoolTokens -> Nat], supply : Nat]
Deep(pool) == pool.supply > 0 /\ \A t \in PoolTokens : pool.reserve[t] > 0
-----------------------------------------------------------------------------
(* Arithmetic                                                              *)

LEMMA Division ==
  ASSUME NEW a \in Nat, NEW b \in Nat \ {0}
  PROVE  a \div b \in Nat /\ (a \div b) * b <= a /\ a < (a \div b) * b + b
  OBVIOUS

LEMMA DivisionBelow ==
  ASSUME NEW a \in Nat, NEW b \in Nat \ {0}, NEW c \in Nat, a < c * b
  PROVE  a \div b < c
<1> DEFINE q == a \div b
<1>1. q \in Nat /\ q * b <= a  BY Division
<1> HIDE DEF q
<1>2. q < c  BY <1>1
<1> QED  BY <1>2 DEF q

LEMMA DivisionAtMost ==
  ASSUME NEW a \in Nat, NEW b \in Nat \ {0}, NEW c \in Nat, a <= c * b
  PROVE  a \div b <= c
<1>1. a < (c + 1) * b  OBVIOUS
<1> QED  BY <1>1, DivisionBelow, Division

\* The least amount keeps all but the slippage, the most adds it, each rounded for the user.
LEMMA MinAmount ==
  ASSUME NEW a \in Nat, NEW bps \in Int, validSlippage(bps)
  PROVE  /\ computeMinAmount(a, bps) \in Nat /\ computeMinAmount(a, bps) <= a
         /\ 10000 * (computeMinAmount(a, bps) + 1) > a * (10000 - bps)
<1> DEFINE n == a * (10000 - bps)
<1>1. n \in Nat /\ n <= a * 10000  BY DEF validSlippage
<1>2. computeMinAmount(a, bps) = n \div 10000  BY DEF computeMinAmount
<1> HIDE DEF n
<1>3. n \div 10000 \in Nat /\ n \div 10000 <= a /\ 10000 * (n \div 10000 + 1) > n  BY <1>1
<1> QED  BY <1>2, <1>3 DEF n

LEMMA MaxAmount ==
  ASSUME NEW a \in Nat, NEW bps \in Int, validSlippage(bps)
  PROVE  /\ computeMaxAmount(a, bps) \in Nat /\ a <= computeMaxAmount(a, bps)
         /\ 10000 * (computeMaxAmount(a, bps) - 1) < a * (10000 + bps)
<1> DEFINE n == a * (10000 + bps)
<1>1. n \in Nat /\ n >= a * 10000  BY DEF validSlippage
<1>2. computeMaxAmount(a, bps) = (n + 10000 - 1) \div 10000
  BY DEF computeMaxAmount, CeilDiv
<1> DEFINE m == (n + 10000 - 1) \div 10000
<1> HIDE DEF n
<1>3. m \in Nat /\ m >= a /\ 10000 * (m - 1) < n  BY <1>1
<1> QED  BY <1>2, <1>3 DEF n

\* A deposit takes no more of either token than was offered.
LEMMA OptimalAtMost ==
  ASSUME NEW a \in Nat, NEW b \in Nat, NEW ra \in Nat \ {0}, NEW rb \in Nat \ {0}
  PROVE  LET o == optimalDeposit(a, b, ra, rb)
         IN  o = <<o[1], o[2]>> /\ o[1] \in Nat /\ o[2] \in Nat /\ o[1] <= a /\ o[2] <= b
<1> DEFINE o == optimalDeposit(a, b, ra, rb)
           qb == (a * rb) \div ra
           qa == (b * ra) \div rb
<1>1. a * rb \in Nat /\ b * ra \in Nat  OBVIOUS
<1>2. qb \in Nat /\ a * rb < qb * ra + ra /\ qa \in Nat  BY <1>1, Division
<1>3. o = IF qb <= b THEN <<a, qb>> ELSE <<qa, b>>  BY DEF optimalDeposit
<1>4. CASE qb <= b
  BY <1>2, <1>3, <1>4
<1>5. CASE qb > b
  <2> HIDE DEF qa
  <2>1. b * ra <= a * rb
    <3>1. qb * ra <= a * rb  BY <1>1, Division
    <3> HIDE DEF qb
    <3>2. b * ra <= qb * ra  BY <1>2, <1>5
    <3> QED  BY <3>1, <3>2, <1>1, <1>2
  <2>2. qa <= a  BY <2>1, <1>1, DivisionAtMost DEF qa
  <2> QED  BY <1>2, <1>3, <1>5, <2>2
<1> QED  BY <1>2, <1>4, <1>5
-----------------------------------------------------------------------------
(* What the pair quotes                                                    *)

LEMMA Tokens3 ==
  /\ PoolTokens \subseteq Tokens /\ "lp" \in Tokens /\ "lp" \notin PoolTokens
  /\ \A t \in PoolTokens : Other(t) \in PoolTokens /\ Other(t) # t
  BY DEF Tokens, PoolTokens, Other

LEMMA SolventIs ==
  ASSUME NEW l, Solvent(l)
  PROVE  /\ l \in Ledger /\ Pool(l) \in Pools /\ Deep(Pool(l))
         /\ l = [reserve |-> l.reserve, supply |-> l.supply, owner |-> l.owner,
                 allowance |-> l.allowance]
         /\ l.reserve \in [PoolTokens -> Nat] /\ l.supply \in Nat /\ l.owner["lp"] < l.supply
         /\ l.owner \in [Tokens -> Nat] /\ l.allowance \in [Tokens -> Nat]
         /\ \A t \in PoolTokens : l.reserve[t] \in Nat \ {0}
  BY Tokens3 DEF Solvent, Funded, Ledger, Pool, Pools, Deep

LEMMA OutBelow ==
  ASSUME NEW pool, pool.reserve \in [PoolTokens -> Nat], \A t \in PoolTokens : pool.reserve[t] > 0,
         NEW in \in PoolTokens, NEW a \in Nat
  PROVE  AmountOut(a, in, pool) \in Nat /\ AmountOut(a, in, pool) < pool.reserve[Other(in)]
<1> DEFINE x == pool.reserve[in]
           y == pool.reserve[Other(in)]
<1>1. x \in Nat \ {0} /\ y \in Nat \ {0}  BY Tokens3
<1>2. AmountOut(a, in, pool) = (a * y) \div (x + a)  BY DEF AmountOut
<1> HIDE DEF x
<1>3. a * y \in Nat /\ x + a \in Nat \ {0}  BY <1>1
<1> HIDE DEF y
<1>4. a * y < y * (x + a)  
  <2>1. y * (x + a) = y * x + y * a /\ y * x > 0 /\ y * a = a * y  BY <1>1
  <2> QED  BY <2>1, <1>1, <1>3
<1>5. (a * y) \div (x + a) < y /\ (a * y) \div (x + a) \in Nat  BY <1>1, <1>3, <1>4, DivisionBelow, Division
<1> QED  BY <1>2, <1>5 DEF y

LEMMA InNat ==
  ASSUME NEW pool, pool.reserve \in [PoolTokens -> Nat], \A t \in PoolTokens : pool.reserve[t] > 0,
         NEW in \in PoolTokens, NEW a \in Nat, a < pool.reserve[Other(in)]
  PROVE  AmountIn(a, in, pool) \in Nat
<1> DEFINE x == pool.reserve[in]
           d == pool.reserve[Other(in)] - a
<1>1. x \in Nat /\ d \in Nat \ {0}  BY Tokens3
<1>2. AmountIn(a, in, pool) = (a * x + d - 1) \div d  BY DEF AmountIn, CeilDiv
<1> HIDE DEF x, d
<1>3. a * x \in Nat  BY <1>1
<1>4. a * x + d - 1 \in Nat  BY <1>1, <1>3
<1> QED  BY <1>1, <1>2, <1>4, Division

LEMMA SharesNat ==
  ASSUME NEW pool, pool.reserve \in [PoolTokens -> Nat], pool.supply \in Nat, pool.supply > 0,
         NEW lp \in Nat
  PROVE  /\ Shares(lp, pool) \in [PoolTokens -> Nat]
         /\ lp < pool.supply => \A t \in PoolTokens : pool.reserve[t] > 0 =>
                                  Shares(lp, pool)[t] < pool.reserve[t]
<1> SUFFICES ASSUME NEW t \in PoolTokens
             PROVE  /\ Shares(lp, pool)[t] \in Nat
                    /\ lp < pool.supply /\ pool.reserve[t] > 0 => Shares(lp, pool)[t] < pool.reserve[t]
  BY DEF Shares
<1> DEFINE r == pool.reserve[t]
           s == pool.supply
<1>1. r \in Nat /\ s \in Nat \ {0}  OBVIOUS
<1>2. Shares(lp, pool)[t] = (lp * r) \div s  BY DEF Shares
<1> HIDE DEF r, s
<1>3. lp * r \in Nat  BY <1>1
<1>4. (lp * r) \div s \in Nat  BY <1>1, <1>3, Division
<1>5. ASSUME lp < s, r > 0  PROVE (lp * r) \div s < r
  <2>1. lp * r < r * s  BY <1>1, <1>5
  <2> QED  BY <1>1, <1>3, <2>1, DivisionBelow
<1> QED  BY <1>2, <1>4, <1>5 DEF r, s
-----------------------------------------------------------------------------
(* What the programs do                                                    *)

Done(r) == r.error = ""
\* A reply: an error that changes nothing, or a ledger.
Reply3(r, l, errors) ==
  /\ r.error \in errors \cup {""} /\ Solvent(r.ledger)
  /\ ~Done(r) => r.ledger = l

LEMMA OkIs ==
  ASSUME NEW n, Solvent(n), NEW l, NEW errors
  PROVE  /\ Done(Ok(n)) /\ Ok(n).ledger = n /\ Reply3(Ok(n), l, errors)
         /\ Ok(n).error \notin Errors
  BY DEF Ok, Reply3, Done, Errors

LEMMA FailedIs ==
  ASSUME NEW l, Solvent(l), NEW error
  PROVE  /\ error # "" => ~Done(Fail(error, l))
         /\ Reply3(Fail(error, l), l, {error})
  BY DEF Fail, Reply3, Done

LEMMA FailIs ==
  ASSUME NEW l, Solvent(l), NEW errors, NEW error \in errors, error # ""
  PROVE  /\ Fail(error, l).error = error /\ ~Done(Fail(error, l))
         /\ Reply3(Fail(error, l), l, errors)
  BY DEF Fail, Reply3, Done

Refused(draw, l) == Refusal(draw, l) # ""

LEMMA RefusalIs ==
  ASSUME NEW l, Solvent(l), NEW draw \in [Tokens -> Nat]
  PROVE  /\ Refusal(draw, l) \in {"", "ALLOWANCE", "BALANCE"}
         /\ Refusal(draw, l) = "ALLOWANCE" => \E t \in Tokens : l.allowance[t] < draw[t]
         /\ ~Refused(draw, l) =>
              \A t \in Tokens : l.allowance[t] >= draw[t] /\ l.owner[t] >= draw[t]
  BY SolventIs DEF Refusal, Refused

LEMMA DrawnIs ==
  ASSUME NEW l, Solvent(l), NEW draw \in [Tokens -> Nat], ~Refused(draw, l)
  PROVE  LET d == Drawn(draw, l)
         IN  /\ Solvent(d) /\ d.reserve = l.reserve /\ d.supply = l.supply
             /\ \A t \in Tokens : d.owner[t] = l.owner[t] - draw[t]
<1> DEFINE owner == Less(l.owner, draw)
           allowance == Less(l.allowance, draw)
           e == [l EXCEPT !.owner = owner, !.allowance = allowance]
<1>1. /\ \A t \in Tokens : owner[t] = l.owner[t] - draw[t]
      /\ \A t \in Tokens : allowance[t] = l.allowance[t] - draw[t]
      /\ owner = [t \in Tokens |-> owner[t]] /\ allowance = [t \in Tokens |-> allowance[t]]
  BY DEF Less
<1>2. Drawn(draw, l) = e  BY DEF Drawn
<1> HIDE DEF owner, allowance
<1>3. ASSUME NEW t \in Tokens
      PROVE  owner[t] \in Nat /\ allowance[t] \in Nat /\ owner[t] <= l.owner[t]
  <2>1. l.allowance[t] >= draw[t] /\ l.owner[t] >= draw[t]  BY RefusalIs
  <2>2. l.allowance[t] \in Nat /\ l.owner[t] \in Nat /\ draw[t] \in Nat  BY SolventIs
  <2> QED  BY <1>1, <2>1, <2>2
<1>4. owner \in [Tokens -> Nat] /\ allowance \in [Tokens -> Nat]  BY <1>1, <1>3
<1>5. owner["lp"] < l.supply
  <2>1. owner["lp"] \in Nat /\ owner["lp"] <= l.owner["lp"]  BY <1>3, Tokens3
  <2> QED  BY <2>1, SolventIs, Tokens3
<1>6. e \in Ledger /\ e.owner = owner /\ e.reserve = l.reserve /\ e.supply = l.supply
  <2>1. l \in Ledger  BY SolventIs
  <2>2. e.owner = owner /\ e.reserve = l.reserve /\ e.supply = l.supply /\ e.allowance = allowance
    BY <2>1 DEF Ledger
  <2>3. [l EXCEPT !.owner = owner] \in Ledger  BY <1>4, <2>1 DEF Ledger
  <2>4. e \in Ledger  BY <1>4, <2>3 DEF Ledger
  <2> QED  BY <2>2, <2>4
<1> HIDE DEF e
<1>7. Solvent(e)  BY <1>5, <1>6, SolventIs DEF Solvent, Funded
<1> QED  BY <1>1, <1>2, <1>6, <1>7

LEMMA OfIs ==
  ASSUME NEW token \in Tokens, NEW x \in Nat
  PROVE  /\ Of(token, x) \in [Tokens -> Nat] /\ Of(token, x)[token] = x
         /\ \A t \in Tokens : t # token => Of(token, x)[t] = 0
  BY DEF Of

LEMMA BothIs ==
  ASSUME NEW x \in Nat, NEW y \in Nat
  PROVE  /\ Both(x, y) \in [Tokens -> Nat] /\ Both(x, y)["t0"] = x /\ Both(x, y)["t1"] = y
         /\ Both(x, y)["lp"] = 0
  BY DEF Both, Tokens, PoolTokens

LEMMA TradeIs ==
  ASSUME NEW l, Solvent(l), NEW in \in PoolTokens, NEW x \in Nat, NEW y \in Nat,
         y < l.reserve[Other(in)]
  PROVE  LET n == Trade(in, x, y, l)
         IN  Solvent(n) /\ n.owner = l.owner /\ n.allowance = l.allowance
<1> DEFINE reserve == [t \in PoolTokens |-> IF t = in THEN l.reserve[t] + x ELSE l.reserve[t] - y]
           n == [reserve |-> reserve, supply |-> l.supply, owner |-> l.owner,
                 allowance |-> l.allowance]
<1>1. Trade(in, x, y, l) = n  BY SolventIs DEF Trade, Ledger
<1>2. \A t \in PoolTokens : t = in \/ t = Other(in)  BY DEF PoolTokens, Other
<1>3. reserve \in [PoolTokens -> Nat] /\ \A t \in PoolTokens : reserve[t] > 0
  BY <1>2, SolventIs
<1> HIDE DEF reserve
<1>4. Solvent(n)  BY <1>3, SolventIs DEF Solvent, Funded, Ledger
<1> QED  BY <1>1, <1>4

\* A swap draws what goes in and pays what comes out, or is refused and changes nothing.
LEMMA SwapIs ==
  ASSUME NEW l, Solvent(l), NEW in \in PoolTokens, NEW x \in Nat, NEW y \in Nat,
         y < l.reserve[Other(in)]
  PROVE  LET r == Swap(in, x, y, l)
         IN  /\ Reply3(r, l, {"ALLOWANCE", "BALANCE"})
             /\ r.error = "ALLOWANCE" => l.allowance[in] < x
             /\ Done(r) => /\ r.ledger.owner[in] = l.owner[in] - x
                                /\ r.ledger.owner[Other(in)] = l.owner[Other(in)] + y
<1> DEFINE draw == Of(in, x)
           refusal == Refusal(draw, l)
           d == Drawn(draw, l)
           n == Trade(in, x, y, d)
           paid == [n EXCEPT !.owner[Other(in)] = @ + y]
<1>1. in \in Tokens /\ Other(in) \in Tokens /\ Other(in) # in /\ Other(in) # "lp"  BY Tokens3
<1>2. draw \in [Tokens -> Nat] /\ draw[in] = x /\ \A t \in Tokens : t # in => draw[t] = 0
  BY <1>1, OfIs
<1>3. Swap(in, x, y, l) = IF refusal # "" THEN Fail(refusal, l) ELSE Ok(paid)  BY DEF Swap
<1> HIDE DEF draw
<1>4. /\ refusal \in {"", "ALLOWANCE", "BALANCE"}
      /\ refusal = "ALLOWANCE" => l.allowance[in] < x
  <2>1. refusal = "ALLOWANCE" => \E t \in Tokens : l.allowance[t] < draw[t]  BY <1>2, RefusalIs
  <2>2. \A t \in Tokens : l.allowance[t] < draw[t] => t = in  BY <1>2, SolventIs
  <2> QED  BY <1>2, <2>1, <2>2, RefusalIs
<1>5. CASE Refused(draw, l)
  BY <1>3, <1>4, <1>5, FailIs, ZenonT(30) DEF Refused
<1>6. CASE ~Refused(draw, l)
  <2>1. /\ Solvent(d) /\ d.reserve = l.reserve
        /\ d.owner[in] = l.owner[in] - x /\ d.owner[Other(in)] = l.owner[Other(in)]
    BY <1>1, <1>2, <1>6, DrawnIs, SolventIs
  <2> HIDE DEF d
  <2>2. Solvent(n) /\ n.owner = d.owner  BY <2>1, TradeIs
  <2> HIDE DEF n
  <2> DEFINE owner == [n.owner EXCEPT ![Other(in)] = @ + y]
  <2>3. paid = [reserve |-> n.reserve, supply |-> n.supply, owner |-> owner,
                allowance |-> n.allowance]
    BY <2>2, SolventIs DEF Ledger
  <2>4. /\ owner \in [Tokens -> Nat] /\ owner["lp"] = n.owner["lp"]
        /\ owner[in] = l.owner[in] - x /\ owner[Other(in)] = l.owner[Other(in)] + y
    BY <1>1, <2>1, <2>2, SolventIs, Tokens3
  <2> HIDE DEF owner
  <2>5. Solvent(paid) /\ paid.owner = owner  BY <2>2, <2>3, <2>4, SolventIs DEF Solvent, Funded, Ledger
  <2>6. Swap(in, x, y, l) = Ok(paid)  BY <1>3, <1>6 DEF Refused
  <2> HIDE DEF paid
  <2> QED  BY <2>4, <2>5, <2>6, OkIs DEF Errors
<1> QED  BY <1>5, <1>6

\* A deposit draws both tokens and mints a share, which leaves others theirs.
LEMMA DepositIs ==
  ASSUME NEW l, Solvent(l), NEW x \in Nat, NEW y \in Nat
  PROVE  LET r == Deposit(x, y, l)
         IN  /\ Reply3(r, l, {"ALLOWANCE", "BALANCE"})
             /\ r.error = "ALLOWANCE" => l.allowance["t0"] < x \/ l.allowance["t1"] < y
             /\ Done(r) => /\ r.ledger.owner["t0"] = l.owner["t0"] - x
                                /\ r.ledger.owner["t1"] = l.owner["t1"] - y
<1> DEFINE draw == Both(x, y)
           refusal == Refusal(draw, l)
           d == Drawn(draw, l)
           shares == {(x * l.supply) \div l.reserve["t0"], (y * l.supply) \div l.reserve["t1"]}
           minted == CHOOSE s \in shares : \A q \in shares : s <= q
           reserve == [t \in PoolTokens |-> d.reserve[t] + draw[t]]
           owner == [d.owner EXCEPT !["lp"] = @ + minted]
           e == [d EXCEPT !.reserve = reserve, !.supply = @ + minted, !.owner = owner]
<1>1. draw \in [Tokens -> Nat] /\ draw["t0"] = x /\ draw["t1"] = y /\ draw["lp"] = 0
  BY BothIs
<1>2. Deposit(x, y, l) = IF refusal # "" THEN Fail(refusal, l) ELSE Ok(e)
  BY DEF Deposit
<1>3. minted \in Nat
  <2>1. l.supply \in Nat /\ l.reserve["t0"] \in Nat \ {0} /\ l.reserve["t1"] \in Nat \ {0}
    BY SolventIs DEF PoolTokens
  <2>2. x * l.supply \in Nat /\ y * l.supply \in Nat  BY <2>1
  <2>3. shares \subseteq Nat  BY <2>1, <2>2, Division
  <2>4. \E s \in shares : \A q \in shares : s <= q  BY <2>3
  <2>5. minted \in shares  BY <2>4
  <2> QED  BY <2>3, <2>5
<1> HIDE DEF draw, minted
<1>4. /\ refusal \in {"", "ALLOWANCE", "BALANCE"}
      /\ refusal = "ALLOWANCE" => l.allowance["t0"] < x \/ l.allowance["t1"] < y
  <2>1. refusal = "ALLOWANCE" => \E t \in Tokens : l.allowance[t] < draw[t]  BY <1>1, RefusalIs
  <2>2. \A t \in Tokens : l.allowance[t] < draw[t] => t \in {"t0", "t1"}
    BY <1>1, SolventIs DEF Tokens, PoolTokens
  <2> QED  BY <1>1, <2>1, <2>2, RefusalIs
<1>5. CASE Refused(draw, l)
  BY <1>2, <1>4, <1>5, FailIs, ZenonT(30) DEF Refused
<1>6. CASE ~Refused(draw, l)
  <2>1. /\ Solvent(d) /\ d.owner["lp"] = l.owner["lp"] /\ d.supply = l.supply
        /\ d.owner["t0"] = l.owner["t0"] - x /\ d.owner["t1"] = l.owner["t1"] - y
    BY <1>1, <1>6, DrawnIs, SolventIs DEF Tokens, PoolTokens
  <2> HIDE DEF d
  <2>2. /\ reserve \in [PoolTokens -> Nat] /\ \A t \in PoolTokens : reserve[t] > 0
    <3>1. \A t \in PoolTokens : draw[t] \in Nat /\ d.reserve[t] \in Nat \ {0}
      BY <1>1, <2>1, SolventIs, Tokens3
    <3> QED  BY <3>1
  <2>3. /\ owner \in [Tokens -> Nat] /\ owner["lp"] < d.supply + minted
        /\ owner["t0"] = l.owner["t0"] - x /\ owner["t1"] = l.owner["t1"] - y
    BY <1>3, <2>1, SolventIs, Tokens3 DEF Tokens, PoolTokens
  <2> HIDE DEF reserve, owner
  <2>4. /\ e.reserve = reserve /\ e.supply = d.supply + minted /\ e.owner = owner
    BY <2>1, SolventIs DEF Ledger
  <2>5. e \in Ledger
    <3>1. d \in Ledger /\ d.supply + minted \in Nat  BY <1>3, <2>1, SolventIs
    <3>2. [d EXCEPT !.reserve = reserve] \in Ledger  BY <2>2, <3>1 DEF Ledger
    <3>3. [d EXCEPT !.reserve = reserve, !.supply = @ + minted] \in Ledger
      BY <3>1, <3>2 DEF Ledger
    <3> QED  BY <2>3, <3>3 DEF Ledger
  <2> HIDE DEF e
  <2>6. Solvent(e)  BY <2>2, <2>3, <2>4, <2>5 DEF Solvent, Funded
  <2>7. Deposit(x, y, l) = Ok(e)  BY <1>2, <1>6 DEF Refused
  <2> QED  BY <2>3, <2>4, <2>6, <2>7, OkIs DEF Errors
<1> QED  BY <1>5, <1>6

\* A withdrawal burns the account's share and pays its part of both reserves.
LEMMA WithdrawIs ==
  ASSUME NEW l, Solvent(l), NEW x \in Nat
  PROVE  LET r == Withdraw(x, l)
         IN  /\ Reply3(r, l, {"ALLOWANCE", "BALANCE"})
             /\ r.error = "ALLOWANCE" => l.allowance["lp"] < x
             /\ Done(r) => /\ r.ledger.owner["lp"] = l.owner["lp"] - x
                                /\ \A t \in PoolTokens :
                                     r.ledger.owner[t] = l.owner[t] + Shares(x, l)[t]
<1> DEFINE draw == Of("lp", x)
           refusal == Refusal(draw, l)
           d == Drawn(draw, l)
           shares == Shares(x, l)
           reserve == [t \in PoolTokens |-> d.reserve[t] - shares[t]]
           owner == [t \in Tokens |-> d.owner[t] + (IF t = "lp" THEN 0 ELSE shares[t])]
           e == [d EXCEPT !.supply = @ - x, !.reserve = reserve, !.owner = owner]
<1>1. /\ draw \in [Tokens -> Nat] /\ draw["lp"] = x
      /\ \A t \in Tokens : t # "lp" => draw[t] = 0
  BY OfIs, Tokens3
<1>2. Withdraw(x, l) = IF refusal # "" THEN Fail(refusal, l) ELSE Ok(e)
  BY DEF Withdraw
<1> HIDE DEF draw
<1>4. /\ refusal \in {"", "ALLOWANCE", "BALANCE"}
      /\ refusal = "ALLOWANCE" => l.allowance["lp"] < x
  <2>1. refusal = "ALLOWANCE" => \E t \in Tokens : l.allowance[t] < draw[t]  BY <1>1, RefusalIs
  <2>2. \A t \in Tokens : l.allowance[t] < draw[t] => t = "lp"  BY <1>1, SolventIs
  <2> QED  BY <1>1, <2>1, <2>2, RefusalIs
<1>5. CASE Refused(draw, l)
  BY <1>2, <1>4, <1>5, FailIs, ZenonT(30) DEF Refused
<1>6. CASE ~Refused(draw, l)
  <2>1. /\ Solvent(d) /\ d.reserve = l.reserve /\ d.supply = l.supply
        /\ d.owner["lp"] = l.owner["lp"] - x
        /\ \A t \in PoolTokens : d.owner[t] = l.owner[t]
    <3>1. \A t \in PoolTokens : t \in Tokens /\ draw[t] = 0  BY <1>1, Tokens3
    <3>2. /\ Solvent(d) /\ d.reserve = l.reserve /\ d.supply = l.supply
          /\ \A t \in Tokens : d.owner[t] = l.owner[t] - draw[t]
      BY <1>1, <1>6, DrawnIs
    <3>3. d.owner["lp"] = l.owner["lp"] - x  BY <1>1, <3>2, Tokens3
    <3>4. \A t \in PoolTokens : d.owner[t] = l.owner[t]  BY <3>1, <3>2, SolventIs
    <3> QED  BY <3>2, <3>3, <3>4
  <2>2. x <= l.owner["lp"]  BY <1>1, <1>6, RefusalIs, Tokens3
  <2> HIDE DEF d
  <2>3. /\ shares \in [PoolTokens -> Nat]
        /\ \A t \in PoolTokens : shares[t] \in Nat /\ shares[t] < l.reserve[t]
    <3>1. x < l.supply /\ l.supply > 0 /\ l.supply \in Nat  BY <2>2, SolventIs, Tokens3
    <3>2. l.reserve \in [PoolTokens -> Nat]  BY SolventIs
    <3>3. shares \in [PoolTokens -> Nat]  BY <3>1, <3>2, SharesNat
    <3>4. \A t \in PoolTokens : l.reserve[t] > 0 => shares[t] < l.reserve[t]
      BY <3>1, <3>2, SharesNat
    <3> HIDE DEF shares
    <3> QED  BY <3>3, <3>4, SolventIs
  <2> HIDE DEF shares
  <2>4. /\ reserve \in [PoolTokens -> Nat] /\ \A t \in PoolTokens : reserve[t] > 0
    <3>1. \A t \in PoolTokens : d.reserve[t] \in Nat /\ d.reserve[t] - shares[t] > 0
      BY <2>1, <2>3, SolventIs
    <3> QED  BY <2>3, <3>1
  <2>5. /\ owner \in [Tokens -> Nat] /\ owner["lp"] = l.owner["lp"] - x
        /\ \A t \in PoolTokens : owner[t] = l.owner[t] + shares[t]
    <3>1. \A t \in Tokens : t = "lp" \/ t \in PoolTokens  BY DEF Tokens
    <3>2. \A t \in Tokens : d.owner[t] \in Nat  BY <2>1, SolventIs
    <3>3. \A t \in Tokens : owner[t] \in Nat  BY <2>3, <3>1, <3>2
    <3>4. owner["lp"] = d.owner["lp"]  BY <3>2, Tokens3
    <3>5. \A t \in PoolTokens : owner[t] = d.owner[t] + shares[t]  BY Tokens3
    <3>6. owner \in [Tokens -> Nat]  BY <3>3
    <3> HIDE DEF owner
    <3> QED  BY <2>1, <3>4, <3>5, <3>6
  <2> HIDE DEF reserve, owner
  <2>6. e.reserve = reserve /\ e.supply = d.supply - x /\ e.owner = owner
    BY <2>1, SolventIs DEF Ledger
  <2>7. d.supply - x \in Nat /\ owner["lp"] < d.supply - x
    BY <2>1, <2>2, <2>5, SolventIs, Tokens3
  <2>8. e \in Ledger
    <3>1. d \in Ledger  BY <2>1, SolventIs
    <3>2. [d EXCEPT !.supply = @ - x] \in Ledger  BY <2>7, <3>1 DEF Ledger
    <3>3. [d EXCEPT !.supply = @ - x, !.reserve = reserve] \in Ledger
      BY <2>4, <3>2 DEF Ledger
    <3> QED  BY <2>5, <3>3 DEF Ledger
  <2> HIDE DEF e
  <2>9. Solvent(e)  BY <2>4, <2>6, <2>7, <2>8 DEF Solvent, Funded
  <2>10. Withdraw(x, l) = Ok(e)  BY <1>2, <1>6 DEF Refused
  <2> QED  BY <2>5, <2>6, <2>9, <2>10, OkIs DEF shares, Errors
<1> QED  BY <1>5, <1>6

\* Which program call a message is.
LEMMA Expires ==
  ASSUME NEW m, NEW l, NEW d \in Nat, now \in Nat, m.method \in PoolKinds, now > d
  PROVE  Execute(m, d, l) = Fail("EXPIRED", l)
<1>1. ~(now <= d)  OBVIOUS
<1> QED  BY <1>1 DEF Execute, PoolKinds

LEMMA DispatchSwapIn ==
  ASSUME NEW m, NEW l, NEW d \in Nat, now \in Nat, m.method = "swapIn", now <= d
  PROVE  Execute(m, d, l) = SwapIn(m.token, m.amounts[1], m.limits[1], l)
<1>1. ~(now > d)  OBVIOUS
<1> QED  BY <1>1 DEF Execute, PoolKinds

LEMMA DispatchSwapOut ==
  ASSUME NEW m, NEW l, NEW d \in Nat, now \in Nat, m.method = "swapOut", now <= d
  PROVE  Execute(m, d, l) = SwapOut(m.token, m.amounts[1], m.limits[1], l)
<1>1. ~(now > d)  OBVIOUS
<1> QED  BY <1>1 DEF Execute, PoolKinds

LEMMA DispatchAdd ==
  ASSUME NEW m, NEW l, NEW d \in Nat, now \in Nat, m.method = "add", now <= d
  PROVE  Execute(m, d, l) =
           Add(optimalDeposit(m.amounts[1], m.amounts[2], l.reserve["t0"], l.reserve["t1"]),
               m.limits, l)
<1>1. ~(now > d)  OBVIOUS
<1> QED  BY <1>1 DEF Execute, PoolKinds

LEMMA DispatchRemove ==
  ASSUME NEW m, NEW l, NEW d \in Nat, now \in Nat, m.method = "remove", now <= d
  PROVE  Execute(m, d, l) = Remove(m.amounts[1], m.limits, l)
<1>1. ~(now > d)  OBVIOUS
<1> QED  BY <1>1 DEF Execute, PoolKinds

LEMMA DispatchApprove ==
  ASSUME NEW m, NEW l, NEW d, m.method = "approve"
  PROVE  Execute(m, d, l) =
           IF m.token \in ZeroFirst /\ l.allowance[m.token] > 0 /\ m.amounts[1] > 0
           THEN Fail("APPROVE", l) ELSE Ok([l EXCEPT !.allowance[m.token] = m.amounts[1]])
  BY DEF Execute, PoolKinds

LEMMA DispatchSpend ==
  ASSUME NEW m, NEW l, NEW d, m.method \in {"transfer", "burn"}
  PROVE  Execute(m, d, l) =
           IF l.owner[m.token] < m.amounts[1] THEN Fail("BALANCE", l)
           ELSE Ok([l EXCEPT !.owner[m.token] = @ - m.amounts[1]])
  BY DEF Execute, PoolKinds

LEMMA DispatchReceive ==
  ASSUME NEW m, NEW l, NEW d, m.method \in {"mint", "transferFrom"}
  PROVE  Execute(m, d, l) =
           IF m.token = "lp" /\ l.owner["lp"] + m.amounts[1] >= l.supply
           THEN Fail("BALANCE", l) ELSE Ok([l EXCEPT !.owner[m.token] = @ + m.amounts[1]])
  BY DEF Execute, PoolKinds

\* An approval sets one allowance, or is refused over a positive one.
LEMMA ApproveIs ==
  ASSUME NEW l, Solvent(l), NEW token \in Tokens, NEW x \in Nat, NEW d \in Nat, now \in Nat
  PROVE  LET r == Execute(Call("approve", token, <<x>>, <<>>), d, l)
         IN  /\ Reply3(r, l, {"APPROVE"})
             /\ ~Done(r) => l.allowance[token] > 0 /\ x > 0
             /\ Done(r) => /\ r.ledger.allowance[token] = x
                                /\ \A t \in Tokens : t # token =>
                                     r.ledger.allowance[t] = l.allowance[t]
<1> DEFINE m == Call("approve", token, <<x>>, <<>>)
           allowance == [l.allowance EXCEPT ![token] = x]
           n == [l EXCEPT !.allowance[token] = x]
<1>1. m.method = "approve" /\ m.token = token /\ m.amounts[1] = x  BY DEF Call
<1> HIDE DEF m
<1>2. Execute(m, d, l) = IF token \in ZeroFirst /\ l.allowance[token] > 0 /\ x > 0
                         THEN Fail("APPROVE", l) ELSE Ok(n)
  BY <1>1, DispatchApprove
<1>3. Solvent(n) /\ n.allowance = allowance
  <2>1. l \in Ledger /\ allowance \in [Tokens -> Nat]  BY SolventIs
  <2>2. n = [l EXCEPT !.allowance = allowance]  BY <2>1 DEF Ledger
  <2> HIDE DEF n, allowance
  <2>3. /\ n \in Ledger /\ n.allowance = allowance /\ n.owner = l.owner
        /\ n.reserve = l.reserve /\ n.supply = l.supply
    BY <2>1, <2>2 DEF Ledger
  <2> QED  BY <2>3, SolventIs DEF Solvent, Funded
<1>4. allowance[token] = x /\ \A t \in Tokens : t # token => allowance[t] = l.allowance[t]
  BY SolventIs
<1> HIDE DEF allowance
<1>5. CASE token \in ZeroFirst /\ l.allowance[token] > 0 /\ x > 0
  <2>1. Execute(m, d, l) = Fail("APPROVE", l)  BY <1>2, <1>5
  <2>2. ~Done(Fail("APPROVE", l)) /\ Reply3(Fail("APPROVE", l), l, {"APPROVE"})
    BY FailedIs
  <2> QED  BY <1>5, <2>1, <2>2 DEF m
<1>6. CASE ~(token \in ZeroFirst /\ l.allowance[token] > 0 /\ x > 0)
  <2>1. Execute(m, d, l) = Ok(n)  BY <1>2, <1>6
  <2>2. /\ Reply3(Ok(n), l, {"APPROVE"}) /\ Done(Ok(n)) /\ Ok(n).ledger = n
    BY <1>3, OkIs
  <2> HIDE DEF n
  <2> QED  BY <1>3, <1>4, <2>1, <2>2 DEF m, n
<1> QED  BY <1>5, <1>6

\* Tokens change hands: balances stay natural, and others keep a share of the pool.
LEMMA OwnerIs ==
  ASSUME NEW l, Solvent(l), NEW token \in Tokens, NEW x \in Nat,
         token = "lp" => x < l.supply
  PROVE  Solvent([l EXCEPT !.owner[token] = x])
<1> DEFINE owner == [l.owner EXCEPT ![token] = x]
           n == [l EXCEPT !.owner[token] = x]
<1>1. l \in Ledger /\ owner \in [Tokens -> Nat]  BY SolventIs
<1>2. owner["lp"] < l.supply  BY SolventIs, Tokens3
<1>3. n = [l EXCEPT !.owner = owner]  BY <1>1 DEF Ledger
<1> HIDE DEF n, owner
<1>4. /\ n \in Ledger /\ n.owner = owner /\ n.reserve = l.reserve /\ n.supply = l.supply
  BY <1>1, <1>3 DEF Ledger
<1>5. Solvent(n)  BY <1>2, <1>4, SolventIs DEF Solvent, Funded
<1> QED  BY <1>5 DEF n

\* The token programs accept or refuse a transfer, and leave the ledger solvent.
LEMMA TransferIs ==
  ASSUME NEW l, Solvent(l), NEW token \in Tokens, NEW x \in Nat, NEW d \in Nat, now \in Nat,
         NEW method \in {"transfer", "burn", "mint", "transferFrom"}
  PROVE  Reply3(Execute(Call(method, token, <<x>>, <<>>), d, l), l, {"BALANCE"})
<1> DEFINE m == Call(method, token, <<x>>, <<>>)
<1>1. m.method = method /\ m.token = token /\ m.amounts[1] = x  BY DEF Call
<1> HIDE DEF m
<1>2. l.owner[token] \in Nat /\ l.supply \in Nat /\ l.owner["lp"] < l.supply  BY SolventIs
<1>3. CASE method \in {"transfer", "burn"}
  <2>1. Execute(m, d, l) = IF l.owner[token] < x THEN Fail("BALANCE", l)
                           ELSE Ok([l EXCEPT !.owner[token] = @ - x])
    BY <1>1, <1>3, DispatchSpend
  <2>2. ~(l.owner[token] < x) => Solvent([l EXCEPT !.owner[token] = l.owner[token] - x])
    BY <1>2, OwnerIs
  <2>3. Reply3(Fail("BALANCE", l), l, {"BALANCE"})  BY FailedIs
  <2>4. ~(l.owner[token] < x) =>
          Reply3(Ok([l EXCEPT !.owner[token] = @ - x]), l, {"BALANCE"})
    BY <2>2, OkIs
  <2> QED  BY <2>1, <2>3, <2>4 DEF m
<1>4. CASE method \in {"mint", "transferFrom"}
  <2>1. Execute(m, d, l) = IF token = "lp" /\ l.owner["lp"] + x >= l.supply
                           THEN Fail("BALANCE", l) ELSE Ok([l EXCEPT !.owner[token] = @ + x])
    BY <1>1, <1>4, DispatchReceive
  <2>2. ~(token = "lp" /\ l.owner["lp"] + x >= l.supply) =>
          Solvent([l EXCEPT !.owner[token] = l.owner[token] + x])
    BY <1>2, OwnerIs
  <2>3. Reply3(Fail("BALANCE", l), l, {"BALANCE"})  BY FailedIs
  <2>4. ~(token = "lp" /\ l.owner["lp"] + x >= l.supply) =>
          Reply3(Ok([l EXCEPT !.owner[token] = @ + x]), l, {"BALANCE"})
    BY <2>2, OkIs
  <2> QED  BY <2>1, <2>3, <2>4 DEF m
<1> QED  BY <1>3, <1>4

-----------------------------------------------------------------------------
(* A command keeps the bargain of its quote                                *)

Valid(j) ==
  /\ j \in Job /\ j.kind \in PoolKinds /\ validSlippage(j.bps)
  /\ j.kind \in {"swapIn", "swapOut", "add"} => j.token \in PoolTokens
Quotable(j, pool) ==
  /\ pool \in Pools /\ Deep(pool)
  /\ j.kind = "swapOut" => j.amount < pool.reserve[Other(j.token)]

LEMMA MinIs ==
  ASSUME NEW x \in Nat, NEW y \in Nat, NEW bps \in Int, validSlippage(bps)
  PROVE  /\ Min(<<x>>, bps) = <<computeMinAmount(x, bps)>>
         /\ Min(<<x, y>>, bps) = <<computeMinAmount(x, bps), computeMinAmount(y, bps)>>
<1>1. computeMinAmount(x, bps) \in Nat /\ computeMinAmount(y, bps) \in Nat  BY MinAmount
<1>2. Min(<<x>>, bps) = <<computeMinAmount(x, bps)>>  BY DEF Min
<1>3. Min(<<x, y>>, bps) = <<computeMinAmount(x, bps), computeMinAmount(y, bps)>>  BY DEF Min
<1> QED  BY <1>2, <1>3

Asking(j, need) == IF j.skipApprove THEN <<>> ELSE need

LEMMA SwapInTerms ==
  ASSUME NEW j, Valid(j), NEW pool, Quotable(j, pool), j.kind = "swapIn"
  PROVE  LET out == AmountOut(j.amount, j.token, pool)
         IN  /\ out \in Nat
             /\ Bargain(j, pool) =
                  [quote |-> <<out>>, need |-> Asking(j, << <<j.token, j.amount>> >>),
                   message |-> Call("swapIn", j.token, <<j.amount>>,
                                    <<computeMinAmount(out, j.bps)>>)]
<1> DEFINE out == AmountOut(j.amount, j.token, pool)
<1>1. j.token \in PoolTokens /\ j.amount \in Nat /\ j.bps \in Int /\ validSlippage(j.bps)
  BY DEF Valid, Job
<1>2. out \in Nat  BY <1>1, OutBelow DEF Quotable, Deep, Pools
<1>3. Bargain(j, pool) = SwapTerms(j, pool)  BY DEF Bargain
<1>4. SwapTerms(j, pool) = Terms(j, <<out>>, <<j.amount>>, Min(<<out>>, j.bps),
                                 << <<j.token, j.amount>> >>)
  BY DEF SwapTerms
<1> HIDE DEF out
<1>5. Min(<<out>>, j.bps) = <<computeMinAmount(out, j.bps)>>  BY <1>1, <1>2, MinIs
<1> QED  BY <1>2, <1>3, <1>4, <1>5 DEF Terms, Direction, Asking, out

LEMMA SwapOutTerms ==
  ASSUME NEW j, Valid(j), NEW pool, Quotable(j, pool), j.kind = "swapOut"
  PROVE  LET in == AmountIn(j.amount, j.token, pool)
             most == computeMaxAmount(in, j.bps)
         IN  /\ in \in Nat /\ most \in Nat
             /\ Bargain(j, pool) =
                  [quote |-> <<in>>, need |-> Asking(j, << <<j.token, most>> >>),
                   message |-> Call("swapOut", j.token, <<j.amount>>, <<most>>)]
<1> DEFINE in == AmountIn(j.amount, j.token, pool)
           most == computeMaxAmount(in, j.bps)
<1>1. j.token \in PoolTokens /\ j.amount \in Nat /\ j.bps \in Int /\ validSlippage(j.bps)
  BY DEF Valid, Job
<1>2. in \in Nat  BY <1>1, InNat DEF Quotable, Deep, Pools
<1>3. Bargain(j, pool) = SwapTerms(j, pool)  BY DEF Bargain
<1>4. SwapTerms(j, pool) = Terms(j, <<in>>, <<j.amount>>, <<most>>, << <<j.token, most>> >>)
  BY DEF SwapTerms
<1> HIDE DEF in
<1>5. most \in Nat  BY <1>1, <1>2, MaxAmount
<1> HIDE DEF most
<1> QED  BY <1>2, <1>3, <1>4, <1>5 DEF Terms, Direction, Asking, in, most

\* What add-liquidity asks of t0 and of t1.
Of0(j) == Asked(j)[1]
Of1(j) == Asked(j)[2]

LEMMA AskedIs ==
  ASSUME NEW j \in Job
  PROVE  /\ Of0(j) \in Nat /\ Of1(j) \in Nat /\ Asked(j) = <<Of0(j), Of1(j)>>
         /\ j.token = "t0" => Of0(j) = j.amount /\ Of1(j) = j.amount2 /\ Other(j.token) = "t1"
         /\ j.token = "t1" => Of0(j) = j.amount2 /\ Of1(j) = j.amount /\ Other(j.token) = "t0"
  BY DEF Asked, Of0, Of1, Job, Other

LEMMA AddTermsIs ==
  ASSUME NEW j, Valid(j), NEW pool, Quotable(j, pool), j.kind = "add"
  PROVE  LET o == optimalDeposit(Of0(j), Of1(j), pool.reserve["t0"], pool.reserve["t1"])
         IN  /\ o[1] \in Nat /\ o[2] \in Nat /\ o[1] <= Of0(j) /\ o[2] <= Of1(j)
             /\ Bargain(j, pool) =
                  [quote |-> <<o[1], o[2]>>,
                   need |-> Asking(j, << <<"t0", Of0(j)>>, <<"t1", Of1(j)>> >>),
                   message |-> Call("add", j.token, <<Of0(j), Of1(j)>>,
                                    <<computeMinAmount(o[1], j.bps), computeMinAmount(o[2], j.bps)>>)]
<1> DEFINE o == optimalDeposit(Of0(j), Of1(j), pool.reserve["t0"], pool.reserve["t1"])
           asked == <<Of0(j), Of1(j)>>
<1>1. /\ Of0(j) \in Nat /\ Of1(j) \in Nat /\ Asked(j) = <<Of0(j), Of1(j)>>
      /\ j.bps \in Int /\ validSlippage(j.bps)
  BY AskedIs DEF Valid, Job
<1>2. pool.reserve["t0"] \in Nat \ {0} /\ pool.reserve["t1"] \in Nat \ {0}
  BY DEF Quotable, Deep, Pools, PoolTokens
<1>3. /\ o = <<o[1], o[2]>> /\ o[1] \in Nat /\ o[2] \in Nat
      /\ o[1] <= Of0(j) /\ o[2] <= Of1(j)
  BY <1>1, <1>2, OptimalAtMost, ZenonT(30)
<1>4. Bargain(j, pool) = AddTerms(j, pool)  BY DEF Bargain
<1>5. AddTerms(j, pool) = Terms(j, o, asked, Min(o, j.bps),
                                << <<"t0", Of0(j)>>, <<"t1", Of1(j)>> >>)
  BY <1>1 DEF AddTerms
<1> HIDE DEF o
<1>6. Min(<<o[1], o[2]>>, j.bps) =
        <<computeMinAmount(o[1], j.bps), computeMinAmount(o[2], j.bps)>>
  BY <1>1, <1>3, MinIs
<1>7. Bargain(j, pool) =
        [quote |-> <<o[1], o[2]>>,
         need |-> Asking(j, << <<"t0", Of0(j)>>, <<"t1", Of1(j)>> >>),
         message |-> Call("add", j.token, <<Of0(j), Of1(j)>>,
                          <<computeMinAmount(o[1], j.bps), computeMinAmount(o[2], j.bps)>>)]
  BY <1>3, <1>4, <1>5, <1>6 DEF Terms, Asking
<1> QED  BY <1>3, <1>7 DEF o

LEMMA RemoveTermsIs ==
  ASSUME NEW j, Valid(j), NEW pool, Quotable(j, pool), j.kind = "remove"
  PROVE  LET x == Shares(j.amount, pool)["t0"]
             y == Shares(j.amount, pool)["t1"]
         IN  /\ x \in Nat /\ y \in Nat
             /\ Bargain(j, pool) =
                  [quote |-> <<x, y>>, need |-> Asking(j, << <<"lp", j.amount>> >>),
                   message |-> Call("remove", j.token, <<j.amount>>,
                                    <<computeMinAmount(x, j.bps), computeMinAmount(y, j.bps)>>)]
<1> DEFINE x == Shares(j.amount, pool)["t0"]
           y == Shares(j.amount, pool)["t1"]
<1>1. j.amount \in Nat /\ j.bps \in Int /\ validSlippage(j.bps)
  BY DEF Valid, Job
<1>2. x \in Nat /\ y \in Nat
  <2>1. pool.reserve \in [PoolTokens -> Nat] /\ pool.supply \in Nat /\ pool.supply > 0
    BY DEF Quotable, Deep, Pools
  <2>2. Shares(j.amount, pool) \in [PoolTokens -> Nat]  BY <1>1, <2>1, SharesNat
  <2> QED  BY <2>2 DEF PoolTokens
<1>3. Bargain(j, pool) = RemoveTerms(j, pool)  BY DEF Bargain
<1>4. RemoveTerms(j, pool) = Terms(j, <<x, y>>, <<j.amount>>, Min(<<x, y>>, j.bps),
                                   << <<"lp", j.amount>> >>)
  BY DEF RemoveTerms
<1> HIDE DEF x, y
<1>5. Min(<<x, y>>, j.bps) = <<computeMinAmount(x, j.bps), computeMinAmount(y, j.bps)>>
  BY <1>1, <1>2, MinIs
<1>6. Bargain(j, pool) =
        [quote |-> <<x, y>>, need |-> Asking(j, << <<"lp", j.amount>> >>),
         message |-> Call("remove", j.token, <<j.amount>>,
                          <<computeMinAmount(x, j.bps), computeMinAmount(y, j.bps)>>)]
  BY <1>3, <1>4, <1>5 DEF Terms, Asking
<1> QED  BY <1>2, <1>6 DEF x, y

\* What QuoteHonoured says of one command executed in ledger l with result n.
AtLeast(gain, promised, bps) == 10000 * (gain + 1) > promised * (10000 - bps)
Honours(j, promised, l, n) ==
  LET gained(t) == n.owner[t] - l.owner[t]
  IN  /\ j.kind = "swapIn" =>
           gained(j.token) = -j.amount /\ AtLeast(gained(Other(j.token)), promised[1], j.bps)
      /\ j.kind = "swapOut" =>
           /\ gained(Other(j.token)) = j.amount
           /\ 10000 * (-gained(j.token) - 1) < promised[1] * (10000 + j.bps)
      /\ j.kind = "add" =>
           /\ -gained(j.token) <= j.amount /\ -gained(Other(j.token)) <= j.amount2
           /\ AtLeast(-gained("t0"), promised[1], j.bps)
           /\ AtLeast(-gained("t1"), promised[2], j.bps)
      /\ j.kind = "remove" =>
           /\ gained("lp") = -j.amount
           /\ AtLeast(gained("t0"), promised[1], j.bps) /\ AtLeast(gained("t1"), promised[2], j.bps)

PoolErrors == {"EXPIRED", "SLIPPAGE", "ALLOWANCE", "BALANCE"}
Short(need, l) == \E i \in DOMAIN need : l.allowance[need[i][1]] < need[i][2]
\* Executed, the message gives what the quote promised; it is refused for its limits only
\* by another pool, and for its allowance only below one it asked for.
Keeps(j, b, pool, r, l) ==
  /\ Reply3(r, l, PoolErrors)
  /\ r.error = "SLIPPAGE" => Pool(l) # pool
  /\ r.error = "ALLOWANCE" /\ ~j.skipApprove => Short(b.need, l)
  /\ Done(r) => Honours(j, b.quote, l, r.ledger)

LEMMA Refuses ==
  ASSUME NEW l, Solvent(l), NEW j, NEW b, NEW pool, NEW error \in {"EXPIRED", "SLIPPAGE"},
         error = "SLIPPAGE" => Pool(l) # pool
  PROVE  Keeps(j, b, pool, Fail(error, l), l)
  BY DEF Keeps, Reply3, Fail, PoolErrors, Done

\* What is held as more of a quote is held of less.
LEMMA AtLeastGrows ==
  ASSUME NEW gain \in Nat, NEW promised \in Nat, NEW bps \in Int, validSlippage(bps),
         computeMinAmount(promised, bps) <= gain
  PROVE  AtLeast(gain, promised, bps)
<1> DEFINE least == computeMinAmount(promised, bps)
           share == promised * (10000 - bps)
<1>1. least \in Nat /\ 10000 * (least + 1) > share /\ share \in Int  BY MinAmount
<1> HIDE DEF least, share
<1>2. 10000 * (gain + 1) > share  BY <1>1 DEF least
<1> QED  BY <1>2 DEF AtLeast, share

LEMMA SwapInKeeps ==
  ASSUME NEW l, Solvent(l), NEW j, Valid(j), NEW pool, Quotable(j, pool), j.kind = "swapIn",
         NEW d \in Nat, now \in Nat
  PROVE  Keeps(j, Bargain(j, pool), pool, Execute(Bargain(j, pool).message, d, l), l)
<1> DEFINE promised == AmountOut(j.amount, j.token, pool)
           least == computeMinAmount(promised, j.bps)
           out == AmountOut(j.amount, j.token, l)
           m == Call("swapIn", j.token, <<j.amount>>, <<least>>)
           need == Asking(j, << <<j.token, j.amount>> >>)
           b == [quote |-> <<promised>>, need |-> need, message |-> m]
           r == Swap(j.token, j.amount, out, l)
<1>1. j.token \in PoolTokens /\ j.amount \in Nat /\ j.bps \in Int /\ validSlippage(j.bps)
  BY DEF Valid, Job
<1>2. promised \in Nat /\ Bargain(j, pool) = b  BY SwapInTerms
<1>3. out \in Nat /\ out < l.reserve[Other(j.token)]  BY <1>1, SolventIs, OutBelow DEF Solvent, Funded
<1>4. Pool(l) = pool => out = promised  BY DEF Pool, AmountOut
<1> HIDE DEF promised, out
<1>5. least \in Nat /\ least <= promised  BY <1>1, <1>2, MinAmount
<1> HIDE DEF least
<1>6. m.method = "swapIn" /\ m.token = j.token /\ m.amounts[1] = j.amount /\ m.limits[1] = least
  BY DEF Call
<1> HIDE DEF m
<1>7. now <= d => Execute(m, d, l) = SwapIn(j.token, j.amount, least, l)  BY <1>6, DispatchSwapIn
<1>8. CASE now > d
  <2>1. Execute(m, d, l) = Fail("EXPIRED", l)  BY <1>6, <1>8, Expires DEF PoolKinds
  <2> QED  BY <1>2, <2>1, Refuses
<1>9. CASE now <= d /\ out < least
  <2>1. Execute(m, d, l) = Fail("SLIPPAGE", l)  BY <1>7, <1>9 DEF SwapIn, out
  <2>2. Pool(l) # pool  BY <1>2, <1>3, <1>4, <1>5, <1>9
  <2> QED  BY <1>2, <2>1, <2>2, Refuses
<1>10. CASE now <= d /\ ~(out < least)
  <2>1. Execute(m, d, l) = r  BY <1>7, <1>10 DEF SwapIn, out
  <2>2. /\ Reply3(r, l, {"ALLOWANCE", "BALANCE"})
        /\ r.error = "ALLOWANCE" => l.allowance[j.token] < j.amount
        /\ Done(r) => /\ r.ledger.owner[j.token] = l.owner[j.token] - j.amount
                           /\ r.ledger.owner[Other(j.token)] = l.owner[Other(j.token)] + out
    <3>1. j.token \in PoolTokens /\ j.amount \in Nat  BY <1>1
    <3> QED  BY <1>3, <3>1, SwapIs
  <2> HIDE DEF r
  <2>3. Reply3(r, l, PoolErrors) /\ r.error # "SLIPPAGE"  BY <2>2 DEF Reply3, PoolErrors
  <2>4. r.error = "ALLOWANCE" /\ ~j.skipApprove => Short(need, l)
    BY <2>2 DEF Short, Asking
  <2>5. ASSUME Done(r)  PROVE Honours(j, <<promised>>, l, r.ledger)
    <3>1. AtLeast(out, promised, j.bps)
      BY <1>1, <1>2, <1>3, <1>5, <1>10, AtLeastGrows DEF least
    <3>2. /\ l.owner[j.token] \in Nat /\ l.owner[Other(j.token)] \in Nat
      BY <1>1, SolventIs, Tokens3
    <3>3. /\ r.ledger.owner[j.token] - l.owner[j.token] = -j.amount
          /\ r.ledger.owner[Other(j.token)] - l.owner[Other(j.token)] = out
      BY <1>1, <1>3, <2>2, <2>5, <3>2
    <3> QED  BY <3>1, <3>3 DEF Honours
  <2>6. Keeps(j, b, pool, r, l)  BY <2>3, <2>4, <2>5 DEF Keeps
  <2> QED  BY <1>2, <2>1, <2>6
<1> QED  BY <1>8, <1>9, <1>10

LEMMA SwapOutKeeps ==
  ASSUME NEW l, Solvent(l), NEW j, Valid(j), NEW pool, Quotable(j, pool), j.kind = "swapOut",
         NEW d \in Nat, now \in Nat
  PROVE  Keeps(j, Bargain(j, pool), pool, Execute(Bargain(j, pool).message, d, l), l)
<1> DEFINE promised == AmountIn(j.amount, j.token, pool)
           most == computeMaxAmount(promised, j.bps)
           in == AmountIn(j.amount, j.token, l)
           m == Call("swapOut", j.token, <<j.amount>>, <<most>>)
           need == Asking(j, << <<j.token, most>> >>)
           b == [quote |-> <<promised>>, need |-> need, message |-> m]
           r == Swap(j.token, in, j.amount, l)
           deep == j.amount < l.reserve[Other(j.token)]
<1>1. j.token \in PoolTokens /\ j.amount \in Nat /\ j.bps \in Int /\ validSlippage(j.bps)
  BY DEF Valid, Job
<1>2. promised \in Nat /\ most \in Nat /\ Bargain(j, pool) = b  BY SwapOutTerms
<1>3. deep => in \in Nat  BY <1>1, SolventIs, InNat DEF Solvent, Funded
<1>4. Pool(l) = pool => in = promised /\ deep  BY DEF Pool, AmountIn, Quotable
<1>5. l.reserve[Other(j.token)] \in Nat  BY <1>1, SolventIs, Tokens3
<1>6. promised <= most /\ 10000 * (most - 1) < promised * (10000 + j.bps)
  BY <1>1, <1>2, MaxAmount
<1> HIDE DEF promised, in, most, deep
<1>7. m.method = "swapOut" /\ m.token = j.token /\ m.amounts[1] = j.amount /\ m.limits[1] = most
  BY DEF Call
<1> HIDE DEF m
<1>8. now <= d => Execute(m, d, l) = SwapOut(j.token, j.amount, most, l)
  BY <1>7, DispatchSwapOut
<1>9. CASE now > d
  <2>1. Execute(m, d, l) = Fail("EXPIRED", l)  BY <1>7, <1>9, Expires DEF PoolKinds
  <2> QED  BY <1>2, <2>1, Refuses
<1>10. CASE now <= d /\ ~(deep /\ in <= most)
  <2>1. ~deep => j.amount >= l.reserve[Other(j.token)]  BY <1>1, <1>5 DEF deep
  <2>2. deep => in > most  BY <1>2, <1>3, <1>10
  <2>3. Execute(m, d, l) = Fail("SLIPPAGE", l)  BY <1>8, <1>10, <2>1, <2>2 DEF SwapOut, in
  <2>4. Pool(l) # pool  BY <1>2, <1>3, <1>4, <1>6, <1>10
  <2> QED  BY <1>2, <2>3, <2>4, Refuses
<1>11. CASE now <= d /\ deep /\ in <= most
  <2>1. ~(j.amount >= l.reserve[Other(j.token)]) /\ ~(in > most)
    BY <1>1, <1>2, <1>3, <1>5, <1>11 DEF deep
  <2>2. Execute(m, d, l) = r  BY <1>8, <1>11, <2>1 DEF SwapOut, in
  <2>3. /\ Reply3(r, l, {"ALLOWANCE", "BALANCE"})
        /\ r.error = "ALLOWANCE" => l.allowance[j.token] < in
        /\ Done(r) => /\ r.ledger.owner[j.token] = l.owner[j.token] - in
                      /\ r.ledger.owner[Other(j.token)] = l.owner[Other(j.token)] + j.amount
    <3>1. j.token \in PoolTokens /\ j.amount \in Nat  BY <1>1
    <3> QED  BY <1>3, <1>11, <3>1, SwapIs DEF deep
  <2> HIDE DEF r
  <2>4. Reply3(r, l, PoolErrors) /\ r.error # "SLIPPAGE"  BY <2>3 DEF Reply3, PoolErrors
  <2>5. r.error = "ALLOWANCE" /\ ~j.skipApprove => Short(need, l)
    <3>1. l.allowance[j.token] \in Nat  BY <1>1, SolventIs, Tokens3
    <3>2. l.allowance[j.token] < in => l.allowance[j.token] < most
      BY <1>2, <1>3, <1>11, <3>1
    <3> QED  BY <2>3, <3>2 DEF Short, Asking
  <2>6. ASSUME Done(r)  PROVE Honours(j, <<promised>>, l, r.ledger)
    <3>1. l.owner[j.token] \in Nat /\ l.owner[Other(j.token)] \in Nat
      BY <1>1, SolventIs, Tokens3
    <3>2. /\ r.ledger.owner[j.token] - l.owner[j.token] = -in
          /\ r.ledger.owner[Other(j.token)] - l.owner[Other(j.token)] = j.amount
      BY <1>1, <1>3, <1>11, <2>3, <2>6, <3>1
    <3> DEFINE top == promised * (10000 + j.bps)
    <3>3. top \in Int /\ 10000 * (most - 1) < top  BY <1>1, <1>2, <1>6
    <3> HIDE DEF top
    <3>4. 10000 * (-(-in) - 1) < top  BY <1>2, <1>3, <1>11, <3>3
    <3> QED  BY <3>2, <3>4 DEF Honours, top
  <2>7. Keeps(j, b, pool, r, l)  BY <2>4, <2>5, <2>6 DEF Keeps
  <2> QED  BY <1>2, <2>2, <2>7
<1> QED  BY <1>9, <1>10, <1>11

LEMMA AddKeeps ==
  ASSUME NEW l, Solvent(l), NEW j, Valid(j), NEW pool, Quotable(j, pool), j.kind = "add",
         NEW d \in Nat, now \in Nat
  PROVE  Keeps(j, Bargain(j, pool), pool, Execute(Bargain(j, pool).message, d, l), l)
<1> DEFINE o == optimalDeposit(Of0(j), Of1(j), pool.reserve["t0"], pool.reserve["t1"])
           taken == optimalDeposit(Of0(j), Of1(j), l.reserve["t0"], l.reserve["t1"])
           least1 == computeMinAmount(o[1], j.bps)
           least2 == computeMinAmount(o[2], j.bps)
           m == Call("add", j.token, <<Of0(j), Of1(j)>>, <<least1, least2>>)
           need == Asking(j, << <<"t0", Of0(j)>>, <<"t1", Of1(j)>> >>)
           b == [quote |-> <<o[1], o[2]>>, need |-> need, message |-> m]
           r == Deposit(taken[1], taken[2], l)
<1>1. Of0(j) \in Nat /\ Of1(j) \in Nat /\ j.bps \in Int /\ validSlippage(j.bps)
  BY AskedIs DEF Valid, Job
<1>2. o[1] \in Nat /\ o[2] \in Nat /\ Bargain(j, pool) = b  BY AddTermsIs
<1>3. /\ taken[1] \in Nat /\ taken[2] \in Nat
      /\ taken[1] <= Of0(j) /\ taken[2] <= Of1(j)
  <2>1. l.reserve["t0"] \in Nat \ {0} /\ l.reserve["t1"] \in Nat \ {0}
    BY SolventIs DEF PoolTokens
  <2> QED  BY <1>1, <2>1, OptimalAtMost
<1>4. Pool(l) = pool => taken = o  BY DEF Pool
<1> HIDE DEF o, taken
<1>5. /\ least1 \in Nat /\ least1 <= o[1] /\ least2 \in Nat /\ least2 <= o[2]
  BY <1>1, <1>2, MinAmount
<1> HIDE DEF least1, least2
<1>6. /\ m.method = "add" /\ m.amounts[1] = Of0(j) /\ m.amounts[2] = Of1(j)
      /\ m.limits[1] = least1 /\ m.limits[2] = least2
  BY DEF Call
<1> HIDE DEF m
<1>7. now <= d => Execute(m, d, l) = Add(taken, m.limits, l)
  BY <1>6, DispatchAdd DEF taken
<1>8. CASE now > d
  <2>1. Execute(m, d, l) = Fail("EXPIRED", l)  BY <1>6, <1>8, Expires DEF PoolKinds
  <2> QED  BY <1>2, <2>1, Refuses
<1>9. CASE now <= d /\ (taken[1] < least1 \/ taken[2] < least2)
  <2>1. Execute(m, d, l) = Fail("SLIPPAGE", l)  BY <1>6, <1>7, <1>9 DEF Add
  <2>2. Pool(l) # pool
    <3>1. ~(o[1] < least1) /\ ~(o[2] < least2)  BY <1>2, <1>5
    <3> QED  BY <1>4, <1>9, <3>1
  <2> QED  BY <1>2, <2>1, <2>2, Refuses
<1>10. CASE now <= d /\ ~(taken[1] < least1 \/ taken[2] < least2)
  <2>1. Execute(m, d, l) = r  BY <1>6, <1>7, <1>10 DEF Add
  <2>2. /\ Reply3(r, l, {"ALLOWANCE", "BALANCE"})
        /\ r.error = "ALLOWANCE" => l.allowance["t0"] < taken[1] \/ l.allowance["t1"] < taken[2]
        /\ Done(r) => /\ r.ledger.owner["t0"] = l.owner["t0"] - taken[1]
                      /\ r.ledger.owner["t1"] = l.owner["t1"] - taken[2]
    BY <1>3, DepositIs
  <2> HIDE DEF r
  <2>3. Reply3(r, l, PoolErrors) /\ r.error # "SLIPPAGE"  BY <2>2 DEF Reply3, PoolErrors
  <2>4. r.error = "ALLOWANCE" /\ ~j.skipApprove => Short(need, l)
    <3>1. l.allowance["t0"] \in Nat /\ l.allowance["t1"] \in Nat
      BY SolventIs DEF Tokens, PoolTokens
    <3>2. /\ l.allowance["t0"] < taken[1] => l.allowance["t0"] < Of0(j)
          /\ l.allowance["t1"] < taken[2] => l.allowance["t1"] < Of1(j)
      BY <1>1, <1>3, <3>1
    <3> QED  BY <2>2, <3>2 DEF Short, Asking
  <2>5. ASSUME Done(r)  PROVE Honours(j, <<o[1], o[2]>>, l, r.ledger)
    <3>1. l.owner["t0"] \in Nat /\ l.owner["t1"] \in Nat
      BY SolventIs DEF Tokens, PoolTokens
    <3>2. /\ r.ledger.owner["t0"] - l.owner["t0"] = -taken[1]
          /\ r.ledger.owner["t1"] - l.owner["t1"] = -taken[2]
      BY <1>3, <2>2, <2>5, <3>1
    <3> DEFINE gained(t) == r.ledger.owner[t] - l.owner[t]
    <3>3. /\ -gained("t0") = taken[1] /\ -gained("t1") = taken[2]
          /\ -gained(j.token) <= j.amount /\ -gained(Other(j.token)) <= j.amount2
      <4>1. -gained("t0") = taken[1] /\ -gained("t1") = taken[2]  BY <1>3, <3>2
      <4>2. j.token \in {"t0", "t1"} /\ j \in Job  BY DEF Valid, PoolTokens
      <4> HIDE DEF gained
      <4>3. CASE j.token = "t0"  BY <1>3, <4>1, <4>2, <4>3, AskedIs
      <4>4. CASE j.token = "t1"  BY <1>3, <4>1, <4>2, <4>4, AskedIs
      <4> QED  BY <4>1, <4>2, <4>3, <4>4
    <3>4. AtLeast(taken[1], o[1], j.bps) /\ AtLeast(taken[2], o[2], j.bps)
      <4>1. least1 <= taken[1] /\ least2 <= taken[2]  BY <1>3, <1>5, <1>10
      <4> QED  BY <1>1, <1>2, <1>3, <4>1, AtLeastGrows DEF least1, least2
    <3> QED  BY <3>3, <3>4 DEF Honours
  <2>6. Keeps(j, b, pool, r, l)  BY <2>3, <2>4, <2>5 DEF Keeps
  <2> QED  BY <1>2, <2>1, <2>6
<1> QED  BY <1>8, <1>9, <1>10

LEMMA RemoveKeeps ==
  ASSUME NEW l, Solvent(l), NEW j, Valid(j), NEW pool, Quotable(j, pool), j.kind = "remove",
         NEW d \in Nat, now \in Nat
  PROVE  Keeps(j, Bargain(j, pool), pool, Execute(Bargain(j, pool).message, d, l), l)
<1> DEFINE x == Shares(j.amount, pool)["t0"]
           y == Shares(j.amount, pool)["t1"]
           x2 == Shares(j.amount, l)["t0"]
           y2 == Shares(j.amount, l)["t1"]
           least1 == computeMinAmount(x, j.bps)
           least2 == computeMinAmount(y, j.bps)
           m == Call("remove", j.token, <<j.amount>>, <<least1, least2>>)
           need == Asking(j, << <<"lp", j.amount>> >>)
           b == [quote |-> <<x, y>>, need |-> need, message |-> m]
           r == Withdraw(j.amount, l)
<1>1. j.amount \in Nat /\ j.bps \in Int /\ validSlippage(j.bps)
  BY DEF Valid, Job
<1>2. x \in Nat /\ y \in Nat /\ Bargain(j, pool) = b  BY RemoveTermsIs
<1>3. x2 \in Nat /\ y2 \in Nat
  <2>1. l.reserve \in [PoolTokens -> Nat] /\ l.supply \in Nat /\ l.supply > 0
    BY SolventIs DEF Deep, Pool
  <2>2. Shares(j.amount, l) \in [PoolTokens -> Nat]  BY <1>1, <2>1, SharesNat
  <2> QED  BY <2>2 DEF PoolTokens
<1>4. Pool(l) = pool => x2 = x /\ y2 = y  BY DEF Pool, Shares
<1> HIDE DEF x, y, x2, y2
<1>5. least1 \in Nat /\ least1 <= x /\ least2 \in Nat /\ least2 <= y
  BY <1>1, <1>2, MinAmount
<1> HIDE DEF least1, least2
<1>6. /\ m.method = "remove" /\ m.amounts[1] = j.amount
      /\ m.limits[1] = least1 /\ m.limits[2] = least2
  BY DEF Call
<1> HIDE DEF m
<1>7. now <= d => Execute(m, d, l) = Remove(j.amount, m.limits, l)  BY <1>6, DispatchRemove
<1>8. CASE now > d
  <2>1. Execute(m, d, l) = Fail("EXPIRED", l)  BY <1>6, <1>8, Expires DEF PoolKinds
  <2> QED  BY <1>2, <2>1, Refuses
<1>9. CASE now <= d /\ (x2 < least1 \/ y2 < least2)
  <2>1. Execute(m, d, l) = Fail("SLIPPAGE", l)  BY <1>6, <1>7, <1>9 DEF Remove, x2, y2
  <2>2. Pool(l) # pool  BY <1>2, <1>4, <1>5, <1>9
  <2> QED  BY <1>2, <2>1, <2>2, Refuses
<1>10. CASE now <= d /\ ~(x2 < least1 \/ y2 < least2)
  <2>1. Execute(m, d, l) = r  BY <1>6, <1>7, <1>10 DEF Remove, x2, y2
  <2>2. /\ Reply3(r, l, {"ALLOWANCE", "BALANCE"})
        /\ r.error = "ALLOWANCE" => l.allowance["lp"] < j.amount
        /\ Done(r) => /\ r.ledger.owner["lp"] = l.owner["lp"] - j.amount
                      /\ r.ledger.owner["t0"] = l.owner["t0"] + x2
                      /\ r.ledger.owner["t1"] = l.owner["t1"] + y2
    BY <1>1, WithdrawIs DEF PoolTokens, x2, y2
  <2> HIDE DEF r
  <2>3. Reply3(r, l, PoolErrors) /\ r.error # "SLIPPAGE"  BY <2>2 DEF Reply3, PoolErrors
  <2>4. r.error = "ALLOWANCE" /\ ~j.skipApprove => Short(need, l)
    BY <2>2 DEF Short, Asking
  <2>5. ASSUME Done(r)  PROVE Honours(j, <<x, y>>, l, r.ledger)
    <3>1. l.owner["t0"] \in Nat /\ l.owner["t1"] \in Nat /\ l.owner["lp"] \in Nat
      BY SolventIs DEF Tokens, PoolTokens
    <3>2. /\ r.ledger.owner["lp"] - l.owner["lp"] = -j.amount
          /\ r.ledger.owner["t0"] - l.owner["t0"] = x2
          /\ r.ledger.owner["t1"] - l.owner["t1"] = y2
      BY <1>1, <1>3, <2>2, <2>5, <3>1
    <3>3. AtLeast(x2, x, j.bps) /\ AtLeast(y2, y, j.bps)
      <4>1. least1 <= x2 /\ least2 <= y2  BY <1>3, <1>5, <1>10
      <4> QED  BY <1>1, <1>2, <1>3, <4>1, AtLeastGrows DEF least1, least2
    <3> QED  BY <3>2, <3>3 DEF Honours
  <2>6. Keeps(j, b, pool, r, l)  BY <2>3, <2>4, <2>5 DEF Keeps
  <2> QED  BY <1>2, <2>1, <2>6
<1> QED  BY <1>8, <1>9, <1>10

LEMMA BargainKeeps ==
  ASSUME NEW l, Solvent(l), NEW j, Valid(j), NEW pool, Quotable(j, pool), NEW d \in Nat, now \in Nat
  PROVE  Keeps(j, Bargain(j, pool), pool, Execute(Bargain(j, pool).message, d, l), l)
<1>1. j.kind \in {"swapIn", "swapOut", "add", "remove"}  BY DEF Valid, PoolKinds
<1> QED  BY <1>1, SwapInKeeps, SwapOutKeeps, AddKeeps, RemoveKeeps

Elems(s) == {s[i] : i \in DOMAIN s}
Needs == Seq(Tokens \X Nat)
OneEach(need) ==
  \A i \in DOMAIN need : \A k \in DOMAIN need : need[i][1] = need[k][1] => need[i] = need[k]

\* A bargain asks for at most one allowance of each token.
LEMMA BargainIs ==
  ASSUME NEW j, Valid(j), NEW pool, Quotable(j, pool)
  PROVE  LET b == Bargain(j, pool)
         IN  /\ b.quote \in Seq(Nat) /\ b.message \in Message
             /\ b.need \in Needs /\ OneEach(b.need)
<1>1. /\ j.kind \in {"swapIn", "swapOut", "add", "remove"} /\ j.token \in Tokens
      /\ j.amount \in Nat /\ j.amount2 \in Nat /\ j.bps \in Int /\ validSlippage(j.bps)
  BY DEF Valid, PoolKinds, Job
<1>2. ASSUME NEW method \in PoolKinds, NEW amounts \in Seq(Nat), NEW limits \in Seq(Nat)
      PROVE  Call(method, j.token, amounts, limits) \in Message
  BY <1>1 DEF Call, Message
<1>3. PoolKinds = {"swapIn", "swapOut", "add", "remove"}  BY DEF PoolKinds
<1>4. ASSUME NEW x \in Nat, NEW y \in Nat  PROVE <<x>> \in Seq(Nat) /\ <<x, y>> \in Seq(Nat)
  OBVIOUS
<1>5. ASSUME NEW x \in Nat  PROVE computeMinAmount(x, j.bps) \in Nat
  BY <1>1, MinAmount
<1>6. ASSUME NEW t \in Tokens, NEW x \in Nat
      PROVE  Asking(j, << <<t, x>> >>) \in Needs /\ OneEach(Asking(j, << <<t, x>> >>))
  BY SMTT(30) DEF Asking, Needs, OneEach
<1>7. ASSUME NEW x \in Nat, NEW y \in Nat
      PROVE  LET need == Asking(j, << <<"t0", x>>, <<"t1", y>> >>)
             IN  need \in Needs /\ OneEach(need)
  <2> DEFINE pair == << <<"t0", x>>, <<"t1", y>> >>
  <2>1. pair \in Needs /\ <<>> \in Needs  BY DEF Needs, Tokens, PoolTokens
  <2>2. DOMAIN pair = {1, 2} /\ pair[1][1] = "t0" /\ pair[2][1] = "t1"  OBVIOUS
  <2> HIDE DEF pair
  <2>3. OneEach(pair) /\ OneEach(<<>>)  BY <2>2 DEF OneEach
  <2> QED  BY <2>1, <2>3 DEF Asking, pair
<1>8. CASE j.kind = "swapIn"
  <2> DEFINE out == AmountOut(j.amount, j.token, pool)
  <2>1. /\ out \in Nat
        /\ Bargain(j, pool) = [quote |-> <<out>>, need |-> Asking(j, << <<j.token, j.amount>> >>),
             message |-> Call("swapIn", j.token, <<j.amount>>, <<computeMinAmount(out, j.bps)>>)]
    BY <1>8, SwapInTerms
  <2> HIDE DEF out
  <2>2. Call("swapIn", j.token, <<j.amount>>, <<computeMinAmount(out, j.bps)>>) \in Message
    BY <1>1, <1>2, <1>3, <1>4, <1>5, <2>1
  <2> QED  BY <1>1, <1>4, <1>6, <2>1, <2>2
<1>9. CASE j.kind = "swapOut"
  <2> DEFINE in == AmountIn(j.amount, j.token, pool)
             most == computeMaxAmount(in, j.bps)
  <2>1. /\ in \in Nat /\ most \in Nat
        /\ Bargain(j, pool) = [quote |-> <<in>>, need |-> Asking(j, << <<j.token, most>> >>),
             message |-> Call("swapOut", j.token, <<j.amount>>, <<most>>)]
    BY <1>9, SwapOutTerms
  <2> HIDE DEF in, most
  <2>2. Call("swapOut", j.token, <<j.amount>>, <<most>>) \in Message
    BY <1>1, <1>2, <1>3, <1>4, <2>1
  <2> QED  BY <1>1, <1>4, <1>6, <2>1, <2>2
<1>10. CASE j.kind = "add"
  <2> DEFINE o == optimalDeposit(Of0(j), Of1(j), pool.reserve["t0"], pool.reserve["t1"])
             limits == <<computeMinAmount(o[1], j.bps), computeMinAmount(o[2], j.bps)>>
  <2>1. /\ o[1] \in Nat /\ o[2] \in Nat
        /\ Bargain(j, pool) = [quote |-> <<o[1], o[2]>>,
             need |-> Asking(j, << <<"t0", Of0(j)>>, <<"t1", Of1(j)>> >>),
             message |-> Call("add", j.token, <<Of0(j), Of1(j)>>, limits)]
    BY <1>10, AddTermsIs
  <2> HIDE DEF o
  <2>0. Of0(j) \in Nat /\ Of1(j) \in Nat  BY AskedIs DEF Valid
  <2>2. limits \in Seq(Nat) /\ <<Of0(j), Of1(j)>> \in Seq(Nat)  BY <1>4, <1>5, <2>0, <2>1
  <2> HIDE DEF limits
  <2>3. Call("add", j.token, <<Of0(j), Of1(j)>>, limits) \in Message
    BY <1>2, <1>3, <2>2
  <2> QED  BY <1>4, <1>7, <2>0, <2>1, <2>3
<1>11. CASE j.kind = "remove"
  <2> DEFINE x == Shares(j.amount, pool)["t0"]
             y == Shares(j.amount, pool)["t1"]
             limits == <<computeMinAmount(x, j.bps), computeMinAmount(y, j.bps)>>
  <2>1. /\ x \in Nat /\ y \in Nat
        /\ Bargain(j, pool) = [quote |-> <<x, y>>, need |-> Asking(j, << <<"lp", j.amount>> >>),
             message |-> Call("remove", j.token, <<j.amount>>, limits)]
    BY <1>11, RemoveTermsIs
  <2> HIDE DEF x, y
  <2>2. limits \in Seq(Nat)  BY <1>4, <1>5, <2>1
  <2> HIDE DEF limits
  <2>3. Call("remove", j.token, <<j.amount>>, limits) \in Message
    BY <1>1, <1>2, <1>3, <1>4, <2>2
  <2> QED  BY <1>1, <1>4, <1>6, <2>1, <2>3, Tokens3
<1> QED  BY <1>1, <1>8, <1>9, <1>10, <1>11

-----------------------------------------------------------------------------
(* The inductive invariant                                                 *)

\* The pair has been asked, and nothing of the quote changes any more.
Agreed(c) ==
  /\ c.job.kind \in PoolKinds
  /\ \/ c.step \in {"allowance", "reset", "approve", "voucher", "build", "sent"}
     \/ c.step = "deadline" /\ c.job.kind \notin {"swapIn", "swapOut"}
\* The command is about to send, or is sending, this transaction.
AtWork(c, sending) == c.step = sending \/ (c.step = "sent" /\ c.sending = sending)
Running(c) == c.step \notin {"start", "done"}
Full(c) == Bargain(c.job, c.quoted).need

\* A running command was given valid options; one that asks nothing of the pair sends one
\* transaction, its arguments.
JobInv(c) ==
  /\ c.job \in Jobs
  /\ Running(c) => ~(c.job.dryRun /\ ~c.job.estimate)
  /\ Running(c) /\ c.job.kind \in PoolKinds => Valid(c.job)
  /\ Running(c) /\ c.job.kind \notin PoolKinds =>
       /\ c.step \in {"voucher", "build", "sent"} /\ c.message = Direct(c.job)
       /\ ~AtWork(c, "reset") /\ ~AtWork(c, "approve")
PreviewInv(c) == c.job.dryRun \/ c.job.estimate => c.step # "sent" /\ c.result # "ok"

\* Approvals are made one by one, and all of them before the command's own transaction.
SendInv(c) ==
  /\ c.step = "sent" => c.sending \in {"reset", "approve", "build"}
  /\ c.step \in {"start", "voucher"} \/ AtWork(c, "build") => c.need = <<>>
  /\ AtWork(c, "reset") \/ AtWork(c, "approve") => c.need # <<>>
  /\ c.step # "done" => c.result \notin {"ok", "SLIPPAGE", "ALLOWANCE", "APPROVE"}

\* What is sent is what the quote calls for.
BargainInv(c) ==
  Agreed(c) => /\ Quotable(c.job, c.quoted)
               /\ c.message = Bargain(c.job, c.quoted).message
               /\ c.quote = Bargain(c.job, c.quoted).quote

\* An allowance the bargain needs is still to be looked at, is there, or was disturbed.
Covered(e, c, l) ==
  e \in Elems(c.need) \/ l.allowance[e[1]] >= e[2] \/ e[1] \in c.disturbed
NeedInv(c, l) ==
  Agreed(c) => /\ \A e \in Elems(c.need) : e \in Elems(Full(c))
               /\ \A e \in Elems(Full(c)) : Covered(e, c, l)
\* An approval is made over a zero allowance, or one was set in between.
ApproveInv(c, l) ==
  AtWork(c, "approve") => LET t == Head(c.need)[1] IN l.allowance[t] = 0 \/ t \in c.disturbed

Shortage == {"ALLOWANCE", "APPROVE"}
SelfApproving(c) == c.job.kind \in PoolKinds /\ ~c.job.skipApprove
RefusedInv(c) == c.result \in Shortage /\ SelfApproving(c) => c.disturbed # {}

CmdInv(c, l) ==
  /\ JobInv(c) /\ PreviewInv(c) /\ SendInv(c) /\ BargainInv(c)
  /\ NeedInv(c, l) /\ ApproveInv(c, l) /\ RefusedInv(c)

IInv == TypeOK /\ Solvent(ledger) /\ \A p \in Commands : CmdInv(cmd[p], ledger)
-----------------------------------------------------------------------------
(* What a transaction of a command comes to                                *)

LEMMA HeadIs ==
  ASSUME NEW need \in Needs, need # <<>>
  PROVE  /\ Head(need) \in Tokens \X Nat /\ Tail(need) \in Needs
         /\ Head(need)[1] \in Tokens /\ Head(need)[2] \in Nat
         /\ Head(need) \in Elems(need)
         /\ \A e \in Elems(need) : e = Head(need) \/ e \in Elems(Tail(need))
         /\ \A e \in Elems(Tail(need)) : e \in Elems(need)
<1>1. /\ 1 \in DOMAIN need /\ Head(need) = need[1] /\ need[1] \in Tokens \X Nat
      /\ Tail(need) \in Needs
  BY DEF Needs
<1>2. \A i \in DOMAIN need : i = 1 \/ (i - 1 \in DOMAIN Tail(need) /\ Tail(need)[i - 1] = need[i])
  BY DEF Needs
<1>3. \A i \in DOMAIN Tail(need) : i + 1 \in DOMAIN need /\ Tail(need)[i] = need[i + 1]
  BY DEF Needs
<1>4. Head(need)[1] \in Tokens /\ Head(need)[2] \in Nat  BY <1>1
<1>5. Head(need) \in Elems(need)  BY <1>1 DEF Elems
<1>6. \A e \in Elems(need) : e = Head(need) \/ e \in Elems(Tail(need))
  BY <1>1, <1>2 DEF Elems
<1>7. \A e \in Elems(Tail(need)) : e \in Elems(need)
  BY <1>3 DEF Elems
<1> QED  BY <1>1, <1>4, <1>5, <1>6, <1>7

\* The allowances asked for are of tokens, natural, and one for each.
LEMMA FullIs ==
  ASSUME NEW c \in Command, Valid(c.job), Quotable(c.job, c.quoted)
  PROVE  /\ \A e \in Elems(Full(c)) : e[1] \in Tokens /\ e[2] \in Nat
         /\ \A e \in Elems(Full(c)) : \A f \in Elems(Full(c)) : e[1] = f[1] => e = f
<1>1. Full(c) \in Needs /\ OneEach(Full(c))  BY BargainIs DEF Full
<1>2. \A i \in DOMAIN Full(c) : Full(c)[i] \in Tokens \X Nat  BY <1>1 DEF Needs
<1> QED  BY <1>1, <1>2 DEF Elems, OneEach

LEMMA DirectIs ==
  ASSUME NEW j \in Job, j.kind \notin PoolKinds, NEW l, Solvent(l), NEW d \in Nat, now \in Nat
  PROVE  /\ Reply3(Execute(Direct(j), d, l), l, {"APPROVE", "BALANCE"})
         /\ Direct(j) \in Message
<1>1. j.token \in Tokens /\ j.amount \in Nat /\ j.kind \in VftKinds \cup {"call"}  BY DEF Job
<1>2. Direct(j) \in Message
  <2>1. <<j.amount>> \in Seq(Nat) /\ <<>> \in Seq(Nat)
    <3> DEFINE x == j.amount
    <3>1. x \in Nat  BY <1>1
    <3> HIDE DEF x
    <3>2. <<x>> \in Seq(Nat) /\ <<>> \in Seq(Nat)  BY <3>1
    <3> QED  BY <3>2 DEF x
  <2>2. (IF j.kind = "call" THEN "approve" ELSE j.kind) \in VftKinds  BY <1>1 DEF VftKinds
  <2> QED  BY <1>1, <2>1, <2>2 DEF Direct, Call, Message
<1>3. CASE j.kind \in {"call", "approve"}
  <2>1. Direct(j) = Call("approve", j.token, <<j.amount>>, <<>>)  BY <1>3 DEF Direct
  <2>2. Reply3(Execute(Call("approve", j.token, <<j.amount>>, <<>>), d, l), l, {"APPROVE"})
    BY <1>1, ApproveIs
  <2> QED  BY <1>2, <2>1, <2>2 DEF Reply3
<1>4. CASE j.kind \in {"transfer", "burn", "mint", "transferFrom"}
  <2>1. Direct(j) = Call(j.kind, j.token, <<j.amount>>, <<>>)  BY <1>4 DEF Direct
  <2>2. Reply3(Execute(Direct(j), d, l), l, {"BALANCE"})  BY <1>1, <1>4, <2>1, TransferIs
  <2> QED  BY <1>2, <2>2 DEF Reply3
<1> QED  BY <1>1, <1>3, <1>4 DEF VftKinds

\* A transaction leaves the ledger solvent; it is refused for an allowance only where one was
\* disturbed, and for its limits only by another pool; done, it keeps the bargain.
LEMMA SendingIs ==
  ASSUME NEW c \in Command, NEW l, Solvent(l), CmdInv(c, l), now \in Nat,
         NEW what \in {"reset", "approve", "build"}, AtWork(c, what)
  PROVE  LET r == Execute(Transaction(c, what), c.deadline, l)
         IN  /\ Reply3(r, l, Errors)
             /\ r.error \in Shortage /\ SelfApproving(c) => c.disturbed # {}
             /\ r.error = "SLIPPAGE" => Pool(l) # c.quoted
             /\ what = "build" /\ Done(r) => Honours(c.job, c.quote, l, r.ledger)
             /\ what # "build" /\ Done(r) =>
                  LET t == Head(c.need)[1]
                  IN  /\ r.ledger.allowance[t] = IF what = "reset" THEN 0 ELSE Head(c.need)[2]
                      /\ \A u \in Tokens : u # t => r.ledger.allowance[u] = l.allowance[u]
<1> DEFINE m == Transaction(c, what)
           r == Execute(m, c.deadline, l)
           t == Head(c.need)[1]
           x == IF what = "reset" THEN 0 ELSE Head(c.need)[2]
<1>1. /\ c.deadline \in Nat /\ c.need \in Needs /\ c.job \in Job /\ Running(c)
  BY DEF Command, AtWork, Running, Needs
<1>2. CASE what # "build"
  <2>1. c.need # <<>> /\ c.job.kind \in PoolKinds
    BY <1>1, <1>2 DEF CmdInv, SendInv, JobInv
  <2>2. t \in Tokens /\ Head(c.need)[2] \in Nat  BY <1>1, <2>1, HeadIs
  <2>3. m = Call("approve", t, <<x>>, <<>>) /\ x \in Nat  BY <1>2, <2>2 DEF Transaction
  <2> HIDE DEF m, t
  <2>4. x = IF what = "reset" THEN 0 ELSE Head(c.need)[2]  OBVIOUS
  <2> HIDE DEF x
  <2>5. /\ Reply3(r, l, {"APPROVE"})
        /\ ~Done(r) => l.allowance[t] > 0 /\ x > 0
        /\ Done(r) => /\ r.ledger.allowance[t] = x
                      /\ \A u \in Tokens : u # t => r.ledger.allowance[u] = l.allowance[u]
    <3> DEFINE q == Execute(Call("approve", t, <<x>>, <<>>), c.deadline, l)
    <3>1. /\ Reply3(q, l, {"APPROVE"})
          /\ ~Done(q) => l.allowance[t] > 0 /\ x > 0
          /\ Done(q) => /\ q.ledger.allowance[t] = x
                        /\ \A u \in Tokens : u # t => q.ledger.allowance[u] = l.allowance[u]
      BY <1>1, <2>2, <2>3, ApproveIs
    <3>2. q = r  BY <2>3
    <3> HIDE DEF q, r
    <3> QED  BY <3>1, <3>2
  <2> HIDE DEF r
  <2>6. r.error \in Shortage => c.disturbed # {}
    <3>1. SUFFICES ASSUME r.error \in Shortage  PROVE c.disturbed # {}
      OBVIOUS
    <3>2. ~Done(r)  BY <3>1 DEF Shortage, Done
    <3>3. what = "approve" /\ l.allowance[t] > 0  BY <1>2, <2>4, <2>5, <3>2
    <3>4. l.allowance[t] = 0 \/ t \in c.disturbed  BY <3>3 DEF CmdInv, ApproveInv, t
    <3> QED  BY <2>2, <3>3, <3>4, SolventIs
  <2>7. Reply3(r, l, Errors) /\ r.error # "SLIPPAGE"  BY <2>5 DEF Reply3, Errors
  <2> QED  BY <1>2, <2>4, <2>5, <2>6, <2>7 DEF r, m, t
<1>3. CASE what = "build"
  <2>1. m = c.message  BY <1>3 DEF Transaction
  <2>2. CASE c.job.kind \in PoolKinds
    <3>1. Agreed(c) /\ Valid(c.job) /\ c.need = <<>>
      BY <1>1, <1>3, <2>2 DEF CmdInv, SendInv, JobInv, Agreed, AtWork
    <3>2. /\ Quotable(c.job, c.quoted) /\ m = Bargain(c.job, c.quoted).message
          /\ c.quote = Bargain(c.job, c.quoted).quote
          /\ \A e \in Elems(Full(c)) : Covered(e, c, l)
      BY <2>1, <3>1 DEF CmdInv, BargainInv, NeedInv
    <3>3. Keeps(c.job, Bargain(c.job, c.quoted), c.quoted, r, l)
      BY <1>1, <3>1, <3>2, BargainKeeps
    <3> HIDE DEF r
    <3>4. r.error \in Shortage /\ SelfApproving(c) => c.disturbed # {}
      <4>1. SUFFICES ASSUME r.error \in Shortage, SelfApproving(c)  PROVE c.disturbed # {}
        OBVIOUS
      <4>2. r.error = "ALLOWANCE"
        BY <3>3, <4>1 DEF Keeps, Reply3, PoolErrors, Shortage
      <4>3. Short(Full(c), l)  BY <3>3, <4>1, <4>2 DEF Keeps, SelfApproving, Full
      <4>4. PICK i \in DOMAIN Full(c) : l.allowance[Full(c)[i][1]] < Full(c)[i][2]
        BY <4>3 DEF Short
      <4> DEFINE e == Full(c)[i]
      <4>5. e \in Elems(Full(c)) /\ e \notin Elems(c.need)  BY <3>1 DEF Elems
      <4>6. e[1] \in Tokens /\ e[2] \in Nat /\ l.allowance[e[1]] \in Nat
        BY <3>1, <3>2, <4>5, FullIs, SolventIs
      <4>7. l.allowance[e[1]] < e[2]  BY <4>4
      <4>8. Covered(e, c, l)  BY <3>2, <4>5
      <4> HIDE DEF e
      <4> QED  BY <4>5, <4>6, <4>7, <4>8 DEF Covered
    <3>5. Reply3(r, l, Errors)  BY <3>3 DEF Keeps, Reply3, PoolErrors, Errors
    <3> QED  BY <1>3, <3>2, <3>3, <3>4, <3>5 DEF Keeps, r
  <2>3. CASE c.job.kind \notin PoolKinds
    <3>1. m = Direct(c.job)  BY <1>1, <2>1, <2>3 DEF CmdInv, JobInv
    <3>2. Reply3(r, l, {"APPROVE", "BALANCE"})  BY <1>1, <2>3, <3>1, DirectIs
    <3> HIDE DEF r
    <3>3. Reply3(r, l, Errors) /\ r.error # "SLIPPAGE"  BY <3>2 DEF Reply3, Errors
    <3>4. Honours(c.job, c.quote, l, r.ledger)  BY <2>3 DEF Honours, PoolKinds
    <3> QED  BY <1>3, <2>3, <3>3, <3>4 DEF SelfApproving, r
  <2> QED  BY <2>2, <2>3
<1> QED  BY <1>2, <1>3

-----------------------------------------------------------------------------
(* One command takes a step                                                *)

LEMMA CommandIs ==
  ASSUME IInv, NEW p \in Commands
  PROVE  /\ cmd[p] \in Command /\ CmdInv(cmd[p], ledger) /\ Solvent(ledger)
         /\ cmd[p].job \in Jobs /\ cmd[p].job \in Job /\ now \in Nat
<1>1. cmd[p].job \in Jobs /\ cmd[p] \in Command /\ now \in Nat
  BY TradingAssumption DEF IInv, TypeOK, CmdInv, JobInv
<1> QED  BY <1>1 DEF IInv, Command

LEMMA OneStep ==
  ASSUME IInv, NEW p \in Commands, NEW c \in Command, CmdInv(c, ledger), Goes(p, c),
         UNCHANGED <<ledger, now, trades>>
  PROVE  IInv'
<1>1. cmd' = [cmd EXCEPT ![p] = c] /\ cmd \in [Commands -> Command]
  BY DEF Goes, IInv, TypeOK
<1>2. ASSUME NEW q \in Commands
      PROVE  cmd'[q] \in Command /\ CmdInv(cmd'[q], ledger)
  BY <1>1 DEF IInv
<1>3. cmd' \in [Commands -> Command]  BY <1>1
<1>4. \A q \in Commands : cmd'[q].step \in {"voucher", "build"} => cmd'[q].need = <<>>
  BY <1>2 DEF CmdInv, SendInv, AtWork
<1>5. TypeOK'  BY <1>3, <1>4 DEF IInv, TypeOK
<1> QED  BY <1>2, <1>5 DEF IInv

\* What others read is marked as disturbed where the ledger's allowances changed.
LEMMA DisturbedKeeps ==
  ASSUME NEW c \in Command, NEW l, Solvent(l), NEW n, Solvent(n), CmdInv(c, l),
         c.step # "done"
  PROVE  LET t == [c EXCEPT !.disturbed = @ \cup {u \in Tokens : n.allowance[u] # l.allowance[u]}]
         IN  t \in Command /\ CmdInv(t, n)
<1> DEFINE changed == {u \in Tokens : n.allowance[u] # l.allowance[u]}
           both == c.disturbed \cup changed
           t == [c EXCEPT !.disturbed = both]
<1>1. both \in SUBSET Tokens  BY DEF Command
<1>2. \A u \in Tokens : u \in both \/ n.allowance[u] = l.allowance[u]  OBVIOUS
<1>3. c.disturbed \subseteq both  OBVIOUS
<1> HIDE DEF both
<1>4. /\ t \in Command /\ t.job = c.job /\ t.step = c.step /\ t.sending = c.sending
      /\ t.message = c.message /\ t.need = c.need /\ t.quote = c.quote /\ t.quoted = c.quoted
      /\ t.disturbed = both /\ t.result = c.result
  BY <1>1 DEF Command
<1> HIDE DEF t
<1>5. JobInv(t) /\ PreviewInv(t) /\ SendInv(t) /\ BargainInv(t) /\ Agreed(t) = Agreed(c)
  BY <1>4 DEF CmdInv, JobInv, PreviewInv, SendInv, BargainInv, Agreed, AtWork, Running
<1>6. NeedInv(t, n)
  <2>1. SUFFICES ASSUME Agreed(c)
                 PROVE  /\ \A e \in Elems(c.need) : e \in Elems(Full(c))
                        /\ \A e \in Elems(Full(c)) : Covered(e, t, n)
    BY <1>4, <1>5 DEF NeedInv, Full
  <2>2. /\ \A e \in Elems(c.need) : e \in Elems(Full(c))
        /\ \A e \in Elems(Full(c)) : Covered(e, c, l)
    BY <2>1 DEF CmdInv, NeedInv
  <2>3. Valid(c.job) /\ Quotable(c.job, c.quoted)
    BY <2>1 DEF CmdInv, JobInv, BargainInv, Agreed, Running
  <2>4. ASSUME NEW e \in Elems(Full(c))  PROVE Covered(e, t, n)
    <3>1. e[1] \in Tokens /\ Covered(e, c, l)  BY <2>2, <2>3, FullIs
    <3> QED  BY <1>2, <1>3, <1>4, <3>1 DEF Covered
  <2> QED  BY <2>2, <2>4
<1>7. ApproveInv(t, n)
  <2>1. SUFFICES ASSUME AtWork(c, "approve")
                 PROVE  n.allowance[Head(c.need)[1]] = 0 \/ Head(c.need)[1] \in both
    BY <1>4 DEF ApproveInv, AtWork
  <2>2. l.allowance[Head(c.need)[1]] = 0 \/ Head(c.need)[1] \in c.disturbed
    BY <2>1 DEF CmdInv, ApproveInv
  <2>3. Head(c.need)[1] \in Tokens
    BY <2>1, HeadIs DEF CmdInv, SendInv, Command, Needs
  <2> QED  BY <1>2, <1>3, <2>2, <2>3
<1>8. RefusedInv(t)
  BY <1>4 DEF CmdInv, SendInv, RefusedInv, Shortage
<1> QED  BY <1>4, <1>5, <1>6, <1>7, <1>8 DEF CmdInv, t, both

LEMMA DoneKeeps ==
  ASSUME NEW c \in Command, NEW l, NEW n, CmdInv(c, l), c.step = "done"
  PROVE  CmdInv(c, n)
  BY DEF CmdInv, NeedInv, ApproveInv, Agreed, AtWork

LEMMA IncludedStep ==
  ASSUME IInv, NEW p \in Commands, NEW c \in Command, NEW l, Solvent(l), CmdInv(c, l),
         Included(p, c, l)
  PROVE  IInv'
<1>1. ledger' = l /\ now' = now /\ trades' = trades  BY DEF Included
<1>2. ASSUME NEW q \in Commands
      PROVE  cmd'[q] \in Command /\ CmdInv(cmd'[q], l)
  <2>1. /\ cmd[q] \in Command /\ CmdInv(cmd[q], ledger) /\ Solvent(ledger)  BY CommandIs
  <2>2. CASE q = p
    BY <2>2 DEF Included
  <2>3. CASE q # p /\ cmd[q].step = "done"
    <3>1. cmd'[q] = cmd[q]  BY <2>3 DEF Included
    <3> QED  BY <2>1, <2>3, <3>1, DoneKeeps
  <2>4. CASE q # p /\ cmd[q].step # "done"
    <3>1. cmd'[q] = [cmd[q] EXCEPT !.disturbed = @ \cup
                       {u \in Tokens : l.allowance[u] # ledger.allowance[u]}]
      BY <2>4 DEF Included
    <3> QED  BY <2>1, <2>4, <3>1, DisturbedKeeps
  <2> QED  BY <2>2, <2>3, <2>4
<1>3. DOMAIN cmd' = Commands /\ cmd' = [q \in Commands |-> cmd'[q]]  BY DEF Included
<1>4. cmd' \in [Commands -> Command]  BY <1>2, <1>3
<1>5. \A q \in Commands : cmd'[q].step \in {"voucher", "build"} => cmd'[q].need = <<>>
  BY <1>2 DEF CmdInv, SendInv, AtWork
<1>6. TypeOK'  BY <1>1, <1>4, <1>5 DEF IInv, TypeOK, Solvent
<1> QED  BY <1>1, <1>2, <1>6 DEF IInv

\* A command may end with any result that its job and its reading of the allowances allow.
LEMMA EndKeeps ==
  ASSUME NEW c \in Command, c.job \in Jobs, NEW result \in Results, NEW l,
         result = "ok" => ~c.job.dryRun /\ ~c.job.estimate,
         result \in Shortage /\ SelfApproving(c) => c.disturbed # {}
  PROVE  /\ Ended(c, result) \in Command /\ CmdInv(Ended(c, result), l)
         /\ Ended(c, result).result = result
<1> DEFINE t == Ended(c, result)
<1>1. t = [c EXCEPT !.step = "done", !.result = result]  BY DEF Ended
<1>2. "done" \in Steps  BY DEF Steps
<1> HIDE DEF t
<1>3. /\ t \in Command /\ t.job = c.job /\ t.step = "done" /\ t.disturbed = c.disturbed
      /\ t.result = result
  BY <1>1, <1>2 DEF Command
<1>4. CmdInv(t, l)
  BY <1>3 DEF CmdInv, JobInv, PreviewInv, SendInv, BargainInv, NeedInv, ApproveInv, RefusedInv,
              Agreed, AtWork, Running, SelfApproving
<1> QED  BY <1>3, <1>4 DEF t

-----------------------------------------------------------------------------
(* The actions                                                             *)

LEMMA InitIInv == Init => IInv
<1> SUFFICES ASSUME Init  PROVE IInv
  OBVIOUS
<1>2. PICK job \in [Commands -> Jobs] : cmd = [p \in Commands |-> Fresh(job[p], ledger)]
  BY DEF Init
<1>3. Solvent(ledger)  BY TradingAssumption DEF Init, Solvent
<1>4. ASSUME NEW p \in Commands  PROVE cmd[p] \in Command /\ CmdInv(cmd[p], ledger)
  <2> DEFINE c == cmd[p]
  <2>1. c = Fresh(job[p], ledger) /\ job[p] \in Jobs /\ job[p] \in Job
    BY <1>2, TradingAssumption
  <2>2. "start" \in Steps  BY DEF Steps
  <2>3. Empty \in Message  BY DEF Empty, Message, Tokens
  <2>4. Pool(ledger) \in Pools  BY <1>3, SolventIs
  <2> HIDE DEF c
  <2>5. c \in Command
    <3>1. /\ <<>> \in Seq(Tokens \X Nat) /\ <<>> \in Seq(Nat) /\ 0 \in Nat
          /\ {} \in SUBSET Tokens /\ Pool(ledger) \in [reserve : [PoolTokens -> Nat], supply : Nat]
      BY <2>4 DEF Pools
    <3>2. "" \in Results /\ "" \in {"", "reset", "approve", "build"}  BY DEF Results
    <3>3. Fresh(job[p], ledger) \in Command
      BY <2>1, <2>2, <2>3, <3>1, <3>2 DEF Fresh, Command
    <3> QED  BY <2>1, <3>3
  <2>6. /\ c.job = job[p] /\ c.step = "start" /\ c.need = <<>> /\ c.result \notin {"ok", "SLIPPAGE"}
        /\ c.result \notin Shortage
    BY <2>1 DEF Fresh, Shortage
  <2>7. CmdInv(c, ledger)
    BY <2>1, <2>6 DEF CmdInv, JobInv, PreviewInv, SendInv, BargainInv, NeedInv, ApproveInv,
                      RefusedInv, Agreed, AtWork, Running, Shortage
  <2> QED  BY <2>5, <2>7 DEF c
<1>5. cmd \in [Commands -> Command]  BY <1>2, <1>4
<1>6. \A p \in Commands : cmd[p].step \in {"voucher", "build"} => cmd[p].need = <<>>
  BY <1>4 DEF CmdInv, SendInv, AtWork
<1>7. now \in 0..MaxTime /\ trades \in 0..MaxTrades  BY TradingAssumption DEF Init
<1>8. TypeOK  BY <1>3, <1>5, <1>6, <1>7 DEF TypeOK, Solvent
<1> QED  BY <1>3, <1>4, <1>8 DEF IInv

\* A command that starts to run without the pair having been asked.
LEMMA MovesOn ==
  ASSUME NEW c \in Command, NEW l, CmdInv(c, l), c.step = "start",
         NEW to \in {"deadline", "quote"}, Valid(c.job), ~(c.job.dryRun /\ ~c.job.estimate),
         to = "deadline" => c.job.kind \in {"swapIn", "swapOut"}
  PROVE  [c EXCEPT !.step = to] \in Command /\ CmdInv([c EXCEPT !.step = to], l)
<1> DEFINE t == [c EXCEPT !.step = to]
<1>1. to \in Steps  BY DEF Steps
<1>2. /\ t \in Command /\ t.job = c.job /\ t.step = to /\ t.need = c.need /\ t.result = c.result
  BY <1>1 DEF Command
<1> HIDE DEF t
<1>3. JobInv(t) /\ PreviewInv(t)
  BY <1>2 DEF CmdInv, JobInv, PreviewInv, Running, AtWork, Valid
<1>4. SendInv(t) /\ RefusedInv(t)
  BY <1>2 DEF CmdInv, SendInv, RefusedInv, AtWork, Shortage
<1>5. ~Agreed(t) /\ ~AtWork(t, "approve")  BY <1>2 DEF Agreed, AtWork
<1> QED  BY <1>2, <1>3, <1>4, <1>5 DEF CmdInv, BargainInv, NeedInv, ApproveInv, t

LEMMA BeginStep == ASSUME IInv, NEW p \in Commands, Begin(p)  PROVE IInv'
<1> DEFINE c == cmd[p]
           j == c.job
<1>1. /\ c \in Command /\ CmdInv(c, ledger) /\ Solvent(ledger) /\ j \in Jobs /\ j \in Job
      /\ now \in Nat
  BY CommandIs
<1>2. c.step = "start" /\ UNCHANGED <<ledger, now, trades>>  BY DEF Begin
<1>3. ASSUME NEW result \in {"INVALID_SLIPPAGE", "preview"}, Goes(p, Ended(c, result))
      PROVE  IInv'
  <2>1. result \in Results /\ result # "ok" /\ result \notin Shortage  BY DEF Results, Shortage
  <2>2. Ended(c, result) \in Command /\ CmdInv(Ended(c, result), ledger)
    BY <1>1, <2>1, EndKeeps
  <2> QED  BY <1>2, <1>3, <2>2, OneStep
<1>4. CASE InvalidSlippage(j) \/ (j.dryRun /\ ~j.estimate)
  <2>1. Goes(p, Ended(c, "INVALID_SLIPPAGE")) \/ Goes(p, Ended(c, "preview"))
    <3>1. (j.dryRun /\ ~j.estimate) => j.kind \notin PoolKinds
      BY <1>1, TradingAssumption DEF PoolKinds
    <3>2. InvalidSlippage(j) => j.kind \in PoolKinds  BY DEF InvalidSlippage
    <3>3. CASE InvalidSlippage(j)
      BY <3>1, <3>2, <3>3 DEF Begin
    <3>4. CASE ~InvalidSlippage(j)
      BY <1>4, <3>1, <3>4 DEF Begin
    <3> QED  BY <3>3, <3>4
  <2> QED  BY <1>3, <2>1
<1>5. CASE ~InvalidSlippage(j) /\ ~(j.dryRun /\ ~j.estimate)
  <2>1. CASE j.kind \in PoolKinds
    <3> DEFINE to == IF j.kind \in {"swapIn", "swapOut"} THEN "deadline" ELSE "quote"
    <3>1. Goes(p, [c EXCEPT !.step = to])  BY <1>5, <2>1 DEF Begin
    <3>2. Valid(j)
      <4>1. validSlippage(j.bps)  BY <1>5, <2>1 DEF InvalidSlippage
      <4> QED  BY <1>1, <2>1, <4>1, TradingAssumption DEF Valid
    <3>3. [c EXCEPT !.step = to] \in Command /\ CmdInv([c EXCEPT !.step = to], ledger)
      BY <1>1, <1>2, <1>5, <3>2, MovesOn
    <3> QED  BY <1>2, <3>1, <3>3, OneStep
  <2>2. CASE j.kind \notin PoolKinds
    <3> DEFINE m == Direct(j)
               t == [c EXCEPT !.step = "voucher", !.message = m]
    <3>1. Goes(p, t)  BY <1>5, <2>2 DEF Begin
    <3>2. m \in Message  BY <1>1, <2>2, DirectIs
    <3>3. "voucher" \in Steps  BY DEF Steps
    <3> HIDE DEF m
    <3>4. /\ t \in Command /\ t.job = j /\ t.step = "voucher" /\ t.need = c.need
          /\ t.result = c.result /\ t.message = m
      BY <1>1, <3>2, <3>3 DEF Command
    <3> HIDE DEF t
    <3>5. JobInv(t) /\ PreviewInv(t)
      BY <1>1, <1>2, <1>5, <2>2, <3>4 DEF CmdInv, JobInv, PreviewInv, Running, AtWork, m
    <3>6. SendInv(t) /\ RefusedInv(t)
      BY <1>1, <1>2, <3>4 DEF CmdInv, SendInv, RefusedInv, AtWork, Shortage
    <3>7. ~Agreed(t) /\ ~AtWork(t, "approve")  BY <2>2, <3>4 DEF Agreed, AtWork
    <3>8. CmdInv(t, ledger)
      BY <3>5, <3>6, <3>7 DEF CmdInv, BargainInv, NeedInv, ApproveInv
    <3> QED  BY <1>2, <3>1, <3>4, <3>8, OneStep
  <2> QED  BY <2>1, <2>2
<1> QED  BY <1>4, <1>5

\* Everything but where the command stands: the step, the transaction, the deadline.
Carries(t, c) ==
  /\ t.job = c.job /\ t.need = c.need /\ t.message = c.message /\ t.quote = c.quote
  /\ t.quoted = c.quoted /\ t.disturbed = c.disturbed /\ t.result = c.result
Onward(t, l) ==
  /\ t.job.kind \notin PoolKinds =>
       t.step \in {"voucher", "build", "sent"} /\ ~AtWork(t, "reset") /\ ~AtWork(t, "approve")
  /\ t.job.dryRun \/ t.job.estimate => t.step # "sent"
  /\ t.step = "sent" => t.sending \in {"reset", "approve", "build"}
  /\ t.step \in {"start", "voucher"} \/ AtWork(t, "build") => t.need = <<>>
  /\ AtWork(t, "reset") \/ AtWork(t, "approve") => t.need # <<>>
  /\ ApproveInv(t, l)

LEMMA CarriesOn ==
  ASSUME NEW c \in Command, NEW t \in Command, NEW l, CmdInv(c, l), Carries(t, c),
         Running(c), Agreed(t) => Agreed(c), Onward(t, l)
  PROVE  CmdInv(t, l)
<1>1. JobInv(t) /\ PreviewInv(t)
  BY DEF CmdInv, JobInv, PreviewInv, Running, Carries, Onward
<1>2. SendInv(t) /\ RefusedInv(t)
  BY DEF CmdInv, SendInv, RefusedInv, Running, Carries, Onward, Shortage, SelfApproving
<1>3. BargainInv(t)  BY DEF CmdInv, BargainInv, Carries
<1>4. NeedInv(t, l)  BY DEF CmdInv, NeedInv, Covered, Full, Carries
<1> QED  BY <1>1, <1>2, <1>3, <1>4 DEF CmdInv, Onward

LEMMA ReadDeadlineStep == ASSUME IInv, NEW p \in Commands, ReadDeadline(p)  PROVE IInv'
<1> DEFINE c == cmd[p]
           d == resolveDeadline(now, c.job.deadline, DefaultDeadline)
           to == AfterDeadline(c)
           t == [c EXCEPT !.deadline = d, !.step = to]
<1>1. /\ c \in Command /\ CmdInv(c, ledger) /\ c.job \in Jobs /\ c.job \in Job /\ now \in Nat
  BY CommandIs
<1>2. c.step = "deadline" /\ UNCHANGED <<ledger, now, trades>>  BY DEF ReadDeadline
<1>3. CASE c.job.deadline < 0
  <2>1. Goes(p, Ended(c, "INVALID_DEADLINE"))  BY <1>3 DEF ReadDeadline
  <2>2. "INVALID_DEADLINE" \in Results /\ "INVALID_DEADLINE" \notin Shortage
    BY DEF Results, Shortage
  <2>3. Ended(c, "INVALID_DEADLINE") \in Command /\ CmdInv(Ended(c, "INVALID_DEADLINE"), ledger)
    BY <1>1, <2>2, EndKeeps
  <2> QED  BY <1>2, <2>1, <2>3, OneStep
<1>4. CASE ~(c.job.deadline < 0)
  <2>1. Goes(p, t)  BY <1>4 DEF ReadDeadline
  <2>2. d \in Nat
    <3>1. c.job.deadline \in Int /\ DefaultDeadline \in Nat  BY <1>1, TradingAssumption DEF Job
    <3> QED  BY <1>1, <1>4, <3>1 DEF resolveDeadline
  <2>3. /\ to \in Steps
        /\ c.job.kind \in {"swapIn", "swapOut"} => to = "quote"
        /\ c.job.kind \notin {"swapIn", "swapOut"} => to = "allowance"
    BY DEF AfterDeadline, Steps
  <2>4. c.job.kind \in PoolKinds  BY <1>1, <1>2 DEF CmdInv, JobInv, Running
  <2> HIDE DEF d, to
  <2>5. t \in Command /\ Carries(t, c) /\ t.step = to
    BY <1>1, <2>2, <2>3 DEF Command, Carries
  <2> HIDE DEF t
  <2>6. Running(c) /\ (Agreed(t) => Agreed(c))
    BY <1>2, <2>3, <2>5 DEF Running, Agreed, Carries
  <2>7. Onward(t, ledger)
    BY <2>3, <2>4, <2>5 DEF Onward, AtWork, ApproveInv, Carries
  <2>8. CmdInv(t, ledger)  BY <1>1, <2>5, <2>6, <2>7, CarriesOn
  <2> QED  BY <1>2, <2>1, <2>5, <2>8, OneStep
<1> QED  BY <1>3, <1>4

LEMMA ApprovedStep == ASSUME IInv, NEW p \in Commands, Approved(p)  PROVE IInv'
<1> DEFINE c == cmd[p]
           t == [c EXCEPT !.step = "voucher"]
<1>1. /\ c \in Command /\ CmdInv(c, ledger)  BY CommandIs
<1>2. /\ c.step = "allowance" /\ c.need = <<>> /\ Goes(p, t) /\ UNCHANGED <<ledger, now, trades>>
  BY DEF Approved
<1>3. "voucher" \in Steps  BY DEF Steps
<1>4. t \in Command /\ Carries(t, c) /\ t.step = "voucher"
  BY <1>1, <1>3 DEF Command, Carries
<1> HIDE DEF t
<1>5. Running(c) /\ (Agreed(t) => Agreed(c))
  BY <1>2, <1>4 DEF Running, Agreed, Carries
<1>6. Onward(t, ledger)
  BY <1>1, <1>2, <1>4 DEF Onward, AtWork, ApproveInv, Carries
<1>7. CmdInv(t, ledger)  BY <1>1, <1>4, <1>5, <1>6, CarriesOn
<1> QED  BY <1>2, <1>4, <1>7, OneStep

LEMMA ValidateVoucherStep == ASSUME IInv, NEW p \in Commands, ValidateVoucher(p)  PROVE IInv'
<1> DEFINE c == cmd[p]
           t == [c EXCEPT !.step = "build"]
<1>1. /\ c \in Command /\ CmdInv(c, ledger) /\ c.job \in Jobs  BY CommandIs
<1>2. c.step = "voucher" /\ UNCHANGED <<ledger, now, trades>>  BY DEF ValidateVoucher
<1>3. ASSUME NEW r \in VoucherErrors, Goes(p, Ended(c, r))  PROVE IInv'
  <2>1. r \in Results /\ r # "ok" /\ r \notin Shortage
    BY DEF VoucherErrors, Results, Shortage
  <2>2. Ended(c, r) \in Command /\ CmdInv(Ended(c, r), ledger)
    BY <1>1, <2>1, EndKeeps
  <2> QED  BY <1>2, <1>3, <2>2, OneStep
<1>4. CASE Goes(p, t)
  <2>1. Goes(p, t)  BY <1>4
  <2>2. "build" \in Steps  BY DEF Steps
  <2>3. t \in Command /\ Carries(t, c) /\ t.step = "build"
    BY <1>1, <2>2 DEF Command, Carries
  <2> HIDE DEF t
  <2>4. Running(c) /\ (Agreed(t) => Agreed(c))
    BY <1>2, <2>3 DEF Running, Agreed, Carries
  <2>5. c.need = <<>>  BY <1>1, <1>2 DEF CmdInv, SendInv
  <2>6. Onward(t, ledger)
    BY <2>3, <2>5 DEF Onward, AtWork, ApproveInv, Carries
  <2>7. CmdInv(t, ledger)  BY <1>1, <2>3, <2>4, <2>6, CarriesOn
  <2> QED  BY <1>2, <2>1, <2>3, <2>7, OneStep
<1> QED  BY <1>3, <1>4 DEF ValidateVoucher

LEMMA QuoteStep == ASSUME IInv, NEW p \in Commands, Quote(p)  PROVE IInv'
<1> DEFINE c == cmd[p]
           j == c.job
           pool == Pool(ledger)
           b == Bargain(j, pool)
           to == IF j.kind \in {"swapIn", "swapOut"} THEN "allowance" ELSE "deadline"
           t == [c EXCEPT !.quote = b.quote, !.quoted = pool, !.message = b.message,
                          !.need = b.need, !.step = to]
<1>1. /\ c \in Command /\ CmdInv(c, ledger) /\ j \in Jobs /\ j \in Job /\ Solvent(ledger)
  BY CommandIs
<1>2. c.step = "quote" /\ UNCHANGED <<ledger, now, trades>>  BY DEF Quote
<1>3. Valid(j) /\ j.kind \in PoolKinds  BY <1>1, <1>2 DEF CmdInv, JobInv, Running
<1>4. CASE InvalidAmount(j) \/ (j.kind = "swapOut" /\ j.amount >= ledger.reserve[Other(j.token)])
  <2>1. \E r \in {"INVALID_AMOUNT", "QUERY_FAILED"} : Goes(p, Ended(c, r))
    BY <1>4 DEF Quote
  <2>2. PICK r \in {"INVALID_AMOUNT", "QUERY_FAILED"} : Goes(p, Ended(c, r))  BY <2>1
  <2>3. r \in Results /\ r # "ok" /\ r \notin Shortage  BY DEF Results, Shortage
  <2>4. Ended(c, r) \in Command /\ CmdInv(Ended(c, r), ledger)
    BY <1>1, <2>3, EndKeeps
  <2> QED  BY <1>2, <2>2, <2>4, OneStep
<1>5. CASE /\ ~InvalidAmount(j)
           /\ ~(j.kind = "swapOut" /\ j.amount >= ledger.reserve[Other(j.token)])
  <2>1. Goes(p, t)  BY <1>5 DEF Quote
  <2>2. Quotable(j, pool)
    <3>1. pool \in Pools /\ Deep(pool) /\ pool.reserve = ledger.reserve
      BY <1>1, SolventIs DEF Pool
    <3>2. j.kind = "swapOut" => j.amount < ledger.reserve[Other(j.token)]
      <4>1. SUFFICES ASSUME j.kind = "swapOut"  PROVE j.amount < ledger.reserve[Other(j.token)]
        OBVIOUS
      <4>2. j.token \in PoolTokens  BY <1>3, <4>1 DEF Valid
      <4>3. j.amount \in Nat /\ ledger.reserve[Other(j.token)] \in Nat
        BY <1>1, <4>2, SolventIs, Tokens3 DEF Job
      <4> QED  BY <1>5, <4>1, <4>3
    <3> QED  BY <3>1, <3>2 DEF Quotable
  <2>3. b.quote \in Seq(Nat) /\ b.message \in Message /\ b.need \in Needs
    BY <1>3, <2>2, BargainIs
  <2>4. to \in Steps /\ to \in {"allowance", "deadline"}
    BY DEF Steps
  <2>5. to = "deadline" => j.kind \notin {"swapIn", "swapOut"}  OBVIOUS
  <2>6. pool \in [reserve : [PoolTokens -> Nat], supply : Nat]
    BY <1>1, SolventIs DEF Pools
  <2> HIDE DEF b, to, pool
  <2>7. /\ t \in Command /\ t.job = j /\ t.step = to /\ t.quote = b.quote /\ t.quoted = pool
        /\ t.message = b.message /\ t.need = b.need /\ t.disturbed = c.disturbed
        /\ t.result = c.result
    BY <1>1, <2>3, <2>4, <2>6 DEF Command, Needs
  <2> HIDE DEF t
  <2>8. JobInv(t) /\ PreviewInv(t)
    BY <1>1, <1>2, <1>3, <2>4, <2>7 DEF CmdInv, JobInv, PreviewInv, Running
  <2>9. SendInv(t) /\ RefusedInv(t) /\ ApproveInv(t, ledger)
    BY <1>1, <1>2, <2>4, <2>7 DEF CmdInv, SendInv, RefusedInv, ApproveInv, AtWork, Shortage
  <2>10. BargainInv(t)  BY <2>2, <2>7 DEF BargainInv, b
  <2>11. NeedInv(t, ledger)
    <3>1. Full(t) = t.need  BY <2>7 DEF Full, b
    <3> QED  BY <3>1 DEF NeedInv, Covered
  <2>12. CmdInv(t, ledger)  BY <2>8, <2>9, <2>10, <2>11 DEF CmdInv
  <2> QED  BY <1>2, <2>1, <2>7, <2>12, OneStep
<1> QED  BY <1>4, <1>5

\* Looking at the allowance the first approval is for, or setting it, leaves the others covered.
LEMMA HeadCovers ==
  ASSUME NEW c \in Command, NEW l, CmdInv(c, l), Agreed(c), c.need # <<>>, NEW t, NEW n,
         t.job = c.job, t.quoted = c.quoted,
         \A u \in Tokens : u # Head(c.need)[1] =>
           n.allowance[u] = l.allowance[u] /\ (u \in c.disturbed => u \in t.disturbed),
         \/ t.need = c.need
         \/ t.need = Tail(c.need) /\ n.allowance[Head(c.need)[1]] >= Head(c.need)[2]
  PROVE  NeedInv(t, n)
<1> DEFINE token == Head(c.need)[1]
<1>1. /\ Full(t) = Full(c)
      /\ \A e \in Elems(c.need) : e \in Elems(Full(c))
      /\ \A e \in Elems(Full(c)) : Covered(e, c, l)
      /\ Valid(c.job) /\ Quotable(c.job, c.quoted)
  BY DEF CmdInv, NeedInv, BargainInv, JobInv, Agreed, Running, Full
<1>2. /\ Head(c.need) \in Elems(c.need) /\ token \in Tokens
      /\ \A e \in Elems(c.need) : e = Head(c.need) \/ e \in Elems(Tail(c.need))
      /\ \A e \in Elems(Tail(c.need)) : e \in Elems(c.need)
  BY HeadIs DEF Command, Needs
<1>3. ASSUME NEW e \in Elems(Full(c))  PROVE Covered(e, t, n)
  <2>1. e[1] \in Tokens /\ Covered(e, c, l)  BY <1>1, FullIs
  <2>2. CASE e[1] = token
    <3>1. e = Head(c.need)  BY <1>1, <1>2, <2>2, FullIs
    <3> QED  BY <1>2, <3>1 DEF Covered
  <2>3. CASE e[1] # token
    <3>1. e \in Elems(c.need) => e \in Elems(t.need)  BY <1>2, <2>3
    <3> QED  BY <2>1, <2>3, <3>1 DEF Covered
  <2> QED  BY <2>2, <2>3
<1>4. \A e \in Elems(t.need) : e \in Elems(Full(c))  BY <1>1, <1>2
<1> QED  BY <1>1, <1>3, <1>4 DEF NeedInv

LEMMA CheckAllowanceStep == ASSUME IInv, NEW p \in Commands, CheckAllowance(p)  PROVE IInv'
<1> DEFINE c == cmd[p]
           token == Head(c.need)[1]
           short == Shortfall(ledger.allowance[token], Head(c.need)[2])
           left == c.disturbed \ {token}
           need == IF short = "none" THEN Tail(c.need) ELSE c.need
           to == IF short = "none" THEN "allowance" ELSE short
           t == [c EXCEPT !.disturbed = left, !.need = need, !.step = to]
<1>1. /\ c \in Command /\ CmdInv(c, ledger) /\ Solvent(ledger)  BY CommandIs
<1>2. /\ c.step = "allowance" /\ c.need # <<>> /\ UNCHANGED <<ledger, now, trades>>
      /\ Goes(p, t)
  BY DEF CheckAllowance
<1>3. c.need \in Needs  BY <1>1 DEF Command, Needs
<1>4. token \in Tokens /\ Head(c.need)[2] \in Nat /\ Tail(c.need) \in Needs  BY <1>2, <1>3, HeadIs
<1>5. ledger.allowance[token] \in Nat  BY <1>1, <1>4, SolventIs
<1>6. /\ short \in {"none", "reset", "approve"}
      /\ short = "none" => ledger.allowance[token] >= Head(c.need)[2]
      /\ short = "approve" => ledger.allowance[token] = 0
  <2> DEFINE have == ledger.allowance[token]
             required == Head(c.need)[2]
  <2>1. have \in Nat /\ required \in Nat  BY <1>4, <1>5
  <2> HIDE DEF have, required
  <2>2. CASE have >= required
    BY <2>1, <2>2 DEF Shortfall, have, required
  <2>3. CASE have < required /\ have > 0
    BY <2>1, <2>3 DEF Shortfall, have, required
  <2>4. CASE have < required /\ have = 0
    BY <2>1, <2>4 DEF Shortfall, have, required
  <2>5. have >= required \/ (have < required /\ have > 0) \/ (have < required /\ have = 0)
    BY <2>1
  <2> QED  BY <2>2, <2>3, <2>4, <2>5, Zenon
<1>7. c.job.kind \in PoolKinds /\ Agreed(c) /\ c.job \in Jobs /\ Running(c)
  BY <1>1, <1>2 DEF CmdInv, JobInv, Running, Agreed
<1> HIDE DEF short
<1>8. /\ to \in Steps /\ to \in {"allowance", "reset", "approve"}
      /\ to # "allowance" => short = to /\ need = c.need
  BY <1>6 DEF Steps
<1>9. left \in SUBSET Tokens /\ need \in Needs  BY <1>1, <1>3, <1>4 DEF Command
<1>10. \/ need = c.need
       \/ need = Tail(c.need) /\ ledger.allowance[token] >= Head(c.need)[2]
  BY <1>6
<1>11. \A u \in Tokens : u # token => (u \in c.disturbed => u \in left)  OBVIOUS
<1> HIDE DEF to, need, left
<1>12. /\ t \in Command /\ t.job = c.job /\ t.step = to /\ t.quote = c.quote
       /\ t.quoted = c.quoted /\ t.message = c.message /\ t.need = need
       /\ t.disturbed = left /\ t.result = c.result
  BY <1>1, <1>8, <1>9 DEF Command, Needs
<1> HIDE DEF t
<1>13. JobInv(t) /\ PreviewInv(t)
  BY <1>1, <1>7, <1>8, <1>12 DEF CmdInv, JobInv, PreviewInv, Running
<1>14. SendInv(t) /\ RefusedInv(t)
  BY <1>1, <1>2, <1>8, <1>12 DEF CmdInv, SendInv, RefusedInv, AtWork, Shortage
<1>15. BargainInv(t)  BY <1>1, <1>7, <1>12 DEF CmdInv, BargainInv
<1>16. NeedInv(t, ledger)  BY <1>1, <1>2, <1>7, <1>10, <1>11, <1>12, HeadCovers
<1>17. ApproveInv(t, ledger)  BY <1>6, <1>8, <1>12 DEF ApproveInv, AtWork
<1>18. CmdInv(t, ledger)  BY <1>13, <1>14, <1>15, <1>16, <1>17 DEF CmdInv
<1> QED  BY <1>2, <1>12, <1>18, OneStep

\* A transaction the chain or the simulation refused ends the command with its error.
LEMMA RefusedEnds ==
  ASSUME NEW c \in Command, c.job \in Jobs, NEW error \in Errors, NEW n,
         error \in Shortage /\ SelfApproving(c) => c.disturbed # {}
  PROVE  Ended(c, error) \in Command /\ CmdInv(Ended(c, error), n)
<1>1. error \in Results /\ error # "ok"  BY DEF Errors, Results
<1> QED  BY <1>1, EndKeeps

LEMMA SubmitStep == ASSUME IInv, NEW p \in Commands, Submit(p)  PROVE IInv'
<1> DEFINE c == cmd[p]
           what == c.step
           r == Execute(Transaction(c, what), c.deadline, ledger)
           t == [c EXCEPT !.step = "sent", !.sending = what]
<1>1. /\ c \in Command /\ CmdInv(c, ledger) /\ Solvent(ledger) /\ c.job \in Jobs /\ now \in Nat
  BY CommandIs
<1>2. /\ what \in {"reset", "approve", "build"} /\ UNCHANGED <<ledger, now, trades>>
      /\ AtWork(c, what)
  BY DEF Submit, AtWork
<1>3. /\ Reply3(r, ledger, Errors)
      /\ r.error \in Shortage /\ SelfApproving(c) => c.disturbed # {}
  BY <1>1, <1>2, SendingIs
<1>4. Goes(p, CASE r.error # "" /\ ~c.job.gasLimit -> Ended(c, r.error)
                [] Previews(c.job) /\ (r.error = "" \/ c.job.gasLimit) -> Ended(c, "preview")
                [] ~Previews(c.job) /\ (r.error = "" \/ c.job.gasLimit) -> t)
  BY DEF Submit
<1> HIDE DEF r
<1>5. CASE r.error # "" /\ ~c.job.gasLimit
  <2>1. Goes(p, Ended(c, r.error))  BY <1>4, <1>5
  <2>2. r.error \in Errors  BY <1>3, <1>5 DEF Reply3
  <2>3. Ended(c, r.error) \in Command /\ CmdInv(Ended(c, r.error), ledger)
    BY <1>1, <1>3, <2>2, RefusedEnds
  <2> QED  BY <1>2, <2>1, <2>3, OneStep
<1>6. CASE Previews(c.job) /\ ~(r.error # "" /\ ~c.job.gasLimit)
  <2>1. Goes(p, Ended(c, "preview"))
    <3>1. ~(r.error # "" /\ ~c.job.gasLimit) => (r.error = "" \/ c.job.gasLimit)  OBVIOUS
    <3> QED  BY <1>4, <1>6, <3>1
  <2>2. "preview" \in Results /\ "preview" \notin Shortage  BY DEF Results, Shortage
  <2>3. Ended(c, "preview") \in Command /\ CmdInv(Ended(c, "preview"), ledger)
    BY <1>1, <2>2, EndKeeps
  <2> QED  BY <1>2, <2>1, <2>3, OneStep
<1>7. CASE ~Previews(c.job) /\ ~(r.error # "" /\ ~c.job.gasLimit)
  <2>1. Goes(p, t)
    <3>1. ~(r.error # "" /\ ~c.job.gasLimit) => (r.error = "" \/ c.job.gasLimit)  OBVIOUS
    <3> QED  BY <1>4, <1>7, <3>1
  <2>2. "sent" \in Steps  BY DEF Steps
  <2>3. t \in Command /\ Carries(t, c) /\ t.step = "sent" /\ t.sending = what
    BY <1>1, <1>2, <2>2 DEF Command, Carries
  <2> HIDE DEF t
  <2>4. Running(c) /\ (Agreed(t) => Agreed(c)) /\ \A s \in {"reset", "approve", "build"} :
                                                     AtWork(t, s) => what = s
    BY <1>2, <2>3 DEF Running, Agreed, Carries, AtWork
  <2>5. ~c.job.dryRun /\ ~c.job.estimate
    BY <1>1, <1>7, <2>4 DEF CmdInv, JobInv, Previews
  <2>6. /\ c.job.kind \notin PoolKinds => what = "build"
        /\ what = "build" => c.need = <<>>
        /\ what # "build" => c.need # <<>>
    BY <1>1, <1>2, <2>4 DEF CmdInv, JobInv, SendInv
  <2>7. ApproveInv(t, ledger)
    BY <1>1, <1>2, <2>3, <2>4 DEF CmdInv, ApproveInv, Carries
  <2>8. Onward(t, ledger)
    BY <1>2, <2>3, <2>4, <2>5, <2>6, <2>7 DEF Onward, Carries
  <2>9. CmdInv(t, ledger)  BY <1>1, <2>3, <2>4, <2>8, CarriesOn
  <2> QED  BY <1>2, <2>1, <2>3, <2>9, OneStep
<1> QED  BY <1>5, <1>6, <1>7

\* What a transaction in flight comes to.
LEMMA SentIs ==
  ASSUME NEW c \in Command, NEW l, Solvent(l), CmdInv(c, l), now \in Nat, c.step = "sent"
  PROVE  /\ c.sending \in {"reset", "approve", "build"} /\ AtWork(c, c.sending)
         /\ ~c.job.dryRun /\ ~c.job.estimate /\ Running(c)
         /\ c.sending # "build" => c.job.kind \in PoolKinds /\ c.need # <<>>
         /\ c.sending = "build" => c.need = <<>>
  BY DEF CmdInv, SendInv, PreviewInv, JobInv, AtWork, Running

LEMMA ReplyStep == ASSUME IInv, NEW p \in Commands, Reply(p)  PROVE IInv'
<1> DEFINE c == cmd[p]
           what == c.sending
           token == Head(c.need)[1]
           r == Execute(Transaction(c, what), c.deadline, ledger)
           n == r.ledger
<1>1. /\ c \in Command /\ CmdInv(c, ledger) /\ Solvent(ledger) /\ c.job \in Jobs /\ now \in Nat
  BY CommandIs
<1>2. c.step = "sent" /\ Included(p, IF r.error # "" THEN Ended(c, r.error) ELSE AfterReply(c), n)
  BY DEF Reply
<1>3. /\ what \in {"reset", "approve", "build"} /\ AtWork(c, what)
      /\ ~c.job.dryRun /\ ~c.job.estimate /\ Running(c)
      /\ what # "build" => c.job.kind \in PoolKinds /\ c.need # <<>>
      /\ what = "build" => c.need = <<>>
  BY <1>1, <1>2, SentIs
<1>4. /\ Reply3(r, ledger, Errors)
      /\ r.error \in Shortage /\ SelfApproving(c) => c.disturbed # {}
      /\ what # "build" /\ Done(r) =>
           /\ n.allowance[token] = IF what = "reset" THEN 0 ELSE Head(c.need)[2]
           /\ \A u \in Tokens : u # token => n.allowance[u] = ledger.allowance[u]
  <2> HIDE DEF c, what
  <2> QED  BY <1>1, <1>3, SendingIs
<1>5. Solvent(n)  BY <1>4 DEF Reply3
<1> HIDE DEF r, n
<1>6. CASE ~Done(r)
  <2>1. Included(p, Ended(c, r.error), n)  BY <1>2, <1>6 DEF Done
  <2>2. r.error \in Errors  BY <1>4, <1>6 DEF Reply3, Done
  <2>3. Ended(c, r.error) \in Command /\ CmdInv(Ended(c, r.error), n)
    BY <1>1, <1>4, <2>2, RefusedEnds
  <2> QED  BY <1>5, <2>1, <2>3, IncludedStep
<1>7. CASE Done(r) /\ what = "build"
  <2> DEFINE d == [c EXCEPT !.sending = ""]
  <2>1. Included(p, AfterReply(c), n)  BY <1>2, <1>7 DEF Done
  <2>2. AfterReply(c) = Ended(d, "ok")  BY <1>7 DEF AfterReply
  <2>3. d \in Command /\ d.job = c.job  BY <1>1 DEF Command
  <2> HIDE DEF d
  <2>4. "ok" \in Results /\ "ok" \notin Shortage  BY DEF Results, Shortage
  <2>5. Ended(d, "ok") \in Command /\ CmdInv(Ended(d, "ok"), n)
    BY <1>1, <1>3, <2>3, <2>4, EndKeeps
  <2> QED  BY <1>5, <2>1, <2>2, <2>5, IncludedStep
<1>8. CASE Done(r) /\ what # "build"
  <2> DEFINE need == IF what = "reset" THEN c.need ELSE Tail(c.need)
             to == IF what = "reset" THEN "approve" ELSE "allowance"
             t == [c EXCEPT !.need = need, !.step = to, !.sending = ""]
  <2>1. Included(p, AfterReply(c), n)  BY <1>2, <1>8 DEF Done
  <2>2. c.need \in Needs /\ c.need # <<>> /\ c.job.kind \in PoolKinds
    BY <1>1, <1>3, <1>8 DEF Command, Needs
  <2>3. Tail(c.need) \in Needs /\ token \in Tokens /\ Head(c.need)[2] \in Nat  BY <2>2, HeadIs
  <2>4. AfterReply(c) \in Command /\ AfterReply(c).job = c.job /\ AfterReply(c).step = to
        /\ AfterReply(c).quote = c.quote /\ AfterReply(c).quoted = c.quoted
        /\ AfterReply(c).message = c.message /\ AfterReply(c).need = need
        /\ AfterReply(c).disturbed = c.disturbed /\ AfterReply(c).result = c.result
    <3>1. "approve" \in Steps /\ "allowance" \in Steps  BY DEF Steps
    <3>2. CASE what = "reset"
      <4>1. AfterReply(c) = [c EXCEPT !.step = "approve", !.sending = ""]
        BY <3>2 DEF AfterReply
      <4> QED  BY <1>1, <3>1, <3>2, <4>1 DEF Command
    <3>3. CASE what = "approve"
      <4>1. AfterReply(c) = [c EXCEPT !.need = Tail(@), !.step = "allowance", !.sending = ""]
        BY <3>3 DEF AfterReply
      <4> QED  BY <1>1, <2>3, <3>1, <3>3, <4>1, ZenonT(30) DEF Command, Needs
    <3> QED  BY <1>3, <1>8, <3>2, <3>3
  <2>5. /\ what = "reset" => to = "approve" /\ need = c.need /\ n.allowance[token] = 0
        /\ what = "approve" =>
             to = "allowance" /\ need = Tail(c.need) /\ n.allowance[token] = Head(c.need)[2]
    BY <1>3, <1>4, <1>8
  <2>6. need = c.need \/ (need = Tail(c.need) /\ n.allowance[token] >= Head(c.need)[2])
    BY <1>3, <1>8, <2>3, <2>5
  <2>7. /\ to \in {"approve", "allowance"}
        /\ to = "approve" => need # <<>> /\ n.allowance[token] = 0 /\ need = c.need
    BY <1>3, <1>8, <2>2, <2>5
  <2> HIDE DEF need, to
  <2> DEFINE a == AfterReply(c)
  <2>8. /\ a \in Command /\ a.job = c.job /\ a.step = to /\ a.quote = c.quote
        /\ a.quoted = c.quoted /\ a.message = c.message /\ a.need = need
        /\ a.disturbed = c.disturbed /\ a.result = c.result
    BY <2>4
  <2> HIDE DEF a
  <2>9. JobInv(a) /\ PreviewInv(a)
    BY <1>1, <1>3, <2>2, <2>7, <2>8 DEF CmdInv, JobInv, PreviewInv, Running
  <2>10. SendInv(a) /\ RefusedInv(a)
    BY <1>1, <1>2, <2>7, <2>8 DEF CmdInv, SendInv, RefusedInv, AtWork, Shortage
  <2>11. Agreed(c)  BY <1>2, <2>2 DEF Agreed
  <2>12. BargainInv(a)  BY <1>1, <2>8, <2>11 DEF CmdInv, BargainInv
  <2>13. NeedInv(a, n)
    <3>1. \A u \in Tokens : u # token =>
            n.allowance[u] = ledger.allowance[u] /\ (u \in c.disturbed => u \in a.disturbed)
      BY <1>4, <1>8, <2>8
    <3>2. a.need = c.need \/ (a.need = Tail(c.need) /\ n.allowance[token] >= Head(c.need)[2])
      BY <2>6, <2>8
    <3>3. c \in Command /\ CmdInv(c, ledger) /\ Agreed(c) /\ c.need # <<>>  BY <1>1, <2>2, <2>11
    <3>4. a.job = c.job /\ a.quoted = c.quoted  BY <2>8
    <3> HIDE DEF c
    <3> QED  BY <3>1, <3>2, <3>3, <3>4, HeadCovers
  <2>14. ApproveInv(a, n)  BY <2>7, <2>8 DEF ApproveInv, AtWork
  <2>15. CmdInv(a, n)  BY <2>9, <2>10, <2>12, <2>13, <2>14 DEF CmdInv
  <2> QED  BY <1>5, <2>1, <2>8, <2>15, IncludedStep DEF a
<1> QED  BY <1>6, <1>7, <1>8

LEMMA AnswerLostStep == ASSUME IInv, NEW p \in Commands, AnswerLost(p)  PROVE IInv'
<1> DEFINE c == cmd[p]
           r == Execute(Transaction(c, c.sending), c.deadline, ledger)
<1>1. /\ c \in Command /\ CmdInv(c, ledger) /\ Solvent(ledger) /\ c.job \in Jobs /\ now \in Nat
  BY CommandIs
<1>2. c.step = "sent"  BY DEF AnswerLost
<1>3. PICK l \in {ledger, r.ledger} : Included(p, Ended(c, "PROGRAM_ERROR"), l)
  BY DEF AnswerLost
<1>4. c.sending \in {"reset", "approve", "build"} /\ AtWork(c, c.sending)
  BY <1>1, <1>2, SentIs
<1>5. Reply3(r, ledger, Errors)  BY <1>1, <1>4, SendingIs
<1> HIDE DEF r
<1>6. Solvent(l)  BY <1>1, <1>3, <1>5 DEF Reply3
<1>7. "PROGRAM_ERROR" \in Results /\ "PROGRAM_ERROR" \notin Shortage  BY DEF Results, Shortage
<1>8. Ended(c, "PROGRAM_ERROR") \in Command /\ CmdInv(Ended(c, "PROGRAM_ERROR"), l)
  BY <1>1, <1>7, EndKeeps
<1> QED  BY <1>3, <1>6, <1>8, IncludedStep

-----------------------------------------------------------------------------
(* The other traders, the clock                                            *)

\* A command depends on the ledger by its allowances only.
LEMMA SameAllowances ==
  ASSUME NEW c, NEW l, CmdInv(c, l), NEW n, n.allowance = l.allowance
  PROVE  CmdInv(c, n)
  BY DEF CmdInv, NeedInv, ApproveInv, Covered

LEMMA OtherTradeStep == ASSUME IInv, OtherTrade  PROVE IInv'
<1>1. PICK in \in PoolTokens, amount \in 1..2 :
        ledger' = Trade(in, amount, AmountOut(amount, in, ledger), ledger)
  BY DEF OtherTrade
<1> DEFINE out == AmountOut(amount, in, ledger)
<1>2. trades < MaxTrades /\ trades' = trades + 1 /\ now' = now /\ cmd' = cmd
  BY DEF OtherTrade
<1>3. Solvent(ledger)  BY DEF IInv
<1>4. amount \in Nat \ {0}  OBVIOUS
<1>5. out \in Nat /\ out < ledger.reserve[Other(in)]
  BY <1>3, <1>4, SolventIs, OutBelow DEF Solvent, Funded
<1> HIDE DEF out
<1>6. Solvent(ledger') /\ ledger'.allowance = ledger.allowance
  BY <1>1, <1>3, <1>4, <1>5, TradeIs DEF out
<1>7. \A p \in Commands : CmdInv(cmd'[p], ledger')
  BY <1>2, <1>6, SameAllowances DEF IInv
<1>8. trades' \in 0..MaxTrades  BY <1>2, TradingAssumption DEF IInv, TypeOK
<1>9. TypeOK'  BY <1>2, <1>6, <1>8 DEF IInv, TypeOK, Solvent
<1> QED  BY <1>6, <1>7, <1>9 DEF IInv

LEMMA TickStep == ASSUME IInv, Tick  PROVE IInv'
<1>1. now' \in 0..MaxTime  BY TradingAssumption DEF Tick, IInv, TypeOK
<1> QED  BY <1>1 DEF Tick, IInv, TypeOK

LEMMA StepKeepsIInv == IInv /\ [Next]_vars => IInv'
<1> SUFFICES ASSUME IInv, [Next]_vars  PROVE IInv'
  OBVIOUS
<1>1. ASSUME NEW p \in Commands,
             \/ Begin(p) \/ ReadDeadline(p) \/ Quote(p) \/ CheckAllowance(p) \/ Approved(p)
             \/ ValidateVoucher(p) \/ Submit(p) \/ Reply(p) \/ AnswerLost(p)
      PROVE  IInv'
  BY <1>1, BeginStep, ReadDeadlineStep, QuoteStep, CheckAllowanceStep, ApprovedStep,
     ValidateVoucherStep, SubmitStep, ReplyStep, AnswerLostStep
<1>2. CASE UNCHANGED vars
  BY <1>2 DEF vars, IInv, TypeOK
<1>3. CASE OtherTrade
  BY <1>3, OtherTradeStep
<1>4. CASE Tick
  BY <1>4, TickStep
<1> QED  BY <1>1, <1>2, <1>3, <1>4 DEF Next

-----------------------------------------------------------------------------
(* How a command comes to its result                                       *)

Quiets == VoucherErrors \cup
          {"INVALID_SLIPPAGE", "INVALID_AMOUNT", "INVALID_DEADLINE", "QUERY_FAILED", "preview"}

LEMMA EndedResult ==
  ASSUME NEW c \in Command, NEW result \in Results
  PROVE  Ended(c, result).result = result
  BY DEF Ended, Command

LEMMA QuietStep ==
  ASSUME IInv, NEW p \in Commands,
         \/ Begin(p) \/ ReadDeadline(p) \/ Quote(p) \/ CheckAllowance(p) \/ Approved(p)
         \/ ValidateVoucher(p)
  PROVE  \E x : Goes(p, x) /\ x.result \in Quiets \cup {cmd[p].result}
<1> DEFINE c == cmd[p]
           j == c.job
<1>1. c \in Command /\ j \in Jobs /\ j \in Job  BY CommandIs
<1>2. ASSUME NEW e \in Quiets  PROVE Ended(c, e).result \in Quiets
  <2>1. e \in Results  BY DEF Quiets, Results
  <2>2. Ended(c, e).result = e  BY <1>1, <2>1, EndedResult
  <2> QED  BY <2>2
<1>3. CASE Begin(p)
  <2>1. (j.dryRun /\ ~j.estimate) => j.kind \notin PoolKinds
    BY <1>1, TradingAssumption DEF PoolKinds
  <2>2. InvalidSlippage(j) => j.kind \in PoolKinds  BY DEF InvalidSlippage
  <2>3. CASE InvalidSlippage(j)
    <3>1. Goes(p, Ended(c, "INVALID_SLIPPAGE"))  BY <1>3, <2>1, <2>2, <2>3 DEF Begin
    <3> QED  BY <1>2, <3>1 DEF Quiets
  <2>4. CASE ~InvalidSlippage(j) /\ (j.dryRun /\ ~j.estimate)
    <3>1. Goes(p, Ended(c, "preview"))  BY <1>3, <2>1, <2>4 DEF Begin
    <3> QED  BY <1>2, <3>1 DEF Quiets
  <2>5. CASE ~InvalidSlippage(j) /\ ~(j.dryRun /\ ~j.estimate)
    <3> DEFINE to == IF j.kind \in {"swapIn", "swapOut"} THEN "deadline" ELSE "quote"
               x == [c EXCEPT !.step = to]
               y == [c EXCEPT !.step = "voucher", !.message = Direct(j)]
    <3>1. Goes(p, x) \/ Goes(p, y)
      <4>1. j.kind \in PoolKinds => Goes(p, x)  BY <1>3, <2>5 DEF Begin
      <4>2. j.kind \notin PoolKinds => Goes(p, y)  BY <1>3, <2>5 DEF Begin
      <4> QED  BY <4>1, <4>2
    <3>2. x.result = c.result /\ y.result = c.result  BY <1>1 DEF Command
    <3> QED  BY <3>1, <3>2
  <2> QED  BY <2>3, <2>4, <2>5
<1>4. CASE ReadDeadline(p)
  <2> DEFINE x == [c EXCEPT !.deadline = resolveDeadline(now, c.job.deadline, DefaultDeadline),
                            !.step = AfterDeadline(c)]
  <2>1. Goes(p, Ended(c, "INVALID_DEADLINE")) \/ Goes(p, x)
    BY <1>4 DEF ReadDeadline
  <2>2. x.result = c.result  BY <1>1 DEF Command
  <2>3. Ended(c, "INVALID_DEADLINE").result \in Quiets  BY <1>2 DEF Quiets
  <2> QED  BY <2>1, <2>2, <2>3
<1>5. CASE Quote(p)
  <2> DEFINE b == Bargain(j, Pool(ledger))
             x == [c EXCEPT !.quote = b.quote, !.quoted = Pool(ledger), !.message = b.message,
                            !.need = b.need,
                            !.step = IF j.kind \in {"swapIn", "swapOut"} THEN "allowance"
                                     ELSE "deadline"]
  <2>1. Goes(p, Ended(c, "INVALID_AMOUNT")) \/ Goes(p, Ended(c, "QUERY_FAILED")) \/ Goes(p, x)
    BY <1>5 DEF Quote
  <2>2. x.result = c.result
    <3> HIDE DEF b
    <3> QED  BY <1>1 DEF Command
  <2>3. /\ Ended(c, "INVALID_AMOUNT").result \in Quiets
        /\ Ended(c, "QUERY_FAILED").result \in Quiets
    BY <1>2 DEF Quiets
  <2> QED  BY <2>1, <2>2, <2>3
<1>6. CASE CheckAllowance(p)
  <2> DEFINE token == Head(c.need)[1]
             short == Shortfall(ledger.allowance[token], Head(c.need)[2])
             x == [c EXCEPT !.disturbed = @ \ {token},
                            !.need = IF short = "none" THEN Tail(@) ELSE @,
                            !.step = IF short = "none" THEN @ ELSE short]
  <2>1. Goes(p, x)  BY <1>6 DEF CheckAllowance
  <2>2. x.result = c.result
    <3> HIDE DEF short, token
    <3> QED  BY <1>1 DEF Command
  <2> QED  BY <2>1, <2>2
<1>7. CASE Approved(p)
  <2>1. Goes(p, [c EXCEPT !.step = "voucher"])  BY <1>7 DEF Approved
  <2>2. [c EXCEPT !.step = "voucher"].result = c.result  BY <1>1 DEF Command
  <2> QED  BY <2>1, <2>2
<1>8. CASE ValidateVoucher(p)
  <2>1. (\E r \in VoucherErrors : Goes(p, Ended(c, r))) \/ Goes(p, [c EXCEPT !.step = "build"])
    BY <1>8 DEF ValidateVoucher
  <2>2. [c EXCEPT !.step = "build"].result = c.result  BY <1>1 DEF Command
  <2>3. \A r \in VoucherErrors : Ended(c, r).result \in Quiets  BY <1>2 DEF Quiets
  <2> QED  BY <2>1, <2>2, <2>3
<1> QED  BY <1>3, <1>4, <1>5, <1>6, <1>7, <1>8

\* A transaction that was refused with this result, or executed.
Decides(c, what, result, n) ==
  LET r == Execute(Transaction(c, what), c.deadline, ledger)
  IN  \/ result = r.error /\ ~Done(r)
      \/ result = "ok" /\ Done(r) /\ n = r.ledger /\ what = "build"

LEMMA Decided ==
  ASSUME IInv, [Next]_vars, NEW p \in Commands, cmd'[p].result # cmd[p].result,
         cmd'[p].result \in {"ok", "SLIPPAGE"}
  PROVE  \E what \in {"reset", "approve", "build"} :
           AtWork(cmd[p], what) /\ Decides(cmd[p], what, cmd'[p].result, ledger')
<1> DEFINE c == cmd[p]
           what == c.step
<1>1. /\ c \in Command /\ CmdInv(c, ledger) /\ Solvent(ledger) /\ c.job \in Jobs /\ now \in Nat
      /\ cmd \in [Commands -> Command]
  BY CommandIs DEF IInv, TypeOK
<1>2. ASSUME NEW q \in Commands, NEW x, Goes(q, x)  PROVE q = p /\ cmd'[p] = x
  BY <1>1, <1>2 DEF Goes
<1>3. ASSUME NEW q \in Commands, NEW x, NEW l, Included(q, x, l)
      PROVE  q = p /\ cmd'[p] = x /\ ledger' = l
  <2>1. ledger' = l  BY <1>3 DEF Included
  <2>2. ASSUME q # p  PROVE cmd'[p].result = c.result
    BY <1>1, <1>3, <2>2 DEF Included, Command
  <2>3. q = p  BY <2>2
  <2> QED  BY <1>3, <2>1, <2>3 DEF Included
<1>4. ASSUME NEW q \in Commands,
             \/ Begin(q) \/ ReadDeadline(q) \/ Quote(q) \/ CheckAllowance(q) \/ Approved(q)
             \/ ValidateVoucher(q)
      PROVE  FALSE
  <2>1. PICK x : Goes(q, x) /\ x.result \in Quiets \cup {cmd[q].result}  BY <1>4, QuietStep
  <2>2. q = p /\ cmd'[p] = x  BY <1>2, <2>1
  <2> QED  BY <2>1, <2>2 DEF Quiets, VoucherErrors
<1>5. ASSUME NEW q \in Commands, Submit(q)
      PROVE  \E w \in {"reset", "approve", "build"} :
               AtWork(c, w) /\ Decides(c, w, cmd'[p].result, ledger')
  <2> DEFINE d == cmd[q]
             r == Execute(Transaction(d, d.step), d.deadline, ledger)
             t == [d EXCEPT !.step = "sent", !.sending = d.step]
  <2>1. /\ d.step \in {"reset", "approve", "build"}
        /\ Goes(q, CASE r.error # "" /\ ~d.job.gasLimit -> Ended(d, r.error)
                     [] Previews(d.job) /\ (r.error = "" \/ d.job.gasLimit) -> Ended(d, "preview")
                     [] ~Previews(d.job) /\ (r.error = "" \/ d.job.gasLimit) -> t)
    BY <1>5 DEF Submit
  <2>2. q = p  BY <1>2, <2>1
  <2>3. AtWork(c, what) /\ what \in {"reset", "approve", "build"}  BY <2>1, <2>2 DEF AtWork
  <2>4. Reply3(r, ledger, Errors)  BY <1>1, <2>2, <2>3, SendingIs
  <2>5. t.result = d.result  BY <1>1, <2>2 DEF Command
  <2> HIDE DEF r, t
  <2>6. CASE ~Done(r) /\ ~d.job.gasLimit
    <3>1. Goes(q, Ended(d, r.error))  BY <2>1, <2>6 DEF Done
    <3>2. r.error \in Results  BY <2>4 DEF Reply3, Errors, Results
    <3>3. cmd'[p].result = r.error  BY <1>1, <1>2, <2>2, <3>1, <3>2, EndedResult
    <3>4. Decides(c, what, cmd'[p].result, ledger')  BY <2>2, <2>6, <3>3 DEF Decides, r
    <3> QED  BY <2>3, <3>4
  <2>7. CASE ~(~Done(r) /\ ~d.job.gasLimit)
    <3>1. Goes(q, Ended(d, "preview")) \/ Goes(q, t)
      <4>1. ~(r.error # "" /\ ~d.job.gasLimit) /\ (r.error = "" \/ d.job.gasLimit)
        BY <2>7 DEF Done
      <4>2. CASE Previews(d.job)
        BY <2>1, <4>1, <4>2
      <4>3. CASE ~Previews(d.job)
        BY <2>1, <4>1, <4>3
      <4> QED  BY <4>2, <4>3
    <3>2. Ended(d, "preview").result = "preview"  BY <1>1, <2>2, EndedResult DEF Results
    <3> QED  BY <1>2, <2>2, <2>5, <3>1, <3>2
  <2> QED  BY <2>6, <2>7
<1>6. ASSUME NEW q \in Commands, Reply(q)
      PROVE  \E w \in {"reset", "approve", "build"} :
               AtWork(c, w) /\ Decides(c, w, cmd'[p].result, ledger')
  <2> DEFINE d == cmd[q]
             sending == d.sending
             r == Execute(Transaction(d, sending), d.deadline, ledger)
             x == IF r.error # "" THEN Ended(d, r.error) ELSE AfterReply(d)
  <2>1. d.step = "sent" /\ Included(q, x, r.ledger)  BY <1>6 DEF Reply
  <2>2. q = p /\ cmd'[p] = x /\ ledger' = r.ledger  BY <1>3, <2>1
  <2>3. AtWork(c, sending) /\ sending \in {"reset", "approve", "build"}
    BY <1>1, <2>1, <2>2, SentIs
  <2>4. Reply3(r, ledger, Errors)  BY <1>1, <2>2, <2>3, SendingIs
  <2>5. r.error \in Results  BY <2>4 DEF Reply3, Errors, Results
  <2> HIDE DEF r
  <2>6. CASE ~Done(r)
    <3>1. x = Ended(d, r.error)  BY <2>6 DEF Done
    <3>2. cmd'[p].result = r.error  BY <1>1, <2>2, <2>5, <3>1, EndedResult, ZenonT(30)
    <3>3. Decides(c, sending, cmd'[p].result, ledger')  BY <2>2, <2>6, <3>2 DEF Decides, r
    <3> QED  BY <2>3, <3>3
  <2>7. CASE Done(r)
    <3>1. x = AfterReply(d)  BY <2>7 DEF Done
    <3>2. CASE sending = "build"
      <4>1. AfterReply(d) = Ended([d EXCEPT !.sending = ""], "ok")  BY <3>2 DEF AfterReply
      <4>2. [d EXCEPT !.sending = ""] \in Command  BY <1>1, <2>2 DEF Command
      <4>3. AfterReply(d).result = "ok"  BY <4>1, <4>2, EndedResult, ZenonT(30) DEF Results
      <4>4. cmd'[p].result = "ok"  BY <2>2, <3>1, <4>3
      <4>5. Decides(c, sending, cmd'[p].result, ledger')
        BY <2>2, <2>7, <3>2, <4>4 DEF Decides, r
      <4> QED  BY <2>3, <4>5
    <3>3. CASE sending = "reset"
      <4>1. AfterReply(d) = [d EXCEPT !.step = "approve", !.sending = ""]
        BY <3>3 DEF AfterReply
      <4>2. AfterReply(d).result = d.result  BY <1>1, <2>2, <4>1 DEF Command
      <4> QED  BY <2>2, <3>1, <4>2
    <3>4. CASE sending = "approve"
      <4>1. AfterReply(d) = [d EXCEPT !.need = Tail(@), !.step = "allowance", !.sending = ""]
        BY <3>4 DEF AfterReply
      <4>2. AfterReply(d).result = d.result  BY <1>1, <2>2, <4>1 DEF Command
      <4> QED  BY <2>2, <3>1, <4>2
    <3> QED  BY <2>3, <3>2, <3>3, <3>4
  <2> QED  BY <2>6, <2>7
<1>7. ASSUME NEW q \in Commands, AnswerLost(q)  PROVE FALSE
  <2>1. PICK l : Included(q, Ended(cmd[q], "PROGRAM_ERROR"), l)  BY <1>7 DEF AnswerLost
  <2>2. q = p /\ cmd'[p] = Ended(cmd[q], "PROGRAM_ERROR")  BY <1>3, <2>1
  <2>3. Ended(cmd[q], "PROGRAM_ERROR").result = "PROGRAM_ERROR"
    BY <1>1, <2>2, EndedResult DEF Results
  <2> QED  BY <2>2, <2>3
<1>8. ~(UNCHANGED vars) /\ ~OtherTrade /\ ~Tick  BY DEF vars, OtherTrade, Tick
<1> QED  BY <1>4, <1>5, <1>6, <1>7, <1>8 DEF Next

LEMMA HonouredStep ==
  ASSUME IInv, [Next]_vars, NEW p \in Commands, Executed(p)
  PROVE  Honours(cmd[p].job, cmd[p].quote, ledger, ledger')
<1> DEFINE c == cmd[p]
<1>1. /\ c \in Command /\ CmdInv(c, ledger) /\ Solvent(ledger) /\ now \in Nat  BY CommandIs
<1>2. c.step = "sent" /\ cmd'[p].result = "ok"  BY DEF Executed
<1>3. c.result # "ok"  BY <1>1, <1>2 DEF CmdInv, SendInv
<1>4. PICK w \in {"reset", "approve", "build"} :
        AtWork(c, w) /\ Decides(c, w, cmd'[p].result, ledger')
  BY <1>2, <1>3, Decided
<1> DEFINE r == Execute(Transaction(c, w), c.deadline, ledger)
<1>5. /\ Reply3(r, ledger, Errors)
      /\ w = "build" /\ Done(r) => Honours(c.job, c.quote, ledger, r.ledger)
  BY <1>1, <1>4, SendingIs
<1>6. \/ cmd'[p].result = r.error /\ ~Done(r)
      \/ cmd'[p].result = "ok" /\ Done(r) /\ ledger' = r.ledger /\ w = "build"
  BY <1>4 DEF Decides
<1> HIDE DEF r
<1>7. Done(r) /\ ledger' = r.ledger /\ w = "build"
  BY <1>2, <1>5, <1>6 DEF Reply3, Done, Errors
<1> QED  BY <1>5, <1>7

LEMMA StandsStep ==
  ASSUME IInv, [Next]_vars, NEW p \in Commands, Rejected(p, "SLIPPAGE")
  PROVE  Pool(ledger) # cmd[p].quoted
<1> DEFINE c == cmd[p]
<1>1. /\ c \in Command /\ CmdInv(c, ledger) /\ Solvent(ledger) /\ now \in Nat  BY CommandIs
<1>2. c.result # "SLIPPAGE" /\ cmd'[p].result = "SLIPPAGE"  BY DEF Rejected
<1>3. PICK w \in {"reset", "approve", "build"} :
        AtWork(c, w) /\ Decides(c, w, cmd'[p].result, ledger')
  BY <1>2, Decided
<1> DEFINE r == Execute(Transaction(c, w), c.deadline, ledger)
<1>4. r.error = "SLIPPAGE" => Pool(ledger) # c.quoted
  BY <1>1, <1>3, SendingIs
<1>5. r.error = "SLIPPAGE"  BY <1>2, <1>3 DEF Decides
<1> QED  BY <1>4, <1>5

-----------------------------------------------------------------------------
(* The theorems                                                            *)

\* What the properties rest on holds in every state: amounts natural, nobody's withdrawal
\* empties the pool, and each command's message, approvals and result those of its quote.
THEOREM Invariance == Spec => []IInv
  BY InitIInv, StepKeepsIInv, PTL DEF Spec

\* Reserves, balances and allowances stay natural numbers whatever the commands and the
\* other traders do, and a command's own transaction waits for its last approval.
THEOREM TradingTypes == Spec => []TypeOK
<1>1. IInv => TypeOK  BY DEF IInv
<1> QED  BY <1>1, Invariance, PTL

\* A command that approves by itself (ensureApproval) is refused for an allowance, or for an
\* approval over one, only if another command changed an allowance it had read.
THEOREM ApprovalsAreEnough == Spec => []ApprovalsSuffice
<1>1. IInv => ApprovalsSuffice
  BY DEF IInv, CmdInv, RefusedInv, ApprovalsSuffice, Shortage, SelfApproving
<1> QED  BY <1>1, Invariance, PTL

\* A preview, with --dry-run, with --estimate or with both, sends no transaction.
THEOREM PreviewsAreSafe == Spec => []PreviewsSendNothing
<1>1. IInv => PreviewsSendNothing  BY DEF IInv, CmdInv, PreviewInv, PreviewsSendNothing
<1> QED  BY <1>1, Invariance, PTL

\* A swap, deposit or withdrawal reported as done moved no worse amounts than its quote less
\* the slippage asked for, whatever traded between the quote and the execution.
THEOREM QuotesHonoured == Spec => QuoteHonoured
<1> DEFINE Kept ==
      \A p \in Commands : Executed(p) => Honours(cmd[p].job, cmd[p].quote, ledger, ledger')
<1>1. IInv /\ [Next]_vars => Kept  BY HonouredStep
<1>2. Kept =>
        \A p \in Commands : Executed(p) =>
          LET j == cmd[p].job
              promised == cmd[p].quote
              atLeast(gain, i) == 10000 * (gain + 1) > promised[i] * (10000 - j.bps)
          IN  /\ j.kind = "swapIn" =>
                   Gain(j.token) = -j.amount /\ atLeast(Gain(Other(j.token)), 1)
              /\ j.kind = "swapOut" =>
                   /\ Gain(Other(j.token)) = j.amount
                   /\ 10000 * (-Gain(j.token) - 1) < promised[1] * (10000 + j.bps)
              /\ j.kind = "add" =>
                   /\ -Gain(j.token) <= j.amount /\ -Gain(Other(j.token)) <= j.amount2
                   /\ atLeast(-Gain("t0"), 1) /\ atLeast(-Gain("t1"), 2)
              /\ j.kind = "remove" =>
                   /\ Gain("lp") = -j.amount
                   /\ atLeast(Gain("t0"), 1) /\ atLeast(Gain("t1"), 2)
  BY DEF Honours, AtLeast, Gain
<1> QED  BY <1>1, <1>2, Invariance, PTL DEF Spec, QuoteHonoured

\* The pair refuses a command's limits only if the pool is no longer the one it was quoted.
THEOREM QuotesStand == Spec => QuoteStands
<1> DEFINE Stood == \A p \in Commands : Rejected(p, "SLIPPAGE") => Pool(ledger) # cmd[p].quoted
<1>1. IInv /\ [Next]_vars => Stood  BY StandsStep
<1> QED  BY <1>1, Invariance, PTL DEF Spec, QuoteStands
=============================================================================
