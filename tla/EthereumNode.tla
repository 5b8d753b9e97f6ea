----------------------------- MODULE EthereumNode ----------------------------
(***************************************************************************)
(* The Ethereum side of a direct transaction, as the commands see it       *)
(* through viem's PublicClient: an external component.  A transaction is   *)
(* identified with its content, since a hash is: two transactions of one   *)
(* sender, chain, nonce, fee and call have the same hash.                  *)
(*                                                                         *)
(* The RPC node keeps a pool with one transaction per nonce.  A block may  *)
(* nevertheless contain any transaction that was ever broadcast: other     *)
(* nodes may not have seen a replacement.  There are no reorganisations.   *)
(***************************************************************************)
EXTENDS FeePolicy, Sequences

CONSTANTS Senders,       \* Ethereum accounts of the wallet
          Chains,        \* chain ids the networks resolve to
          Calls,         \* (mirror, claimedId) pairs: what a claim calls
          MaxForeign     \* bound: transactions sent with the account by other tools

ASSUME NodeAssumption == MaxForeign \in Nat

VARIABLES sent,    \* every transaction ever broadcast
          pool,    \* those the RPC node still holds
          mined,   \* mined[s][c] : sequence of outcomes, nonce n at position n + 1
          foreign  \* how many transactions of other tools were mined

nodeVars == <<sent, pool, mined, foreign>>

Transactions == [sender : Senders, chain : Chains, nonce : Nat, fee : Fees, call : Calls]
\* by is {} when another tool's transaction used the nonce
Outcomes == [by : SUBSET Transactions, status : {"confirmed", "reverted"}]

SameSlot(t, u) == t.sender = u.sender /\ t.chain = u.chain /\ t.nonce = u.nonce

NodeTypeOK == /\ sent \subseteq Transactions
              /\ pool \subseteq sent
              /\ mined \in [Senders -> [Chains -> Seq(Outcomes)]]
              /\ foreign \in 0..MaxForeign

MinedCount(s, c) == Len(mined[s][c])
Consumed(t) == t.nonce < MinedCount(t.sender, t.chain)
OutcomeAt(t) == mined[t.sender][t.chain][t.nonce + 1]
IsMined(t) == Consumed(t) /\ t \in OutcomeAt(t).by

\* getTransactionCount at blockTag pending: the first nonce neither mined nor pooled
PendingNonces(s, c) ==
  LET used == {t.nonce : t \in {u \in pool : u.sender = s /\ u.chain = c}}
      free == {n \in {MinedCount(s, c)} \cup {m + 1 : m \in used} :
                 n >= MinedCount(s, c) /\ n \notin used}
  IN  {n \in free : \A m \in free : n <= m}

\* The node's admission rule for eth_sendRawTransaction.
Accepts(t) == /\ ~Consumed(t)
              /\ t.fee.prio <= t.fee.max
              /\ \A u \in pool : SameSlot(t, u) => PriceBumped(t.fee, u.fee)

Broadcast(t) == /\ Accepts(t)
                /\ sent' = sent \cup {t}
                /\ pool' = {u \in pool : ~SameSlot(t, u)} \cup {t}
                /\ UNCHANGED <<mined, foreign>>

\* waitForTransactionReceipt resolves with the receipt of whatever transaction
\* used the awaited one's nonce: viem follows replacements unless told not to.
AwaitedReceipts(t) == IF Consumed(t) THEN {OutcomeAt(t)} ELSE {}

\* getTransactionReceipt on chain c finds the hash itself or nothing.
ReceiptsOn(c, t) == IF t.chain = c /\ IsMined(t) THEN {OutcomeAt(t)} ELSE {}
-----------------------------------------------------------------------------
TakeNonce(s, c, o) ==
  /\ mined' = [mined EXCEPT ![s][c] = Append(@, o)]
  /\ pool' = {u \in pool : ~(u.sender = s /\ u.chain = c /\ u.nonce = MinedCount(s, c))}
  /\ UNCHANGED sent

Mine == \E t \in sent, status \in {"confirmed", "reverted"} :
          /\ t.nonce = MinedCount(t.sender, t.chain)
          /\ TakeNonce(t.sender, t.chain, [by |-> {t}, status |-> status])
          /\ UNCHANGED foreign

MineForeign == \E s \in Senders, c \in Chains :
                 /\ foreign < MaxForeign
                 /\ foreign' = foreign + 1
                 /\ TakeNonce(s, c, [by |-> {}, status |-> "confirmed"])

Evict == \E t \in pool : pool' = pool \ {t} /\ UNCHANGED <<sent, mined, foreign>>

NodeNext == Mine \/ MineForeign \/ Evict
=============================================================================
