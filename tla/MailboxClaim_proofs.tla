------------------------- MODULE MailboxClaim_proofs -------------------------
(***************************************************************************)
(* Proofs that `vara-eth:mailbox claim` keeps its journal truthful, for    *)
(* any number of processes, accounts, chains, claims, fee options and      *)
(* quotes.  First what the fee arithmetic of a replacement guarantees for  *)
(* every previous fee, every pair of overrides and every answer of the RPC *)
(* node, then the invariants of the journal.                               *)
(***************************************************************************)
EXTENDS MailboxClaim, TLAPS
-----------------------------------------------------------------------------
(* The fees                                                                *)

\* The largest of a set of numbers that has one.
LEMMA MaxIsLargest ==
  ASSUME NEW S \in SUBSET Nat, NEW m \in S, \A x \in S : x <= m
  PROVE  Max(S) = m
<1>1. \A x \in S : (\A y \in S : x >= y) => x = m
  OBVIOUS
<1> QED
  BY <1>1 DEF Max

\* A value the code may leave undefined is missing or is one number.
LEMMA OptionalCases ==
  ASSUME NEW X \in Optional(Nat)
  PROVE  X = {} \/ \E x \in Nat : X = {x}
<1>1. CASE X # {}
  <2>1. PICK x \in X : TRUE
    BY <1>1
  <2>2. X = {x} /\ x \in Nat
    BY <2>1 DEF Optional
  <2> QED
    BY <2>2
<1> QED
  BY <1>1

HasLargest(S) == \E m \in S : \A x \in S : x <= m

\* One number more does not take the largest away.
LEMMA LargestOfUnion ==
  ASSUME NEW S \in SUBSET Nat, S = {} \/ HasLargest(S),
         NEW X \in Optional(Nat), S \cup X # {}
  PROVE  S \cup X \in SUBSET Nat /\ HasLargest(S \cup X)
<1>1. S \cup X \in SUBSET Nat
  BY DEF Optional
<1>2. CASE X = {}
  BY <1>2
<1>3. ASSUME NEW x \in Nat, X = {x} PROVE HasLargest(S \cup X)
  <2>1. CASE S = {}
    BY <1>3, <2>1 DEF HasLargest
  <2>2. CASE S # {}
    <3>1. PICK m \in S : \A y \in S : y <= m
      BY <2>2 DEF HasLargest
    <3>2. CASE x <= m
      BY <1>3, <3>1, <3>2 DEF HasLargest
    <3>3. CASE m <= x
      <4>1. \A y \in S : y <= x
        BY <1>3, <3>1, <3>3
      <4> QED
        BY <1>3, <4>1 DEF HasLargest
    <3> QED
      BY <1>3, <3>1, <3>2, <3>3
  <2> QED
    BY <2>1, <2>2
<1> QED
  BY <1>1, <1>2, <1>3, OptionalCases

\* `maximum(a, b, c)` of three optional values, not all missing, is one of
\* them and none is larger.
LEMMA MaxOfOptionals ==
  ASSUME NEW A \in Optional(Nat), NEW B \in Optional(Nat), NEW C \in Optional(Nat),
         A \cup B \cup C # {}
  PROVE  LET m == Max(A \cup B \cup C)
         IN  m \in A \cup B \cup C /\ m \in Nat /\ \A x \in A \cup B \cup C : x <= m
<1>1. A \in SUBSET Nat /\ (A = {} \/ HasLargest(A))
  BY OptionalCases DEF HasLargest
<1>2. A \cup B \in SUBSET Nat /\ (A \cup B = {} \/ HasLargest(A \cup B))
  BY <1>1, LargestOfUnion
<1>3. A \cup B \cup C \in SUBSET Nat /\ HasLargest(A \cup B \cup C)
  BY <1>2, LargestOfUnion
<1> DEFINE S == A \cup B \cup C
<1>4. PICK m \in S : \A x \in S : x <= m
  BY <1>3 DEF HasLargest
<1>5. Max(S) = m
  BY <1>3, <1>4, MaxIsLargest
<1> QED
  BY <1>3, <1>4, <1>5

\* The bump of any fee is at least the fee, more than it unless the fee is
\* zero, and always enough for a node that asks for a tenth more.
THEOREM BumpGrows ==
  ASSUME NEW v \in Nat
  PROVE  /\ Bump(v) \in Nat
         /\ Exceeds(Bump(v), v)
         /\ 10 * Bump(v) >= 11 * v
<1>1. 1000 * Bump(v) >= 1125 * v /\ Bump(v) \in Nat
  BY DEF Bump
<1> QED
  BY <1>1 DEF Exceeds
-----------------------------------------------------------------------------
\* The optional values a previous fee contributes.
LEMMA PreviousFee ==
  ASSUME NEW old \in Fees
  PROVE  /\ old.max \in Nat /\ old.prio \in Nat
         /\ old.mode = "eip1559" => /\ CapOf({old}) = {old.max}
                                    /\ TipOf({old}) = {old.prio}
                                    /\ PriceOf({old}) = {}
         /\ old.mode = "legacy" => /\ CapOf({old}) = {}
                                   /\ TipOf({old}) = {}
                                   /\ PriceOf({old}) = {old.max}
         /\ old.mode \in {"eip1559", "legacy"}
  BY DEF Fees, FeeModes, CapOf, TipOf, PriceOf

\* Raising a fee further keeps it above what it had to exceed.
LEMMA ExceedsUpwards ==
  ASSUME NEW a \in Nat, NEW b \in Nat, NEW c \in Nat, Exceeds(b, a), c >= b
  PROVE  Exceeds(c, a)
  BY DEF Exceeds

\* A maximum over the bumped previous fee is no less than the bump.
LEMMA MaxCoversBump ==
  ASSUME NEW A \in Optional(Nat), NEW B \in Optional(Nat), NEW v \in Nat
  PROVE  LET m == Max(A \cup B \cup replacementBump({v}))
         IN  m \in Nat /\ m >= Bump(v)
<1>1. replacementBump({v}) = {Bump(v)}
  BY DEF replacementBump
<1>2. Bump(v) \in Nat
  BY BumpGrows
<1>3. {Bump(v)} \in Optional(Nat)
  BY <1>2 DEF Optional
<1> DEFINE m == Max(A \cup B \cup {Bump(v)})
<1>4. m \in Nat /\ Bump(v) <= m
  BY <1>3, MaxOfOptionals
<1> QED
  BY <1>1, <1>2, <1>4

LEMMA HeadroomOptional ==
  ASSUME NEW X \in Optional(Nat)
  PROVE  feeHeadroom(X) \in Optional(Nat)
<1>1. CASE X = {}
  BY <1>1 DEF feeHeadroom, Optional
<1>2. ASSUME NEW x \in Nat, X = {x} PROVE feeHeadroom(X) \in Optional(Nat)
  <2>1. Headroom(x) \in Nat
    BY DEF Headroom
  <2>2. feeHeadroom(X) = {Headroom(x)}
    BY <1>2 DEF feeHeadroom
  <2> QED
    BY <2>1, <2>2 DEF Optional
<1> QED
  BY <1>1, <1>2, OptionalCases

\* What the fee functions return is a fee or nothing.
LEMMA AcceptedFee ==
  ASSUME NEW f
  PROVE  Accepted(f).fee = {f} /\ \A code : Refused(code).fee = {}
  BY DEF Accepted, Refused

\* Unless both overrides are given, both caps cover the bumped previous ones.
LEMMA QuotedFeeCoversBump ==
  ASSUME NEW explicit \in FeeOverrides, NEW old \in Fees, NEW quote \in FeeQuotes,
         NEW f \in applyClaimFees(explicit, {old}, quote).fee,
         explicit.max = {} \/ explicit.prio = {}
  PROVE  /\ f \in Fees /\ f.mode = old.mode
         /\ f.max >= Bump(old.max) /\ f.prio >= Bump(old.prio)
<1>0. /\ explicit.max \in Optional(Nat) /\ explicit.prio \in Optional(Nat)
      /\ quote.max \in Optional(Nat) /\ quote.prio \in Optional(Nat) /\ quote.price \in Nat
      /\ old.max \in Nat /\ old.prio \in Nat
  BY DEF FeeOverrides, FeeQuotes, Fees
<1>1. CASE old.mode = "legacy"
  <2> DEFINE price == Max({quote.price} \cup replacementBump({old.max}))
  <2>1. f = Legacy(price)
    <3>1. PriceOf({old}) = {old.max}
      BY <1>1, PreviousFee
    <3>2. \/ applyClaimFees(explicit, {old}, quote) = Accepted(Legacy(price))
          \/ applyClaimFees(explicit, {old}, quote) = Refused("CLAIM_REPLACEMENT_FEE_MODE_MISMATCH")
      BY <3>1 DEF applyClaimFees
    <3> QED
      BY <3>2, AcceptedFee
  <2>2. price \in Nat /\ price >= Bump(old.max)
    <3>1. {quote.price} \in Optional(Nat) /\ {} \in Optional(Nat)
      BY <1>0 DEF Optional
    <3>2. {quote.price} \cup {} \cup replacementBump({old.max})
            = {quote.price} \cup replacementBump({old.max})
      OBVIOUS
    <3> QED
      BY <1>0, <3>1, <3>2, MaxCoversBump
  <2>3. old.prio = old.max
    BY <1>1 DEF Fees
  <2> QED
    BY <1>1, <2>1, <2>2, <2>3 DEF Legacy, Fees, FeeModes
<1>2. CASE old.mode = "eip1559"
  <2> DEFINE caps == explicit.max \cup feeHeadroom(quote.max) \cup replacementBump({old.max})
             tips == explicit.prio \cup quote.prio \cup replacementBump({old.prio})
  <2>1. CapOf({old}) = {old.max} /\ TipOf({old}) = {old.prio} /\ PriceOf({old}) = {}
    BY <1>2, PreviousFee
  <2>2. applyClaimFees(explicit, {old}, quote) = quotedFees(explicit, {old}, quote)
    BY <2>1, AcceptedFee DEF applyClaimFees
  <2>3. quotedFees(explicit, {old}, quote) = Accepted(Eip1559(Max(caps), Max(tips)))
    <3>1. caps # {} /\ tips # {}
      BY DEF replacementBump
    <3> QED
      BY <2>1, <3>1 DEF quotedFees
  <2>4. f = Eip1559(Max(caps), Max(tips))
    BY <2>2, <2>3, AcceptedFee
  <2>5. Max(caps) \in Nat /\ Max(caps) >= Bump(old.max)
    BY <1>0, HeadroomOptional, MaxCoversBump
  <2>6. Max(tips) \in Nat /\ Max(tips) >= Bump(old.prio)
    BY <1>0, MaxCoversBump
  <2> QED
    BY <1>2, <2>4, <2>5, <2>6 DEF Eip1559, Fees, FeeModes
<1> QED
  BY <1>1, <1>2, PreviousFee

\* Whatever the user overrides and the node quotes, a replacement keeps the fee
\* mode of the claim it replaces and pays more than it (a zero cap may stay
\* zero): applyClaimFees never prepares a replacement no node could prefer.
THEOREM ReplacementFeeOutbids ==
  ASSUME NEW explicit \in FeeOverrides, NEW old \in Fees, NEW quote \in FeeQuotes,
         NEW f \in applyClaimFees(explicit, {old}, quote).fee
  PROVE  f \in Fees /\ Outbids(f, old)
<1>0. /\ explicit.max \in Optional(Nat) /\ explicit.prio \in Optional(Nat)
      /\ old.max \in Nat /\ old.prio \in Nat
  BY DEF FeeOverrides, Fees
<1>1. CASE explicit.max = {} \/ explicit.prio = {}
  <2>1. /\ f \in Fees /\ f.mode = old.mode
        /\ f.max >= Bump(old.max) /\ f.prio >= Bump(old.prio)
    BY <1>1, QuotedFeeCoversBump
  <2>2. f.max \in Nat /\ f.prio \in Nat
    BY <2>1 DEF Fees
  <2> QED
    BY <1>0, <2>1, <2>2, BumpGrows, ExceedsUpwards DEF Outbids
<1>2. CASE explicit.max # {} /\ explicit.prio # {}
  <2>1. old.mode = "eip1559"
    <3>1. PriceOf({old}) = {}
      BY <1>2, AcceptedFee DEF applyClaimFees
    <3> QED
      BY <3>1, PreviousFee
  <2>2. CapOf({old}) = {old.max} /\ TipOf({old}) = {old.prio} /\ PriceOf({old}) = {}
    BY <2>1, PreviousFee
  <2>3. ~TooLow(explicit.max, {old.max}) /\ ~TooLow(explicit.prio, {old.prio})
    BY <2>2, AcceptedFee DEF applyClaimFees
  <2>4. f = Eip1559(Max(explicit.max), Max(explicit.prio))
    BY <1>2, <2>2, <2>3, AcceptedFee DEF applyClaimFees
  <2>5. ASSUME NEW X \in Optional(Nat), NEW v \in Nat, X # {}, ~TooLow(X, {v})
        PROVE  Max(X) \in Nat /\ Exceeds(Max(X), v)
    <3>1. PICK x \in Nat : X = {x}
      BY <2>5, OptionalCases
    <3>2. Max(X) = x
      BY <3>1, MaxIsLargest
    <3> QED
      BY <2>5, <3>1, <3>2 DEF TooLow, Exceeds
  <2>6. /\ Max(explicit.max) \in Nat /\ Exceeds(Max(explicit.max), old.max)
        /\ Max(explicit.prio) \in Nat /\ Exceeds(Max(explicit.prio), old.prio)
    BY <1>0, <1>2, <2>3, <2>5
  <2> QED
    BY <2>1, <2>4, <2>6 DEF Eip1559, Fees, FeeModes, Outbids
<1> QED
  BY <1>1, <1>2

\* A replacement without overrides of a claim that paid a tip is raised by a
\* tenth in both caps, what a node asks of a replacement.
THEOREM ReplacementFeeClearsNode ==
  ASSUME NEW explicit \in FeeOverrides, NEW old \in Fees, NEW quote \in FeeQuotes,
         NEW f \in applyClaimFees(explicit, {old}, quote).fee,
         explicit = [max |-> {}, prio |-> {}], 0 < old.prio, old.prio <= old.max
  PROVE  PriceBumped(f, old)
<1>1. /\ f \in Fees /\ f.max >= Bump(old.max) /\ f.prio >= Bump(old.prio)
  BY QuotedFeeCoversBump
<1>2. ASSUME NEW v \in Nat, NEW w \in Nat, v > 0, w >= Bump(v)
      PROVE  w > v /\ 10 * w >= 11 * v
  BY <1>2, BumpGrows DEF Exceeds
<1>3. /\ old.max \in Nat /\ old.prio \in Nat /\ old.max > 0
      /\ f.max \in Nat /\ f.prio \in Nat
  BY <1>1 DEF Fees
<1> QED
  BY <1>1, <1>2, <1>3 DEF PriceBumped

\* What is accepted for a first submission is a fee.
LEMMA FirstFeeType ==
  ASSUME NEW explicit \in FeeOverrides, NEW quote \in FeeQuotes,
         NEW f \in applyClaimFees(explicit, {}, quote).fee
  PROVE  f \in Fees
<1>0. /\ explicit.max \in Optional(Nat) /\ explicit.prio \in Optional(Nat)
      /\ quote.max \in Optional(Nat) /\ quote.prio \in Optional(Nat) /\ quote.price \in Nat
      /\ feeHeadroom(quote.max) \in Optional(Nat) /\ {} \in Optional(Nat)
  BY HeadroomOptional DEF FeeOverrides, FeeQuotes, Optional
<1>1. CapOf({}) = {} /\ TipOf({}) = {} /\ PriceOf({}) = {}
  BY DEF CapOf, TipOf, PriceOf
<1>2. ASSUME NEW A \in Optional(Nat), NEW B \in Optional(Nat), A \cup B # {}
      PROVE  Max(A \cup B) \in Nat
  <2>1. A \cup B = A \cup B \cup {}
    OBVIOUS
  <2> QED
    BY <1>0, <1>2, <2>1, MaxOfOptionals
<1>3. CASE explicit.max # {} /\ explicit.prio # {}
  <2>1. f = Eip1559(Max(explicit.max), Max(explicit.prio))
    BY <1>1, <1>3, AcceptedFee DEF applyClaimFees, TooLow
  <2>2. explicit.max \cup {} = explicit.max /\ explicit.prio \cup {} = explicit.prio
    OBVIOUS
  <2>3. Max(explicit.max) \in Nat /\ Max(explicit.prio) \in Nat
    BY <1>0, <1>2, <1>3, <2>2
  <2> QED
    BY <2>1, <2>3 DEF Eip1559, Fees, FeeModes
<1>4. CASE ~(explicit.max # {} /\ explicit.prio # {})
  <2> DEFINE caps == explicit.max \cup feeHeadroom(quote.max)
             tips == explicit.prio \cup quote.prio
  <2>1. applyClaimFees(explicit, {}, quote) = quotedFees(explicit, {}, quote)
    BY <1>1, <1>4 DEF applyClaimFees, TooLow
  <2>2. /\ explicit.max \cup feeHeadroom(quote.max) \cup replacementBump(CapOf({})) = caps
        /\ explicit.prio \cup quote.prio \cup replacementBump(TipOf({})) = tips
    BY <1>1 DEF replacementBump
  <2>3. CASE caps # {} /\ tips # {}
    <3>1. f = Eip1559(Max(caps), Max(tips))
      <4>1. quotedFees(explicit, {}, quote) = Accepted(Eip1559(Max(caps), Max(tips)))
        BY <2>2, <2>3 DEF quotedFees
      <4> QED
        BY <2>1, <4>1, AcceptedFee
    <3>2. Max(caps) \in Nat /\ Max(tips) \in Nat
      BY <1>0, <1>2, <2>3
    <3> QED
      BY <3>1, <3>2 DEF Eip1559, Fees, FeeModes
  <2>4. CASE ~(caps # {} /\ tips # {})
    <3>1. f = Legacy(quote.price)
      BY <2>1, <2>2, <2>4, AcceptedFee DEF quotedFees
    <3> QED
      BY <1>0, <3>1 DEF Legacy, Fees, FeeModes
  <2> QED
    BY <2>3, <2>4
<1> QED
  BY <1>3, <1>4

\* applyClaimFees returns one fee, or a reason and none.
LEMMA FeeAnswerType ==
  ASSUME NEW explicit \in FeeOverrides, NEW previous \in Optional(Fees), NEW quote \in FeeQuotes
  PROVE  LET answer == applyClaimFees(explicit, previous, quote)
         IN  /\ answer.fee \in Optional(Fees)
             /\ answer.code \in {"ok", "CLAIM_REPLACEMENT_FEE_MODE_MISMATCH",
                                 "REPLACEMENT_FEE_TOO_LOW", "FEE_ESTIMATE_UNAVAILABLE"}
<1> DEFINE answer == applyClaimFees(explicit, previous, quote)
<1>1. \/ \E f : answer = Accepted(f)
      \/ answer = Refused("CLAIM_REPLACEMENT_FEE_MODE_MISMATCH")
      \/ answer = Refused("REPLACEMENT_FEE_TOO_LOW")
      \/ answer = Refused("FEE_ESTIMATE_UNAVAILABLE")
  BY DEF applyClaimFees, quotedFees
<1>2. \A f \in answer.fee : f \in Fees
  <2>1. CASE previous = {}
    BY <2>1, FirstFeeType
  <2>2. CASE previous # {}
    <3>1. PICK old \in previous : TRUE
      BY <2>2
    <3>2. previous = {old} /\ old \in Fees
      BY <3>1 DEF Optional
    <3> QED
      BY <3>2, ReplacementFeeOutbids
  <2> QED
    BY <2>1, <2>2
<1> QED
  BY <1>1, <1>2 DEF Accepted, Refused, Optional
-----------------------------------------------------------------------------
(* The journal                                                             *)

\* The claims a process holds were broadcast, and it holds at most one of each
\* kind.
Held == \A p \in Invocations : /\ inv[p].over \in Optional(sent)
                               /\ inv[p].tx \in Optional(sent)

TypeInv == TypeOK /\ Held

\* A process at work on a replacement works on the replaced claim's slot, and
\* what it prepared or broadcast outbids that claim.
Agrees(job, t) == /\ t.sender = job.sender /\ t.chain = job.chain
                  /\ t.nonce = job.nonce /\ t.call = job.call

JobOK(job) ==
  /\ \A g \in job.over : g.call = job.call
  /\ job.step \in {"send", "insert", "link"} => \A g \in job.over : Agrees(job, g)
  /\ job.step \in {"insert", "link", "wait"} => \A t \in job.tx : Agrees(job, t)
  /\ job.step = "send" =>
       \A g \in job.over, f \in job.fee : \E q \in Quotes :
         f \in applyClaimFees(job.req.fees, {g.fee}, q).fee
  /\ job.step \in {"insert", "link"} =>
       \A g \in job.over, t \in job.tx : Outbids(t.fee, g.fee)

JobInv == \A p \in Invocations : JobOK(inv[p])

\* Blocks hold at most one transaction per slot, and no node accepts a tip
\* above the fee cap.
ChainInv ==
  /\ \A s \in Senders, c \in Chains : \A i \in DOMAIN mined[s][c] :
       \A t \in mined[s][c][i].by :
         /\ t.sender = s /\ t.chain = c /\ t.nonce + 1 = i
         /\ mined[s][c][i].by = {t}
  /\ \A t \in sent : t.fee.prio <= t.fee.max

\* Links are written only by Insert, towards the claim being replaced, and by
\* Link, towards its replacement.
LinksOK == LinkedSameClaim /\ ReplacementOutbids

IInv == TypeInv /\ JobInv /\ ChainInv /\ LinksOK /\ SettledTruth
-----------------------------------------------------------------------------
(* Types                                                                   *)

LEMMA IdleType == Idle \in Invocation /\ Idle.over = {} /\ Idle.tx = {}
<1>1. /\ Idle.sender \in Senders /\ Idle.chain \in Chains
      /\ Idle.call \in Calls /\ Idle.req \in RequestSet
  BY ClaimAssumption DEF Idle
<1> QED
  BY <1>1 DEF Idle, Invocation, Steps, Results, Optional

\* The pending nonce is a number.
LEMMA NonceType ==
  ASSUME TypeInv, NEW p \in Invocations, NEW n \in NonceChoices(inv[p])
  PROVE  n \in Nat
<1>1. inv[p] \in Invocation /\ inv[p].over \subseteq Transactions
  BY DEF TypeInv, TypeOK, Invocation
<1>2. CASE n \in {h.nonce : h \in inv[p].over}
  BY <1>1, <1>2 DEF Transactions
<1>3. CASE n \in inv[p].req.nonce
  BY <1>1, <1>3 DEF Invocation, RequestSet, Optional
<1>4. CASE n \in PendingNonces(inv[p].sender, inv[p].chain)
  <2> DEFINE s == inv[p].sender  c == inv[p].chain
  <2>1. s \in Senders /\ c \in Chains
    BY <1>1 DEF Invocation
  <2>2. MinedCount(s, c) \in Nat
    BY <2>1 DEF TypeInv, TypeOK, NodeTypeOK, MinedCount
  <2>3. \A u \in pool : u.nonce \in Nat
    BY DEF TypeInv, TypeOK, NodeTypeOK, Transactions
  <2> QED
    BY <1>4, <2>2, <2>3 DEF PendingNonces
<1> QED
  BY <1>2, <1>3, <1>4 DEF NonceChoices

\* A job of the right type: what Become needs.
LEMMA BecomeType ==
  ASSUME inv \in [Invocations -> Invocation], NEW p \in Invocations,
         NEW job \in Invocation, Become(p, job)
  PROVE  inv' \in [Invocations -> Invocation]
  BY DEF Become

\* Which rows a step writes: nothing, or one row, named by what the process
\* holds and by what the node says.
LEMMA JournalStep ==
  ASSUME TypeInv, [Next]_vars
  PROVE  \/ rows' = rows
         \/ /\ UNCHANGED nodeVars
            /\ \E p \in Invocations :
                 \/ \E h \in inv[p].tx : /\ inv[p].step = "insert"
                                         /\ rows' = Inserted(h, inv[p].over)
                 \/ \E g \in inv[p].over, h \in inv[p].tx :
                      inv[p].step = "link" /\ rows' = ReplacedMarked(g, h)
                 \/ \E h \in inv[p].tx :
                      Consumed(h) /\ rows' = ReceiptMarked(h, OutcomeAt(h).status)
                 \/ \E h \in inv[p].tx, reason \in FailureReasons :
                      rows' = FailedMarked(h, reason)
<1>1. CASE NodeNext /\ UNCHANGED <<storeVars, inv>>
  BY <1>1 DEF storeVars
<1>2. ASSUME NEW p \in Invocations, Claim(p) \/ Replace(p) \/ Resume(p) \/ RpcFails(p)
      PROVE  rows' = rows
  BY <1>2 DEF Claim, Replace, Resume, RpcFails, storeVars
<1>3. ASSUME NEW p \in Invocations,
             Prepare(p) \/ Send(p) \/ SendRefused(p) \/ SendUnanswered(p) \/ WaitTimedOut(p)
      PROVE  rows' = rows
  BY <1>3 DEF Prepare, Send, SendRefused, SendUnanswered, WaitTimedOut, storeVars
<1>4. ASSUME NEW p \in Invocations, Insert(p)
      PROVE  \/ rows' = rows
             \/ /\ UNCHANGED nodeVars
                /\ \E h \in inv[p].tx : inv[p].step = "insert" /\ rows' = Inserted(h, inv[p].over)
  BY <1>4 DEF Insert, Write, At
<1>5. ASSUME NEW p \in Invocations, Link(p)
      PROVE  \/ rows' = rows
             \/ /\ UNCHANGED nodeVars
                /\ \E g \in inv[p].over, h \in inv[p].tx :
                     inv[p].step = "link" /\ rows' = ReplacedMarked(g, h)
  BY <1>5 DEF Link, Write, At
<1>6. ASSUME NEW p \in Invocations, WaitAnswered(p)
      PROVE  \/ rows' = rows
             \/ /\ UNCHANGED nodeVars
                /\ \E h \in inv[p].tx :
                     Consumed(h) /\ rows' = ReceiptMarked(h, OutcomeAt(h).status)
  BY <1>6 DEF WaitAnswered, Write, AwaitedReceipts
<1>7. ASSUME NEW p \in Invocations, ResumeReceipt(p)
      PROVE  \/ rows' = rows
             \/ /\ UNCHANGED nodeVars
                /\ \E h \in inv[p].tx :
                     Consumed(h) /\ rows' = ReceiptMarked(h, OutcomeAt(h).status)
  BY <1>7 DEF ResumeReceipt, Write, ReceiptsOn, IsMined, storeVars
<1>8. ASSUME NEW p \in Invocations, WaitFailed(p) \/ ResumeCount(p)
      PROVE  \/ rows' = rows
             \/ /\ UNCHANGED nodeVars
                /\ \E h \in inv[p].tx, reason \in FailureReasons : rows' = FailedMarked(h, reason)
  BY <1>8 DEF WaitFailed, ResumeCount, Write, FailureReasons, storeVars
<1>9. CASE UNCHANGED vars
  BY <1>9 DEF vars, storeVars
<1> QED
  BY <1>1, <1>2, <1>3, <1>4, <1>5, <1>6, <1>7, <1>8, <1>9 DEF Next, Progress, Failure

\* How the chain moves: nothing, one broadcast, or the next nonce of one
\* account used by one broadcast transaction or by none.
LEMMA ChainStep ==
  ASSUME TypeInv, [Next]_vars
  PROVE  \/ mined' = mined /\ sent' = sent /\ pool' \subseteq pool
         \/ /\ mined' = mined
            /\ \E p \in Invocations : \E f \in inv[p].fee :
                 /\ inv[p].step = "send"
                 /\ Broadcast(Signed(inv[p], f))
         \/ \E s \in Senders, c \in Chains, o \in Outcomes :
              /\ TakeNonce(s, c, o)
              /\ \/ o.by = {}
                 \/ \E t \in sent : /\ o.by = {t} /\ t.sender = s /\ t.chain = c
                                    /\ t.nonce = MinedCount(s, c)
<1>1. ASSUME Mine
      PROVE  \E s \in Senders, c \in Chains, o \in Outcomes : \E t \in sent :
               /\ TakeNonce(s, c, o) /\ o.by = {t} /\ t.sender = s /\ t.chain = c
               /\ t.nonce = MinedCount(s, c)
  <2>1. PICK t \in sent, status \in {"confirmed", "reverted"} :
          /\ t.nonce = MinedCount(t.sender, t.chain)
          /\ TakeNonce(t.sender, t.chain, [by |-> {t}, status |-> status])
    BY <1>1 DEF Mine
  <2>2. t \in Transactions
    BY DEF TypeInv, TypeOK, NodeTypeOK
  <2>3. /\ t.sender \in Senders /\ t.chain \in Chains
        /\ [by |-> {t}, status |-> status] \in Outcomes
    BY <2>2 DEF Transactions, Outcomes
  <2> QED
    BY <2>1, <2>3
<1>2. ASSUME MineForeign
      PROVE  \E s \in Senders, c \in Chains, o \in Outcomes : TakeNonce(s, c, o) /\ o.by = {}
  <2>1. [by |-> {}, status |-> "confirmed"] \in Outcomes
    BY DEF Outcomes
  <2> QED
    BY <1>2, <2>1 DEF MineForeign
<1>3. ASSUME Evict PROVE mined' = mined /\ sent' = sent /\ pool' \subseteq pool
  BY <1>3 DEF Evict
<1>4. ASSUME NEW p \in Invocations, Send(p) \/ SendUnanswered(p)
      PROVE  /\ mined' = mined
             /\ \E f \in inv[p].fee : inv[p].step = "send" /\ Broadcast(Signed(inv[p], f))
  BY <1>4 DEF Send, SendUnanswered, Broadcast, At
<1>5. ASSUME NEW p \in Invocations,
             \/ Claim(p) \/ Replace(p) \/ Resume(p) \/ RpcFails(p)
             \/ Prepare(p) \/ SendRefused(p) \/ WaitTimedOut(p)
      PROVE  UNCHANGED nodeVars
  BY <1>5 DEF Claim, Replace, Resume, RpcFails, Prepare, SendRefused, WaitTimedOut
<1>6. ASSUME NEW p \in Invocations,
             \/ Insert(p) \/ Link(p) \/ WaitAnswered(p) \/ WaitFailed(p)
             \/ ResumeReceipt(p) \/ ResumeCount(p)
      PROVE  UNCHANGED nodeVars
  BY <1>6 DEF Insert, Link, WaitAnswered, WaitFailed, ResumeReceipt, ResumeCount
<1>7. UNCHANGED nodeVars => mined' = mined /\ sent' = sent /\ pool' \subseteq pool
  BY DEF nodeVars
<1> QED
  BY <1>1, <1>2, <1>3, <1>4, <1>5, <1>6, <1>7 DEF Next, NodeNext, Progress, Failure, vars

\* Both counters stay within their bounds.
LEMMA CounterStep ==
  ASSUME TypeInv, [Next]_vars
  PROVE  foreign' \in 0..MaxForeign /\ lost' \in 0..MaxLost
<1>0. foreign \in 0..MaxForeign /\ lost \in 0..MaxLost /\ MaxForeign \in Nat /\ MaxLost \in Nat
  BY NodeAssumption, StoreAssumption DEF TypeInv, TypeOK, NodeTypeOK
<1>1. \/ foreign' = foreign
      \/ foreign < MaxForeign /\ foreign' = foreign + 1
  <2>1. NodeNext => \/ foreign' = foreign
                    \/ foreign < MaxForeign /\ foreign' = foreign + 1
    BY DEF NodeNext, Mine, MineForeign, Evict
  <2>2. \A p \in Invocations : Progress(p) \/ Failure(p) => foreign' = foreign
    BY DEF Progress, Failure, Prepare, Send, SendRefused, SendUnanswered, Broadcast, Insert,
           Link, WaitAnswered, WaitTimedOut, WaitFailed, ResumeReceipt, ResumeCount,
           RpcFails, nodeVars
  <2>3. \A p \in Invocations : Claim(p) \/ Replace(p) \/ Resume(p) => foreign' = foreign
    BY DEF Claim, Replace, Resume, nodeVars
  <2> QED
    BY <2>1, <2>2, <2>3 DEF Next, vars, nodeVars
<1>2. \/ lost' = lost
      \/ lost < MaxLost /\ lost' = lost + 1
  <2> DEFINE Lost == \/ lost' = lost
                     \/ lost < MaxLost /\ lost' = lost + 1
  <2>1. ASSUME NEW new, Write(new) PROVE Lost
    BY <2>1 DEF Write
  <2>2. ASSUME UNCHANGED storeVars PROVE Lost
    BY <2>2 DEF storeVars
  <2>3. ASSUME NEW p \in Invocations, Insert(p) \/ Link(p) \/ WaitAnswered(p) \/ WaitFailed(p)
        PROVE  Lost
    BY <2>1, <2>3 DEF Insert, Link, WaitAnswered, WaitFailed
  <2>4. ASSUME NEW p \in Invocations, ResumeReceipt(p) \/ ResumeCount(p) PROVE Lost
    BY <2>1, <2>2, <2>4 DEF ResumeReceipt, ResumeCount
  <2>5. ASSUME NEW p \in Invocations,
               \/ Claim(p) \/ Replace(p) \/ Resume(p) \/ RpcFails(p) \/ Prepare(p) \/ Send(p)
               \/ SendRefused(p) \/ SendUnanswered(p) \/ WaitTimedOut(p)
        PROVE  Lost
    <3>1. UNCHANGED storeVars
      BY <2>5 DEF Claim, Replace, Resume, RpcFails, Prepare, Send, SendRefused, SendUnanswered,
                  WaitTimedOut
    <3> QED
      BY <2>2, <3>1
  <2>6. ASSUME NEW p \in Invocations, Progress(p) \/ Failure(p) PROVE Lost
    BY <2>3, <2>4, <2>5, <2>6 DEF Progress, Failure
  <2> QED
    BY <2>2, <2>5, <2>6 DEF Next, vars
<1> QED
  BY <1>0, <1>1, <1>2

\* What a process signs is a transaction.
LEMMA SignedType ==
  ASSUME TypeInv, NEW p \in Invocations, NEW f \in inv[p].fee
  PROVE  Signed(inv[p], f) \in Transactions
<1>1. inv[p] \in Invocation
  BY DEF TypeInv, TypeOK
<1>2. /\ inv[p].sender \in Senders /\ inv[p].chain \in Chains
      /\ inv[p].nonce \in Nat /\ inv[p].call \in Calls /\ f \in Fees
  BY <1>1 DEF Invocation, Optional
<1> QED
  BY <1>2 DEF Signed, Transactions

\* The node's state keeps its type and forgets no transaction.
LEMMA NodeType ==
  ASSUME TypeInv, [Next]_vars
  PROVE  NodeTypeOK' /\ sent \subseteq sent'
<1>0. NodeTypeOK
  BY DEF TypeInv, TypeOK
<1>1. foreign' \in 0..MaxForeign
  BY CounterStep
<1>2. CASE mined' = mined /\ sent' = sent /\ pool' \subseteq pool
  BY <1>0, <1>1, <1>2 DEF NodeTypeOK
<1>3. CASE /\ mined' = mined
           /\ \E p \in Invocations : \E f \in inv[p].fee :
                inv[p].step = "send" /\ Broadcast(Signed(inv[p], f))
  BY <1>0, <1>1, <1>3, SignedType DEF NodeTypeOK, Broadcast
<1>4. ASSUME NEW s \in Senders, NEW c \in Chains, NEW o \in Outcomes, TakeNonce(s, c, o)
      PROVE  NodeTypeOK' /\ sent \subseteq sent'
  <2>1. mined[s][c] \in Seq(Outcomes)
    BY <1>0 DEF NodeTypeOK
  <2>2. Append(mined[s][c], o) \in Seq(Outcomes)
    BY <2>1
  <2>3. mined' \in [Senders -> [Chains -> Seq(Outcomes)]]
    BY <1>0, <1>4, <2>2 DEF NodeTypeOK, TakeNonce
  <2> QED
    BY <1>0, <1>1, <1>4, <2>3 DEF NodeTypeOK, TakeNonce
<1> QED
  BY <1>2, <1>3, <1>4, ChainStep

\* The outcome of a used nonce.
LEMMA OutcomeType ==
  ASSUME TypeInv, NEW h \in sent, Consumed(h)
  PROVE  /\ h \in Transactions
         /\ h.nonce + 1 \in DOMAIN mined[h.sender][h.chain]
         /\ OutcomeAt(h) \in Outcomes
<1>1. h \in Transactions /\ mined \in [Senders -> [Chains -> Seq(Outcomes)]]
  BY DEF TypeInv, TypeOK, NodeTypeOK
<1>2. mined[h.sender][h.chain] \in Seq(Outcomes) /\ h.nonce \in Nat
  BY <1>1 DEF Transactions
<1>3. h.nonce + 1 \in 1..Len(mined[h.sender][h.chain])
  BY <1>2 DEF Consumed, MinedCount
<1> QED
  BY <1>1, <1>2, <1>3 DEF OutcomeAt

\* A row's type only asks for broadcast hashes, so that it never gets lost.
LEMMA RowsType ==
  ASSUME TypeInv, [Next]_vars
  PROVE  DOMAIN rows' \subseteq sent' /\ rows' \in [DOMAIN rows' -> Row(sent')]
<1>0. /\ DOMAIN rows \subseteq sent /\ rows \in [DOMAIN rows -> Row(sent)]
      /\ sent \subseteq sent'
  BY NodeType DEF TypeInv, TypeOK
<1>1. Row(sent) \subseteq Row(sent')
  BY <1>0 DEF Row
<1>2. CASE rows' = rows
  BY <1>0, <1>1, <1>2
<1>3. ASSUME NEW p \in Invocations, NEW h \in inv[p].tx, UNCHANGED nodeVars,
             rows' = Inserted(h, inv[p].over)
      PROVE  DOMAIN rows' \subseteq sent' /\ rows' \in [DOMAIN rows' -> Row(sent')]
  <2>1. sent' = sent /\ h \in sent /\ inv[p].over \subseteq sent
    BY <1>3 DEF nodeVars, TypeInv, Held, Optional
  <2>2. PendingRow(inv[p].over) \in Row(sent)
    BY <2>1 DEF PendingRow, Row, Statuses, FailureReasons
  <2> QED
    BY <1>0, <1>3, <2>1, <2>2 DEF Inserted
<1>4. ASSUME NEW p \in Invocations, NEW g \in inv[p].over, NEW h \in inv[p].tx,
             UNCHANGED nodeVars, rows' = ReplacedMarked(g, h)
      PROVE  DOMAIN rows' \subseteq sent' /\ rows' \in [DOMAIN rows' -> Row(sent')]
  <2>1. sent' = sent /\ h \in sent
    BY <1>4 DEF nodeVars, TypeInv, Held, Optional
  <2>2. \A x \in DOMAIN rows :
          [rows[x] EXCEPT !.status = "replaced", !.replacedBy = {h}] \in Row(sent)
    BY <1>0, <2>1 DEF Row, Statuses
  <2> QED
    BY <1>0, <1>4, <2>1, <2>2 DEF ReplacedMarked
<1>5. ASSUME NEW h \in sent, Consumed(h), UNCHANGED nodeVars,
             rows' = ReceiptMarked(h, OutcomeAt(h).status)
      PROVE  DOMAIN rows' \subseteq sent' /\ rows' \in [DOMAIN rows' -> Row(sent')]
  <2>1. sent' = sent /\ OutcomeAt(h).status \in {"confirmed", "reverted"}
    BY <1>5, OutcomeType DEF nodeVars, Outcomes
  <2>2. \A x \in DOMAIN rows :
          [rows[x] EXCEPT !.status = OutcomeAt(h).status, !.lastError = ""] \in Row(sent)
    BY <1>0, <2>1 DEF Row, Statuses, FailureReasons
  <2> QED
    BY <1>0, <1>5, <2>1, <2>2 DEF ReceiptMarked
<1>6. ASSUME NEW h, NEW reason \in FailureReasons, UNCHANGED nodeVars,
             rows' = FailedMarked(h, reason)
      PROVE  DOMAIN rows' \subseteq sent' /\ rows' \in [DOMAIN rows' -> Row(sent')]
  <2>1. \A x \in DOMAIN rows :
          [rows[x] EXCEPT !.status = "failed", !.lastError = reason] \in Row(sent)
    BY <1>0 DEF Row, Statuses
  <2> QED
    BY <1>0, <1>6, <2>1 DEF FailedMarked, nodeVars
<1>7. \A p \in Invocations : inv[p].tx \subseteq sent
  BY DEF TypeInv, Held, Optional
<1> QED
  BY <1>2, <1>3, <1>4, <1>5, <1>6, <1>7, JournalStep

\* A job a process may be given.
Proper(job, S) == job \in Invocation /\ job.over \in Optional(S) /\ job.tx \in Optional(S)

LEMMA EndType ==
  ASSUME NEW result \in Results, NEW S
  PROVE  Proper([Idle EXCEPT !.step = "done", !.result = result], S)
<1>1. {} \in Optional(S)
  BY DEF Optional
<1> QED
  BY <1>1, IdleType DEF Proper, Invocation, Steps

LEMMA HeldProper ==
  ASSUME TypeInv, NEW p \in Invocations
  PROVE  Proper(inv[p], sent)
  BY DEF TypeInv, TypeOK, Held, Proper

\* Each action hands its process a proper job.
LEMMA StartType ==
  ASSUME TypeInv, NEW p \in Invocations, Claim(p) \/ Replace(p) \/ Resume(p)
  PROVE  \E job : Become(p, job) /\ Proper(job, sent')
<1>0. sent' = sent /\ sent \subseteq Transactions
  <2>1. UNCHANGED nodeVars
    BY DEF Claim, Replace, Resume
  <2> QED
    BY <2>1 DEF nodeVars, TypeInv, TypeOK, NodeTypeOK
<1>1. ASSUME NEW s \in Senders, NEW c \in Chains, NEW k \in Calls, NEW r \in Requests,
             NEW over \in Optional(sent), Start(p, s, c, k, r, over)
      PROVE  \E job : Become(p, job) /\ Proper(job, sent')
  <2> DEFINE job == [Idle EXCEPT !.step = "prepare", !.sender = s, !.chain = c,
                                 !.call = k, !.req = r, !.over = over]
  <2>1. r \in RequestSet /\ over \subseteq Transactions
    BY <1>0, ClaimAssumption DEF Optional
  <2>2. job \in Invocation
    BY <2>1, IdleType DEF Invocation, Steps
  <2>3. job.over = over /\ job.tx = {}
    BY IdleType DEF Invocation
  <2>4. Proper(job, sent')
    BY <1>0, <2>2, <2>3 DEF Proper, Optional
  <2> QED
    BY <1>1, <2>4 DEF Start
<1>2. ASSUME NEW h \in sent, NEW c \in Chains
      PROVE  Proper([Idle EXCEPT !.step = "receipt", !.chain = c, !.tx = {h}], sent')
  BY <1>0, IdleType DEF Proper, Invocation, Steps, Optional
<1>3. {} \in Optional(sent) /\ \A h \in sent : {h} \in Optional(sent)
  BY DEF Optional
<1>4. \A h, k : ReplaceRefusal(h, k) \in Results
  BY DEF ReplaceRefusal, Results, Refusals
<1>5. "CLAIM_RESUME_NOT_FOUND" \in Results
  BY DEF Results, Refusals
<1>6. CASE Claim(p)
  BY <1>1, <1>3, <1>6 DEF Claim
<1>7. CASE Replace(p)
  BY <1>1, <1>3, <1>4, <1>7, EndType DEF Replace, Finish
<1>8. CASE Resume(p)
  BY <1>2, <1>5, <1>8, EndType DEF Resume, Finish
<1> QED
  BY <1>6, <1>7, <1>8

LEMMA PrepareType ==
  ASSUME TypeInv, NEW p \in Invocations, Prepare(p)
  PROVE  \E job : Become(p, job) /\ Proper(job, sent')
<1>0. sent' = sent
  BY DEF Prepare, nodeVars
<1>1. CASE \E h \in inv[p].over : /\ ScopeRefusal(inv[p], h) # ""
                                  /\ Finish(p, ScopeRefusal(inv[p], h))
  <2>1. \A h : ScopeRefusal(inv[p], h) \in Results
    BY DEF ScopeRefusal, Results, Refusals
  <2> QED
    BY <1>1, <2>1, EndType DEF Finish
<1>2. ASSUME NEW n \in NonceChoices(inv[p]), NEW answer \in FeeAnswers(inv[p]),
             IF answer.code = "ok"
               THEN Become(p, [inv[p] EXCEPT !.step = "send", !.nonce = n, !.fee = answer.fee])
               ELSE Finish(p, answer.code)
      PROVE  \E job : Become(p, job) /\ Proper(job, sent')
  <2>1. answer.fee \in Optional(Fees) /\ answer.code \in Results \cup {"ok"}
    <3>1. Proper(inv[p], sent) /\ sent \subseteq Transactions
      BY HeldProper DEF TypeInv, TypeOK, NodeTypeOK
    <3>2. inv[p].req.fees \in FeeOverrides
      BY <3>1 DEF Proper, Invocation, RequestSet
    <3>3. {h.fee : h \in inv[p].over} \in Optional(Fees)
      BY <3>1 DEF Proper, Optional, Transactions
    <3> QED
      <4>1. PICK q \in Quotes :
              answer = applyClaimFees(inv[p].req.fees, {h.fee : h \in inv[p].over}, q)
        BY DEF FeeAnswers
      <4>2. q \in FeeQuotes
        BY ClaimAssumption
      <4> QED
        BY <3>2, <3>3, <4>1, <4>2, FeeAnswerType DEF Results, Refusals
  <2>2. n \in Nat
    BY NonceType
  <2>3. Proper([inv[p] EXCEPT !.step = "send", !.nonce = n, !.fee = answer.fee], sent')
    BY <1>0, <2>1, <2>2, HeldProper DEF Proper, Invocation, Steps
  <2> QED
    BY <1>2, <2>1, <2>3, EndType DEF Finish
<1> QED
  BY <1>1, <1>2 DEF Prepare

LEMMA SubmitType ==
  ASSUME TypeInv, NEW p \in Invocations,
         Send(p) \/ SendRefused(p) \/ SendUnanswered(p) \/ Insert(p) \/ Link(p) \/ RpcFails(p)
  PROVE  \E job : Become(p, job) /\ Proper(job, sent')
<1>1. "RPC_ERROR" \in Results /\ "submitted" \in Results
  BY DEF Results
<1>2. CASE Send(p)
  <2>1. PICK f \in inv[p].fee :
          /\ Broadcast(Signed(inv[p], f))
          /\ Become(p, [inv[p] EXCEPT !.step = "insert", !.tx = {Signed(inv[p], f)}])
    BY <1>2 DEF Send
  <2>2. sent' = sent \cup {Signed(inv[p], f)} /\ Signed(inv[p], f) \in Transactions
    BY <2>1, SignedType DEF Broadcast
  <2>3. Proper([inv[p] EXCEPT !.step = "insert", !.tx = {Signed(inv[p], f)}], sent')
    <3>1. inv[p].over \in Optional(sent') /\ inv[p] \in Invocation
      BY <2>2, HeldProper DEF Proper, Optional
    <3>2. {Signed(inv[p], f)} \in Optional(sent') /\ {Signed(inv[p], f)} \in SUBSET Transactions
      BY <2>2 DEF Optional
    <3> QED
      BY <3>1, <3>2 DEF Proper, Invocation, Steps
  <2> QED
    BY <2>1, <2>3
<1>3. CASE SendRefused(p) \/ SendUnanswered(p) \/ RpcFails(p)
  BY <1>1, <1>3, EndType DEF SendRefused, SendUnanswered, RpcFails, Finish
<1>4. CASE Insert(p) \/ Link(p)
  <2>1. sent' = sent
    BY <1>4 DEF Insert, Link, nodeVars
  <2>2. Proper([inv[p] EXCEPT !.step = "link"], sent')
    BY <2>1, HeldProper DEF Proper, Invocation, Steps
  <2>3. Proper([inv[p] EXCEPT !.step = "wait"], sent')
    BY <2>1, HeldProper DEF Proper, Invocation, Steps
  <2> QED
    BY <1>1, <1>4, <2>2, <2>3, EndType DEF Insert, Link, AfterSubmit, Finish
<1> QED
  BY <1>2, <1>3, <1>4

LEMMA AwaitType ==
  ASSUME TypeInv, NEW p \in Invocations,
         \/ WaitAnswered(p) \/ WaitTimedOut(p) \/ WaitFailed(p)
         \/ ResumeReceipt(p) \/ ResumeCount(p)
  PROVE  \E job : Become(p, job) /\ Proper(job, sent')
<1>0. sent' = sent
  <2>1. UNCHANGED nodeVars
    BY DEF WaitAnswered, WaitTimedOut, WaitFailed, ResumeReceipt, ResumeCount
  <2> QED
    BY <2>1 DEF nodeVars
<1>1. /\ {"CLAIM_PENDING", "RPC_ERROR", "CLAIM_REPLACED_OR_MINED"} \subseteq Results
      /\ \A h \in inv[p].tx : Consumed(h) => OutcomeAt(h).status \in Results
  <2>1. \A h \in inv[p].tx : h \in sent
    BY HeldProper DEF Proper, Optional
  <2> QED
    BY <2>1, OutcomeType DEF Results, Outcomes
<1>2. CASE WaitAnswered(p)
  <2>1. PICK h \in inv[p].tx : \E o \in AwaitedReceipts(h) : Finish(p, o.status)
    BY <1>2 DEF WaitAnswered
  <2>2. \E status \in Results : Finish(p, status)
    <3>1. PICK o \in AwaitedReceipts(h) : Finish(p, o.status)
      BY <2>1
    <3>2. Consumed(h) /\ o = OutcomeAt(h)
      BY DEF AwaitedReceipts
    <3> QED
      BY <1>1, <3>1, <3>2
  <2> QED
    BY <2>2, EndType DEF Finish
<1>3. CASE WaitTimedOut(p)
  <2>1. Proper([inv[p] EXCEPT !.step = "prepare", !.over = inv[p].tx, !.req.again = FALSE], sent')
    <3> DEFINE req == [inv[p].req EXCEPT !.again = FALSE]
               job == [inv[p] EXCEPT !.step = "prepare", !.over = inv[p].tx, !.req = req]
    <3>1. Proper(inv[p], sent) /\ "prepare" \in Steps
      BY HeldProper DEF Steps
    <3>2. req \in RequestSet
      BY <3>1 DEF Proper, Invocation, RequestSet
    <3>3. job = [inv[p] EXCEPT !.step = "prepare", !.over = inv[p].tx, !.req.again = FALSE]
      BY <3>1 DEF Proper, Invocation
    <3> HIDE DEF req
    <3>4. job \in Invocation /\ job.over = inv[p].tx /\ job.tx = inv[p].tx
      BY <3>1, <3>2 DEF Proper, Invocation
    <3> HIDE DEF job
    <3> QED
      BY <1>0, <3>1, <3>3, <3>4 DEF Proper
  <2> QED
    BY <1>1, <1>3, <2>1, EndType DEF WaitTimedOut, Finish
<1>4. CASE WaitFailed(p) \/ ResumeCount(p)
  BY <1>1, <1>4, EndType DEF WaitFailed, ResumeCount, Finish
<1>5. CASE ResumeReceipt(p)
  <2>1. Proper([inv[p] EXCEPT !.step = "count"], sent')
    BY <1>0, HeldProper DEF Proper, Invocation, Steps
  <2> QED
    BY <1>1, <1>5, <2>1, EndType DEF ResumeReceipt, ReceiptsOn, IsMined, Finish
<1> QED
  BY <1>2, <1>3, <1>4, <1>5

LEMMA TypeStep ==
  ASSUME TypeInv, [Next]_vars
  PROVE  TypeInv'
<1>1. NodeTypeOK' /\ sent \subseteq sent'
  BY NodeType
<1>2. inv' = inv \/ \E p \in Invocations : \E job : Become(p, job) /\ Proper(job, sent')
  BY StartType, PrepareType, SubmitType, AwaitType DEF Next, Progress, Failure, vars
<1>3. inv' \in [Invocations -> Invocation] /\ Held'
  <2>1. inv \in [Invocations -> Invocation]
    BY DEF TypeInv, TypeOK
  <2>2. \A p \in Invocations : Proper(inv[p], sent')
    BY <1>1, HeldProper DEF Proper, Optional
  <2>3. \A p \in Invocations : Proper(inv'[p], sent') /\ inv' \in [Invocations -> Invocation]
    BY <1>2, <2>1, <2>2 DEF Become, Proper
  <2> QED
    BY <1>2, <2>1, <2>3 DEF Held, Proper, Become
<1> QED
  BY <1>1, <1>3, CounterStep, RowsType DEF TypeInv, TypeOK
-----------------------------------------------------------------------------
(* What a process holds agrees with what it does                           *)

LEMMA EndOK ==
  ASSUME NEW result
  PROVE  JobOK([Idle EXCEPT !.step = "done", !.result = result])
<1>1. /\ [Idle EXCEPT !.step = "done", !.result = result].step = "done"
      /\ [Idle EXCEPT !.step = "done", !.result = result].over = {}
  BY IdleType DEF Invocation
<1> QED
  BY <1>1 DEF JobOK

LEMMA StartOK ==
  ASSUME NEW p \in Invocations, Claim(p) \/ Replace(p) \/ Resume(p)
  PROVE  \E job : Become(p, job) /\ JobOK(job)
<1>1. ASSUME NEW s, NEW c, NEW k, NEW r, NEW over, \A g \in over : g.call = k,
             Start(p, s, c, k, r, over)
      PROVE  \E job : Become(p, job) /\ JobOK(job)
  <2> DEFINE job == [Idle EXCEPT !.step = "prepare", !.sender = s, !.chain = c,
                                 !.call = k, !.req = r, !.over = over]
  <2>1. job.step = "prepare" /\ job.call = k /\ job.over = over
    BY IdleType DEF Invocation
  <2>2. JobOK(job)
    BY <1>1, <2>1 DEF JobOK
  <2> QED
    BY <1>1, <2>2 DEF Start
<1>2. ASSUME NEW h, NEW c
      PROVE  JobOK([Idle EXCEPT !.step = "receipt", !.chain = c, !.tx = {h}])
  <2>1. /\ [Idle EXCEPT !.step = "receipt", !.chain = c, !.tx = {h}].step = "receipt"
        /\ [Idle EXCEPT !.step = "receipt", !.chain = c, !.tx = {h}].over = {}
    BY IdleType DEF Invocation
  <2> QED
    BY <2>1 DEF JobOK
<1>3. CASE Claim(p)
  BY <1>1, <1>3 DEF Claim
<1>4. CASE Replace(p)
  <2>1. PICK h \in sent, s \in Senders, c \in Chains, k \in Calls, r \in Requests :
          \/ k = h.call /\ Start(p, s, c, k, r, {h})
          \/ Finish(p, ReplaceRefusal(h, k))
    BY <1>4 DEF Replace
  <2>2. CASE k = h.call /\ Start(p, s, c, k, r, {h})
    <3>1. \A g \in {h} : g.call = k
      BY <2>2
    <3> QED
      BY <1>1, <2>2, <3>1
  <2>3. CASE Finish(p, ReplaceRefusal(h, k))
    BY <2>3, EndOK DEF Finish
  <2> QED
    BY <2>1, <2>2, <2>3
<1>5. CASE Resume(p)
  BY <1>2, <1>5, EndOK DEF Resume, Finish
<1> QED
  BY <1>3, <1>4, <1>5

\* Preparing a replacement checks its scope, keeps its nonce and prices it
\* over the claim it replaces.
LEMMA PrepareOK ==
  ASSUME TypeInv, JobInv, NEW p \in Invocations, Prepare(p)
  PROVE  \E job : Become(p, job) /\ JobOK(job)
<1>1. CASE \E h \in inv[p].over : /\ ScopeRefusal(inv[p], h) # ""
                                  /\ Finish(p, ScopeRefusal(inv[p], h))
  BY <1>1, EndOK DEF Finish
<1>2. ASSUME NEW n \in NonceChoices(inv[p]), NEW answer \in FeeAnswers(inv[p]),
             InScope(inv[p]),
             IF answer.code = "ok"
               THEN Become(p, [inv[p] EXCEPT !.step = "send", !.nonce = n, !.fee = answer.fee])
               ELSE Finish(p, answer.code)
      PROVE  \E job : Become(p, job) /\ JobOK(job)
  <2> DEFINE job == [inv[p] EXCEPT !.step = "send", !.nonce = n, !.fee = answer.fee]
  <2>1. inv[p] \in Invocation /\ inv[p].over \in Optional(sent)
    BY HeldProper DEF Proper
  <2>2. /\ job.step = "send" /\ job.nonce = n /\ job.fee = answer.fee
        /\ job.over = inv[p].over /\ job.call = inv[p].call /\ job.sender = inv[p].sender
        /\ job.chain = inv[p].chain /\ job.req = inv[p].req
    BY <2>1 DEF Invocation
  <2>3. ASSUME NEW g \in inv[p].over
        PROVE  /\ Agrees(job, g)
               /\ \A f \in answer.fee : \E q \in Quotes :
                    f \in applyClaimFees(inv[p].req.fees, {g.fee}, q).fee
    <3>1. inv[p].over = {g}
      BY <2>1, <2>3 DEF Optional
    <3>2. n = g.nonce
      BY <3>1 DEF NonceChoices
    <3>3. ScopeRefusal(inv[p], g) = ""
      BY <1>2, <2>3 DEF InScope
    <3>4. g.sender = inv[p].sender /\ g.chain = inv[p].chain
      BY <3>3 DEF ScopeRefusal
    <3>5. g.call = inv[p].call
      BY <2>3 DEF JobInv, JobOK
    <3>6. {h.fee : h \in inv[p].over} = {g.fee}
      BY <3>1
    <3> QED
      BY <2>2, <3>2, <3>4, <3>5, <3>6 DEF Agrees, FeeAnswers
  <2>4. JobOK(job)
    BY <2>2, <2>3 DEF JobOK, Agrees
  <2> QED
    BY <1>2, <2>4, EndOK DEF Finish
<1> QED
  BY <1>1, <1>2 DEF Prepare

LEMMA SubmitOK ==
  ASSUME TypeInv, JobInv, NEW p \in Invocations,
         Send(p) \/ SendRefused(p) \/ SendUnanswered(p) \/ Insert(p) \/ Link(p) \/ RpcFails(p)
  PROVE  \E job : Become(p, job) /\ JobOK(job)
<1>0. inv[p] \in Invocation /\ JobOK(inv[p]) /\ inv[p].over \in Optional(sent)
  BY HeldProper DEF Proper, JobInv
<1>1. CASE Send(p)
  <2>1. PICK f \in inv[p].fee :
          Become(p, [inv[p] EXCEPT !.step = "insert", !.tx = {Signed(inv[p], f)}])
    BY <1>1 DEF Send
  <2> DEFINE job == [inv[p] EXCEPT !.step = "insert", !.tx = {Signed(inv[p], f)}]
  <2>2. /\ job.step = "insert" /\ job.tx = {Signed(inv[p], f)} /\ job.over = inv[p].over
        /\ job.call = inv[p].call /\ job.sender = inv[p].sender
        /\ job.chain = inv[p].chain /\ job.nonce = inv[p].nonce
    BY <1>0 DEF Invocation
  <2>3. Agrees(job, Signed(inv[p], f)) /\ Signed(inv[p], f).fee = f
    BY <2>2 DEF Agrees, Signed
  <2>4. ASSUME NEW g \in inv[p].over PROVE Agrees(job, g) /\ Outbids(f, g.fee)
    <3>1. inv[p].step = "send"
      BY <1>1 DEF Send, At
    <3>2. Agrees(job, g)
      BY <1>0, <2>2, <3>1 DEF JobOK, Agrees
    <3>3. PICK q \in Quotes : f \in applyClaimFees(inv[p].req.fees, {g.fee}, q).fee
      BY <1>0, <3>1 DEF JobOK
    <3>4. inv[p].req.fees \in FeeOverrides /\ q \in FeeQuotes /\ g.fee \in Fees
      BY <1>0, ClaimAssumption
         DEF Invocation, RequestSet, Optional, TypeInv, TypeOK, NodeTypeOK, Transactions
    <3> QED
      BY <3>2, <3>3, <3>4, ReplacementFeeOutbids
  <2>5. JobOK(job)
    BY <1>0, <2>2, <2>3, <2>4 DEF JobOK
  <2> QED
    BY <2>1, <2>5
<1>2. CASE SendRefused(p) \/ SendUnanswered(p) \/ RpcFails(p)
  BY <1>2, EndOK DEF SendRefused, SendUnanswered, RpcFails, Finish
<1>3. CASE Insert(p) \/ Link(p)
  <2>1. inv[p].step \in {"insert", "link"}
    BY <1>3 DEF Insert, Link, At
  <2>2. ASSUME NEW step \in {"link", "wait"}, step = "link" => inv[p].step = "insert"
        PROVE  JobOK([inv[p] EXCEPT !.step = step])
    <3> DEFINE job == [inv[p] EXCEPT !.step = step]
    <3>1. /\ job.step = step /\ job.over = inv[p].over /\ job.tx = inv[p].tx
          /\ job.call = inv[p].call /\ job.sender = inv[p].sender
          /\ job.chain = inv[p].chain /\ job.nonce = inv[p].nonce
      BY <1>0 DEF Invocation
    <3>2. \A t : Agrees(job, t) <=> Agrees(inv[p], t)
      BY <3>1 DEF Agrees
    <3> QED
      BY <1>0, <2>1, <3>1, <3>2 DEF JobOK
  <2>3. CASE Insert(p)
    BY <2>2, <2>3, EndOK DEF Insert, At, AfterSubmit, Finish
  <2>4. CASE Link(p)
    BY <2>2, <2>4, EndOK DEF Link, AfterSubmit, Finish
  <2> QED
    BY <1>3, <2>3, <2>4
<1> QED
  BY <1>1, <1>2, <1>3

LEMMA AwaitOK ==
  ASSUME TypeInv, JobInv, NEW p \in Invocations,
         \/ WaitAnswered(p) \/ WaitTimedOut(p) \/ WaitFailed(p)
         \/ ResumeReceipt(p) \/ ResumeCount(p)
  PROVE  \E job : Become(p, job) /\ JobOK(job)
<1>0. inv[p] \in Invocation /\ JobOK(inv[p])
  BY HeldProper DEF Proper, JobInv
<1>1. CASE WaitTimedOut(p)
  <2> DEFINE job == [inv[p] EXCEPT !.step = "prepare", !.over = inv[p].tx, !.req.again = FALSE]
  <2>1. job.step = "prepare" /\ job.over = inv[p].tx /\ job.call = inv[p].call
    BY <1>0 DEF Invocation
  <2>2. JobOK(job)
    BY <1>0, <1>1, <2>1 DEF JobOK, WaitTimedOut, At, Agrees
  <2> QED
    BY <1>1, <2>2, EndOK DEF WaitTimedOut, Finish
<1>2. CASE ResumeReceipt(p)
  <2> DEFINE job == [inv[p] EXCEPT !.step = "count"]
  <2>1. job.step = "count" /\ job.over = inv[p].over /\ job.call = inv[p].call
    BY <1>0 DEF Invocation
  <2>2. JobOK(job)
    BY <1>0, <2>1 DEF JobOK
  <2> QED
    BY <1>2, <2>2, EndOK DEF ResumeReceipt, Finish
<1>3. CASE WaitAnswered(p) \/ WaitFailed(p) \/ ResumeCount(p)
  BY <1>3, EndOK DEF WaitAnswered, WaitFailed, ResumeCount, Finish
<1> QED
  BY <1>1, <1>2, <1>3

LEMMA JobStep ==
  ASSUME TypeInv, JobInv, [Next]_vars
  PROVE  JobInv'
<1>1. inv' = inv \/ \E p \in Invocations : \E job : Become(p, job) /\ JobOK(job)
  BY StartOK, PrepareOK, SubmitOK, AwaitOK DEF Next, Progress, Failure, vars
<1>2. inv \in [Invocations -> Invocation] /\ \A p \in Invocations : JobOK(inv[p])
  BY DEF TypeInv, TypeOK, JobInv
<1>3. \A p \in Invocations : JobOK(inv'[p])
  BY <1>1, <1>2 DEF Become
<1> QED
  BY <1>3 DEF JobInv
-----------------------------------------------------------------------------
(* The chain and the journal                                               *)

\* A nonce, once used, keeps its outcome.
LEMMA OutcomeStable ==
  ASSUME TypeInv, [Next]_vars, NEW h \in sent, Consumed(h)
  PROVE  Consumed(h)' /\ OutcomeAt(h)' = OutcomeAt(h)
<1>1. /\ h \in Transactions /\ h.nonce + 1 \in DOMAIN mined[h.sender][h.chain]
      /\ mined[h.sender][h.chain] \in Seq(Outcomes) /\ h.nonce \in Nat
      /\ h.sender \in Senders /\ h.chain \in Chains
  BY OutcomeType DEF TypeInv, TypeOK, NodeTypeOK, Transactions
<1>2. CASE mined' = mined
  BY <1>2 DEF Consumed, MinedCount, OutcomeAt
<1>3. ASSUME NEW s \in Senders, NEW c \in Chains, NEW o \in Outcomes, TakeNonce(s, c, o)
      PROVE  Consumed(h)' /\ OutcomeAt(h)' = OutcomeAt(h)
  <2>1. mined \in [Senders -> [Chains -> Seq(Outcomes)]]
    BY DEF TypeInv, TypeOK, NodeTypeOK
  <2>2. mined'[h.sender][h.chain] \in {mined[h.sender][h.chain],
                                       Append(mined[h.sender][h.chain], o)}
    BY <1>1, <1>3, <2>1 DEF TakeNonce
  <2>3. /\ Len(mined'[h.sender][h.chain]) >= Len(mined[h.sender][h.chain])
        /\ mined'[h.sender][h.chain][h.nonce + 1] = mined[h.sender][h.chain][h.nonce + 1]
        /\ mined'[h.sender][h.chain] \in Seq(Outcomes)
    <3>1. ASSUME NEW q \in Seq(Outcomes), NEW i \in DOMAIN q
          PROVE  /\ Len(Append(q, o)) >= Len(q) /\ Append(q, o)[i] = q[i]
                 /\ Append(q, o) \in Seq(Outcomes)
      OBVIOUS
    <3> DEFINE q == mined[h.sender][h.chain]
    <3>2. q \in Seq(Outcomes) /\ h.nonce + 1 \in DOMAIN q /\ Len(q) >= Len(q)
      BY <1>1
    <3>3. /\ Len(Append(q, o)) >= Len(q)
          /\ Append(q, o)[h.nonce + 1] = q[h.nonce + 1] /\ Append(q, o) \in Seq(Outcomes)
      BY <3>1, <3>2
    <3>4. mined'[h.sender][h.chain] \in {q, Append(q, o)}
      BY <2>2
    <3>5. mined[h.sender][h.chain] = q
      OBVIOUS
    <3>6. mined'[h.sender][h.chain] = q \/ mined'[h.sender][h.chain] = Append(q, o)
      BY <3>4
    <3> HIDE DEF q
    <3>7. CASE mined'[h.sender][h.chain] = q
      BY <3>2, <3>5, <3>7
    <3>8. CASE mined'[h.sender][h.chain] = Append(q, o)
      BY <3>3, <3>5, <3>8
    <3> QED
      BY <3>6, <3>7, <3>8
  <2> QED
    <3>1. Consumed(h) /\ OutcomeAt(h)' = OutcomeAt(h)
      BY <2>3 DEF OutcomeAt
    <3>2. Consumed(h)'
      <4> DEFINE old == Len(mined[h.sender][h.chain])
                 new == Len(mined'[h.sender][h.chain])
      <4>1. old \in Nat /\ new \in Nat
        BY <1>1, <2>3
      <4>2. h.nonce < old
        BY <3>1 DEF Consumed, MinedCount
      <4>3. new >= old
        BY <2>3
      <4>4. Consumed(h)' <=> h.nonce < new
        BY DEF Consumed, MinedCount
      <4> HIDE DEF old, new
      <4> QED
        BY <1>1, <4>1, <4>2, <4>3, <4>4
    <3> QED
      BY <3>1, <3>2
<1> QED
  BY <1>2, <1>3, ChainStep

LEMMA ChainInvStep ==
  ASSUME TypeInv, ChainInv, [Next]_vars
  PROVE  ChainInv'
<1>1. \A t \in sent' : t.fee.prio <= t.fee.max
  BY ChainStep DEF ChainInv, Broadcast, Accepts, TakeNonce
<1>2. CASE mined' = mined
  BY <1>1, <1>2 DEF ChainInv
<1>3. ASSUME NEW s \in Senders, NEW c \in Chains, NEW o \in Outcomes, TakeNonce(s, c, o),
             \/ o.by = {}
             \/ \E t \in sent : /\ o.by = {t} /\ t.sender = s /\ t.chain = c
                                /\ t.nonce = MinedCount(s, c)
      PROVE  ChainInv'
  <2>1. mined \in [Senders -> [Chains -> Seq(Outcomes)]]
    BY DEF TypeInv, TypeOK, NodeTypeOK
  <2> SUFFICES ASSUME NEW s1 \in Senders, NEW c1 \in Chains, NEW i \in DOMAIN mined'[s1][c1],
                      NEW t \in mined'[s1][c1][i].by
               PROVE  /\ t.sender = s1 /\ t.chain = c1 /\ t.nonce + 1 = i
                      /\ mined'[s1][c1][i].by = {t}
    BY <1>1 DEF ChainInv
  <2>2. CASE s1 = s /\ c1 = c
    <3>1. mined'[s][c] = Append(mined[s][c], o) /\ mined[s][c] \in Seq(Outcomes)
      BY <1>3, <2>1 DEF TakeNonce
    <3>2. \/ i \in DOMAIN mined[s][c] /\ mined'[s][c][i] = mined[s][c][i]
          \/ i = Len(mined[s][c]) + 1 /\ mined'[s][c][i] = o
      BY <2>2, <3>1
    <3>3. CASE i \in DOMAIN mined[s][c] /\ mined'[s][c][i] = mined[s][c][i]
      BY <2>2, <3>3 DEF ChainInv
    <3>4. CASE i = Len(mined[s][c]) + 1 /\ mined'[s][c][i] = o
      BY <1>3, <2>2, <3>4 DEF MinedCount
    <3> QED
      BY <3>2, <3>3, <3>4
  <2>3. CASE ~(s1 = s /\ c1 = c)
    <3>1. mined'[s1][c1] = mined[s1][c1]
      BY <1>3, <2>1, <2>3 DEF TakeNonce
    <3> QED
      BY <3>1 DEF ChainInv
  <2> QED
    BY <2>2, <2>3
<1> QED
  BY <1>2, <1>3, ChainStep

\* Every link the journal gains is between a claim and its replacement.
LEMMA LinksStep ==
  ASSUME TypeInv, JobInv, LinksOK, [Next]_vars
  PROVE  LinksOK'
<1> DEFINE Good(new, old) == SameSlot(new, old) /\ SameSlot(old, new) /\ new.call = old.call
                             /\ Outbids(new.fee, old.fee)
           RowOK(h, row) == /\ \A g \in row.replacementOf : Good(h, g)
                            /\ \A g \in row.replacedBy : Good(g, h)
<1>1. LinksOK <=> \A h \in DOMAIN rows : RowOK(h, rows[h])
  BY DEF LinksOK, LinkedSameClaim, ReplacementOutbids, Links, SameSlot
<1>2. LinksOK' <=> \A h \in DOMAIN rows' : RowOK(h, rows'[h])
  BY DEF LinksOK, LinkedSameClaim, ReplacementOutbids, Links, SameSlot
<1>3. ASSUME NEW p \in Invocations, inv[p].step \in {"insert", "link"},
             NEW h \in inv[p].tx, NEW g \in inv[p].over
      PROVE  Good(h, g)
  BY <1>3 DEF JobInv, JobOK, Agrees, SameSlot
<1>4. CASE rows' = rows
  BY <1>1, <1>2, <1>4
<1>5. ASSUME NEW p \in Invocations, NEW h \in inv[p].tx, inv[p].step = "insert",
             rows' = Inserted(h, inv[p].over)
      PROVE  LinksOK'
  <2>1. RowOK(h, PendingRow(inv[p].over))
    BY <1>3, <1>5 DEF PendingRow
  <2> QED
    BY <1>1, <1>2, <1>5, <2>1 DEF Inserted
<1>6. ASSUME NEW p \in Invocations, NEW g \in inv[p].over, NEW h \in inv[p].tx,
             inv[p].step = "link", rows' = ReplacedMarked(g, h)
      PROVE  LinksOK'
  <2>1. Good(h, g)
    BY <1>3, <1>6
  <2>2. ASSUME NEW x \in DOMAIN rows PROVE RowOK(x, rows'[x])
    <3>1. rows[x] \in Row(sent) /\ RowOK(x, rows[x])
      BY <1>1 DEF TypeInv, TypeOK
    <3>2. CASE x = g /\ rows[x].status = "pending"
      <4>1. rows'[x].replacementOf = rows[x].replacementOf /\ rows'[x].replacedBy = {h}
        BY <1>6, <3>1, <3>2 DEF ReplacedMarked, Row
      <4> QED
        BY <2>1, <3>1, <3>2, <4>1
    <3>3. CASE ~(x = g /\ rows[x].status = "pending")
      BY <1>6, <3>1, <3>3 DEF ReplacedMarked
    <3> QED
      BY <3>2, <3>3
  <2> QED
    BY <1>2, <1>6, <2>2 DEF ReplacedMarked
<1>7. ASSUME NEW h, NEW status, rows' = ReceiptMarked(h, status) PROVE LinksOK'
  <2>1. \A x \in DOMAIN rows : /\ rows'[x].replacementOf = rows[x].replacementOf
                               /\ rows'[x].replacedBy = rows[x].replacedBy
    <3>1. rows \in [DOMAIN rows -> Row(sent)]
      BY <1>1 DEF TypeInv, TypeOK
    <3> QED
      BY <1>7, <3>1 DEF ReceiptMarked, Row
  <2>2. DOMAIN rows' = DOMAIN rows
    BY <1>7 DEF ReceiptMarked
  <2>3. \A x \in DOMAIN rows : RowOK(x, rows[x]) => RowOK(x, rows'[x])
    BY <2>1
  <2> QED
    BY <1>1, <1>2, <2>2, <2>3
<1>8. ASSUME NEW h, NEW reason, rows' = FailedMarked(h, reason) PROVE LinksOK'
  <2>1. \A x \in DOMAIN rows : /\ rows'[x].replacementOf = rows[x].replacementOf
                               /\ rows'[x].replacedBy = rows[x].replacedBy
    <3>1. rows \in [DOMAIN rows -> Row(sent)]
      BY <1>1 DEF TypeInv, TypeOK
    <3> QED
      BY <1>8, <3>1 DEF FailedMarked, Row
  <2>2. DOMAIN rows' = DOMAIN rows
    BY <1>8 DEF FailedMarked
  <2>3. \A x \in DOMAIN rows : RowOK(x, rows[x]) => RowOK(x, rows'[x])
    BY <2>1
  <2> QED
    BY <1>1, <1>2, <2>2, <2>3
<1> QED
  BY <1>4, <1>5, <1>6, <1>7, <1>8, JournalStep

\* A receipt is recorded under its own hash with the outcome of its own nonce.
LEMMA SettledStep ==
  ASSUME TypeInv, SettledTruth, [Next]_vars
  PROVE  SettledTruth'
<1>1. ASSUME NEW h \in DOMAIN rows, rows[h].status \in Settled
      PROVE  Consumed(h)' /\ rows[h].status = OutcomeAt(h)'.status
  <2>1. h \in sent /\ Consumed(h) /\ rows[h].status = OutcomeAt(h).status
    BY <1>1 DEF SettledTruth, TypeInv, TypeOK
  <2> QED
    BY <2>1, OutcomeStable
<1>2. SUFFICES ASSUME NEW h \in DOMAIN rows', rows'[h].status \in Settled
               PROVE  Consumed(h)' /\ rows'[h].status = OutcomeAt(h)'.status
  BY DEF SettledTruth, Settled
<1>3. CASE h \in DOMAIN rows /\ rows'[h].status = rows[h].status
  BY <1>1, <1>2, <1>3
<1>4. CASE /\ UNCHANGED nodeVars /\ Consumed(h)
           /\ rows' = ReceiptMarked(h, OutcomeAt(h).status)
  <2>1. rows'[h].status = OutcomeAt(h).status
    BY <1>2, <1>4 DEF ReceiptMarked, TypeInv, TypeOK, Row
  <2>2. UNCHANGED mined
    BY <1>4 DEF nodeVars
  <2> QED
    BY <1>4, <2>1, <2>2 DEF Consumed, MinedCount, OutcomeAt
<1>5. \/ h \in DOMAIN rows /\ rows'[h].status = rows[h].status
      \/ /\ UNCHANGED nodeVars /\ Consumed(h)
         /\ rows' = ReceiptMarked(h, OutcomeAt(h).status)
  <2>1. ASSUME NEW x, NEW over, rows' = Inserted(x, over)
        PROVE  h \in DOMAIN rows /\ rows'[h].status = rows[h].status
    <3>1. PendingRow(over).status \notin Settled
      BY DEF PendingRow, Settled
    <3> QED
      BY <1>2, <2>1, <3>1 DEF Inserted
  <2>2. \A x, by : rows' = ReplacedMarked(x, by) =>
          h \in DOMAIN rows /\ rows'[h].status = rows[h].status
    BY <1>2 DEF ReplacedMarked, Settled, TypeInv, TypeOK, Row
  <2>3. \A x, reason : rows' = FailedMarked(x, reason) =>
          h \in DOMAIN rows /\ rows'[h].status = rows[h].status
    BY <1>2 DEF FailedMarked, Settled, TypeInv, TypeOK, Row
  <2>4. \A x, status : rows' = ReceiptMarked(x, status) =>
          h \in DOMAIN rows /\ (x # h => rows'[h].status = rows[h].status)
    BY <1>2 DEF ReceiptMarked
  <2> QED
    BY <1>2, <2>1, <2>2, <2>3, <2>4, JournalStep
<1> QED
  BY <1>3, <1>4, <1>5
-----------------------------------------------------------------------------
(* Theorems                                                                *)

LEMMA InitIInv ==
  ASSUME Init
  PROVE  IInv
<1>1. sent \subseteq Transactions /\ \A t \in sent : t.fee.prio <= t.fee.max
  BY ClaimAssumption DEF Init
<1>2. NodeTypeOK
  <2>1. mined \in [Senders -> [Chains -> Seq(Outcomes)]]
    <3>1. << >> \in Seq(Outcomes)
      OBVIOUS
    <3> QED
      BY <3>1 DEF Init
  <2>2. foreign \in 0..MaxForeign
    BY NodeAssumption DEF Init
  <2> QED
    BY <1>1, <2>1, <2>2 DEF Init, NodeTypeOK
<1>3. /\ DOMAIN rows = sent
      /\ \A h \in sent : /\ rows[h] \in Row(sent) /\ rows[h].status = "pending"
                         /\ rows[h].replacementOf = {} /\ rows[h].replacedBy = {}
  <2>1. PendingRow({}) \in Row(sent) /\ LegacyRow \in Row(sent)
    BY DEF PendingRow, LegacyRow, Row, Statuses, FailureReasons
  <2>2. /\ PendingRow({}).status = "pending" /\ LegacyRow.status = "pending"
        /\ PendingRow({}).replacementOf = {} /\ LegacyRow.replacementOf = {}
        /\ PendingRow({}).replacedBy = {} /\ LegacyRow.replacedBy = {}
    BY DEF PendingRow, LegacyRow
  <2> QED
    BY <2>1, <2>2 DEF Init
<1>4. inv \in [Invocations -> Invocation] /\ \A p \in Invocations : inv[p] = Idle
  BY IdleType DEF Init
<1>5. TypeInv
  <2>1. rows \in [DOMAIN rows -> Row(sent)]
    BY <1>3 DEF Init
  <2>2. lost \in 0..MaxLost
    BY StoreAssumption DEF Init
  <2>3. Held
    BY <1>4, IdleType DEF Held, Optional
  <2> QED
    BY <1>2, <1>3, <1>4, <2>1, <2>2, <2>3 DEF TypeInv, TypeOK
<1>6. JobInv
  <2>1. Idle.step = "idle"
    BY DEF Idle
  <2> QED
    BY <1>4, <2>1, IdleType DEF JobInv, JobOK
<1>7. ChainInv
  <2>1. \A s \in Senders, c \in Chains : DOMAIN mined[s][c] = {}
    BY DEF Init
  <2> QED
    BY <1>1, <2>1 DEF ChainInv
<1>8. LinksOK /\ SettledTruth
  BY <1>3 DEF LinksOK, LinkedSameClaim, ReplacementOutbids, Links, SettledTruth, Settled
<1> QED
  BY <1>5, <1>6, <1>7, <1>8 DEF IInv

\* The invariant the theorems below share is inductive.
THEOREM IInvInvariant == Spec => []IInv
<1>1. Init => IInv
  BY InitIInv
<1>2. IInv /\ [Next]_vars => IInv'
  BY TypeStep, JobStep, ChainInvStep, LinksStep, SettledStep DEF IInv
<1> QED
  BY <1>1, <1>2, PTL DEF Spec

\* The state of node, journal and processes is well-typed in every state.
THEOREM TypeCorrect == Spec => []TypeOK
<1>1. IInv => TypeOK
  BY DEF IInv, TypeInv
<1> QED
  BY <1>1, IInvInvariant, PTL

\* A row says confirmed or reverted only with the outcome of its own nonce on
\* its own chain.
THEOREM SettledIsTrue == Spec => []SettledTruth
<1>1. IInv => SettledTruth
  BY DEF IInv
<1> QED
  BY <1>1, IInvInvariant, PTL

\* Replacements are linked to the same claim in the same slot.
THEOREM LinkedIsSameClaim == Spec => []LinkedSameClaim
<1>1. IInv => LinkedSameClaim
  BY DEF IInv, LinksOK
<1> QED
  BY <1>1, IInvInvariant, PTL

\* A linked replacement outbids the claim it replaces.
THEOREM ReplacementAlwaysOutbids == Spec => []ReplacementOutbids
<1>1. IInv => ReplacementOutbids
  BY DEF IInv, LinksOK
<1> QED
  BY <1>1, IInvInvariant, PTL

\* Two linked claims share a slot, and a block takes one transaction a slot:
\* they are never both mined.
THEOREM NeverClaimedTwice == Spec => []NoDoubleClaim
<1>1. IInv => NoDoubleClaim
  <2> SUFFICES ASSUME IInv, NEW h \in DOMAIN rows, NEW g \in Links(h), IsMined(h), IsMined(g)
               PROVE  g = h
    BY DEF NoDoubleClaim
  <2>1. SameSlot(g, h)
    BY DEF IInv, LinksOK, LinkedSameClaim
  <2>2. h \in OutcomeAt(h).by /\ g \in OutcomeAt(h).by
    BY <2>1 DEF IsMined, SameSlot, OutcomeAt
  <2>3. h \in sent /\ Consumed(h)
    BY DEF IInv, TypeInv, TypeOK, IsMined
  <2>4. OutcomeAt(h).by = {h}
    <3>1. h \in Transactions /\ h.nonce + 1 \in DOMAIN mined[h.sender][h.chain]
      BY <2>3, OutcomeType DEF IInv
    <3>2. h.sender \in Senders /\ h.chain \in Chains
      BY <3>1 DEF Transactions
    <3> QED
      BY <2>2, <3>1, <3>2 DEF IInv, ChainInv, OutcomeAt
  <2> QED
    BY <2>2, <2>4
<1> QED
  BY <1>1, IInvInvariant, PTL

\* A replacement prepared without overrides clears the node's price bump over
\* the claim it replaces.
THEOREM UnaidedReplacementClears == Spec => []BumpClearsNode
<1>1. IInv => BumpClearsNode
  <2> SUFFICES ASSUME IInv, NEW p \in Invocations, NEW g \in inv[p].over, NEW f \in inv[p].fee,
                      inv[p].step = "send", inv[p].req.fees = [max |-> {}, prio |-> {}],
                      g.fee.prio > 0
               PROVE  PriceBumped(f, g.fee)
    BY DEF BumpClearsNode
  <2>1. PICK q \in Quotes : f \in applyClaimFees(inv[p].req.fees, {g.fee}, q).fee
    BY DEF IInv, JobInv, JobOK
  <2>2. g \in sent /\ g \in Transactions /\ inv[p] \in Invocation
    BY DEF IInv, TypeInv, Held, Optional, TypeOK, NodeTypeOK
  <2>3. g.fee \in Fees /\ g.fee.prio <= g.fee.max
    BY <2>2 DEF IInv, ChainInv, Transactions
  <2>4. inv[p].req.fees \in FeeOverrides /\ q \in FeeQuotes
    BY <2>2, ClaimAssumption DEF Invocation, RequestSet
  <2>5. 0 < g.fee.prio
    BY <2>3 DEF Fees
  <2> QED
    BY <2>1, <2>3, <2>4, <2>5, ReplacementFeeClearsNode
<1> QED
  BY <1>1, IInvInvariant, PTL
-----------------------------------------------------------------------------
(* The journal implements its abstract life cycle                          *)

\* The two halves of the refinement mapping.
StatusOf == [h \in DOMAIN rows |-> rows[h].status]
ResultsOf(q) == [i \in DOMAIN q |-> q[i].status]
OutcomesOf == [s \in Senders |-> [c \in Chains |-> ResultsOf(mined[s][c])]]

LEMMA AppendResult ==
  ASSUME NEW q \in Seq(Outcomes), NEW o \in Outcomes
  PROVE  ResultsOf(Append(q, o)) = Append(ResultsOf(q), o.status)
<1>1. /\ Append(q, o) \in Seq(Outcomes) /\ Len(Append(q, o)) = Len(q) + 1
      /\ DOMAIN q = 1..Len(q) /\ Len(q) \in Nat
      /\ DOMAIN Append(q, o) = 1..(Len(q) + 1)
  OBVIOUS
<1>2. \A i \in 1..(Len(q) + 1) : Append(q, o)[i] = IF i <= Len(q) THEN q[i] ELSE o
  OBVIOUS
<1>3. \A i \in 1..Len(q) : q[i] \in Outcomes
  BY <1>1
<1>4. \A x \in Outcomes : x.status \in {"confirmed", "reverted"}
  BY DEF Outcomes
<1> DEFINE r == ResultsOf(q)
<1>5. /\ DOMAIN r = 1..Len(q)
      /\ \A i \in 1..Len(q) : r[i] = q[i].status /\ r[i] \in {"confirmed", "reverted"}
      /\ r = [i \in 1..Len(q) |-> r[i]]
  BY <1>1, <1>3, <1>4 DEF ResultsOf
<1> HIDE DEF r
<1>6. r \in Seq({"confirmed", "reverted"}) /\ Len(r) = Len(q)
  BY <1>1, <1>5
<1>7. /\ DOMAIN Append(r, o.status) = 1..(Len(q) + 1)
      /\ \A i \in 1..(Len(q) + 1) : Append(r, o.status)[i] = IF i <= Len(q) THEN r[i] ELSE o.status
      /\ Append(r, o.status) = [i \in 1..(Len(q) + 1) |-> Append(r, o.status)[i]]
  BY <1>1, <1>4, <1>6
<1>8. \A i \in 1..(Len(q) + 1) : Append(q, o)[i].status = Append(r, o.status)[i]
  BY <1>2, <1>5, <1>7
<1>9. ResultsOf(Append(q, o)) = [i \in 1..(Len(q) + 1) |-> Append(q, o)[i].status]
  BY <1>1 DEF ResultsOf
<1>10. ResultsOf(Append(q, o)) = Append(r, o.status)
  BY <1>7, <1>8, <1>9
<1> QED
  BY <1>10 DEF r

\* A block is the abstract journal's Decide.
LEMMA DecideStep ==
  ASSUME TypeInv, NEW s \in Senders, NEW c \in Chains, NEW o \in Outcomes,
         TakeNonce(s, c, o), rows' = rows
  PROVE  Journal!Decide(s, c)
<1>1. mined \in [Senders -> [Chains -> Seq(Outcomes)]] /\ o.status \in {"confirmed", "reverted"}
  BY DEF TypeInv, TypeOK, NodeTypeOK, Outcomes
<1>2. mined' = [mined EXCEPT ![s][c] = Append(@, o)]
  BY DEF TakeNonce
<1>3. ResultsOf(Append(mined[s][c], o)) = Append(ResultsOf(mined[s][c]), o.status)
  BY <1>1, AppendResult
<1>4. \A s1 \in Senders, c1 \in Chains :
        mined'[s1][c1] = IF s1 = s /\ c1 = c THEN Append(mined[s][c], o) ELSE mined[s1][c1]
  BY <1>1, <1>2
<1>5. \A s1 \in Senders, c1 \in Chains :
        ResultsOf(mined'[s1][c1]) = IF s1 = s /\ c1 = c
                                     THEN Append(ResultsOf(mined[s][c]), o.status)
                                     ELSE ResultsOf(mined[s1][c1])
  BY <1>3, <1>4
<1>6. OutcomesOf' = [OutcomesOf EXCEPT ![s][c] = Append(@, o.status)]
  <2>1. OutcomesOf' = [s1 \in Senders |-> [c1 \in Chains |-> ResultsOf(mined'[s1][c1])]]
    BY DEF OutcomesOf, ResultsOf
  <2>2. OutcomesOf[s][c] = ResultsOf(mined[s][c])
    BY DEF OutcomesOf
  <2>3. [OutcomesOf EXCEPT ![s][c] = Append(@, o.status)]
          = [s1 \in Senders |-> [c1 \in Chains |->
               IF s1 = s /\ c1 = c THEN Append(ResultsOf(mined[s][c]), o.status)
                                   ELSE ResultsOf(mined[s1][c1])]]
    BY <2>2 DEF OutcomesOf
  <2>4. \A s1 \in Senders :
          [c1 \in Chains |-> ResultsOf(mined'[s1][c1])]
            = [c1 \in Chains |-> IF s1 = s /\ c1 = c THEN Append(ResultsOf(mined[s][c]), o.status)
                                                     ELSE ResultsOf(mined[s1][c1])]
    BY <1>5
  <2>5. OutcomesOf' = [s1 \in Senders |-> [c1 \in Chains |->
               IF s1 = s /\ c1 = c THEN Append(ResultsOf(mined[s][c]), o.status)
                                   ELSE ResultsOf(mined[s1][c1])]]
    BY <2>1, <2>4, Zenon
  <2> QED
    BY <2>3, <2>5
<1>7. Journal!Decide(s, c) <=> /\ \E x \in {"confirmed", "reverted"} :
                                    OutcomesOf' = [OutcomesOf EXCEPT ![s][c] = Append(@, x)]
                               /\ StatusOf' = StatusOf
  BY DEF Journal!Decide, OutcomesOf, StatusOf, ResultsOf
<1> QED
  BY <1>1, <1>6, <1>7 DEF StatusOf

\* A journal write is the abstract journal's Record, WriteOff, Settle, or
\* leaves every status as it was.
LEMMA WriteStep ==
  ASSUME TypeInv, SettledTruth, [Next]_vars, rows' # rows
  PROVE  Journal!JNext \/ UNCHANGED <<OutcomesOf, StatusOf>>
<1>1. UNCHANGED nodeVars
  BY JournalStep
<1>2. UNCHANGED OutcomesOf
  BY <1>1 DEF nodeVars, OutcomesOf, ResultsOf
<1>3. rows \in [DOMAIN rows -> Row(sent)]
  BY DEF TypeInv, TypeOK
<1>4. ASSUME NEW h, NEW over, rows' = Inserted(h, over)
      PROVE  Journal!Record(h) /\ h \in DOMAIN StatusOf' \ DOMAIN StatusOf
  <2>1. h \notin DOMAIN rows
    <3>1. h \in DOMAIN rows => rows' = rows
      BY <1>3, <1>4 DEF Inserted
    <3> QED
      BY <3>1
  <2>2. StatusOf' = [x \in DOMAIN StatusOf \cup {h} |->
                       IF x = h THEN "pending" ELSE StatusOf[x]]
    <3>1. DOMAIN rows' = DOMAIN rows \cup {h}
      BY <1>4 DEF Inserted
    <3>2. \A x \in DOMAIN rows' : rows'[x].status = IF x = h THEN "pending" ELSE rows[x].status
      BY <1>4, <2>1 DEF Inserted, PendingRow
    <3> QED
      BY <3>1, <3>2 DEF StatusOf
  <2> QED
    BY <1>2, <2>1, <2>2 DEF Journal!Record, StatusOf, OutcomesOf, ResultsOf
<1>5. ASSUME NEW h \in DOMAIN rows, NEW status \in {"replaced", "failed"},
             rows[h].status = "pending", StatusOf' = [StatusOf EXCEPT ![h] = status]
      PROVE  Journal!WriteOff(h) /\ h \in DOMAIN StatusOf
  BY <1>2, <1>5 DEF Journal!WriteOff, StatusOf, OutcomesOf, ResultsOf
<1>6. ASSUME NEW h \in DOMAIN rows, Consumed(h), rows[h].status \notin Settled,
             StatusOf' = [StatusOf EXCEPT ![h] = OutcomeAt(h).status]
      PROVE  Journal!Settle(h) /\ h \in DOMAIN StatusOf
  <2>1. h \in Transactions /\ h.nonce + 1 \in DOMAIN mined[h.sender][h.chain]
    BY <1>6, OutcomeType DEF TypeInv, TypeOK
  <2>2. /\ h.nonce + 1 \in DOMAIN OutcomesOf[h.sender][h.chain]
        /\ OutcomesOf[h.sender][h.chain][h.nonce + 1] = OutcomeAt(h).status
    BY <2>1 DEF OutcomesOf, ResultsOf, OutcomeAt, Transactions
  <2> QED
    BY <1>2, <1>6, <2>2
       DEF Journal!Settle, Journal!Decided, StatusOf, OutcomesOf, ResultsOf, Settled
<1>7. ASSUME NEW g, NEW h, rows' = ReplacedMarked(g, h)
      PROVE  Journal!WriteOff(g) /\ g \in DOMAIN StatusOf
  <2>1. g \in DOMAIN rows /\ rows[g].status = "pending"
    <3>1. ~(g \in DOMAIN rows /\ rows[g].status = "pending") => rows' = rows
      BY <1>3, <1>7 DEF ReplacedMarked
    <3> QED
      BY <3>1
  <2>2. StatusOf' = [StatusOf EXCEPT ![g] = "replaced"]
    BY <1>3, <1>7, <2>1 DEF ReplacedMarked, StatusOf, Row
  <2> QED
    BY <1>5, <2>1, <2>2
<1>8. ASSUME NEW h, NEW reason, rows' = FailedMarked(h, reason)
      PROVE  Journal!WriteOff(h) /\ h \in DOMAIN StatusOf
  <2>1. h \in DOMAIN rows /\ rows[h].status = "pending"
    <3>1. ~(h \in DOMAIN rows /\ rows[h].status = "pending") => rows' = rows
      BY <1>3, <1>8 DEF FailedMarked
    <3> QED
      BY <3>1
  <2>2. StatusOf' = [StatusOf EXCEPT ![h] = "failed"]
    BY <1>3, <1>8, <2>1 DEF FailedMarked, StatusOf, Row
  <2> QED
    BY <1>5, <2>1, <2>2
<1>9. ASSUME NEW h, Consumed(h), rows' = ReceiptMarked(h, OutcomeAt(h).status)
      PROVE  \/ Journal!Settle(h) /\ h \in DOMAIN StatusOf
             \/ StatusOf' = StatusOf
  <2>1. h \in DOMAIN rows
    <3>1. h \notin DOMAIN rows => rows' = rows
      BY <1>3, <1>9 DEF ReceiptMarked
    <3> QED
      BY <3>1
  <2>2. StatusOf' = [StatusOf EXCEPT ![h] = OutcomeAt(h).status]
    BY <1>3, <1>9, <2>1 DEF ReceiptMarked, StatusOf, Row
  <2>3. CASE rows[h].status \in Settled
    <3>1. StatusOf[h] = OutcomeAt(h).status
      BY <2>1, <2>3 DEF SettledTruth, StatusOf
    <3>2. StatusOf = [StatusOf EXCEPT ![h] = StatusOf[h]]
      BY DEF StatusOf
    <3> QED
      BY <2>2, <3>1, <3>2
  <2>4. CASE rows[h].status \notin Settled
    BY <1>6, <1>9, <2>1, <2>2, <2>4
  <2> QED
    BY <2>3, <2>4
<1>10. \/ \E h : Journal!Record(h) /\ h \in DOMAIN StatusOf' \ DOMAIN StatusOf
       \/ \E h : (Journal!WriteOff(h) \/ Journal!Settle(h)) /\ h \in DOMAIN StatusOf
       \/ StatusOf' = StatusOf
  BY <1>4, <1>7, <1>8, <1>9, JournalStep
<1> QED
  BY <1>2, <1>10 DEF Journal!JNext, StatusOf

\* Whatever the commands do and whichever writes are lost, the journal's rows
\* are recorded once, written off only while pending, and settled only as the
\* chain decided.
THEOREM JournalImplementsLifecycle == Spec => JournalLifecycle
<1>1. Init => Journal!JInit
  <2> SUFFICES ASSUME Init PROVE Journal!JInit
    OBVIOUS
  <2>1. \A h \in DOMAIN StatusOf : StatusOf[h] = "pending"
    BY DEF Init, StatusOf, LegacyRow, PendingRow
  <2>2. \A s \in Senders, c \in Chains : OutcomesOf[s][c] = << >>
    <3>1. ResultsOf(<< >>) = << >>
      BY DEF ResultsOf
    <3> QED
      BY <3>1 DEF Init, OutcomesOf
  <2> QED
    BY <2>1, <2>2 DEF Journal!JInit, StatusOf, OutcomesOf, ResultsOf
<1>2. ASSUME IInv, [Next]_vars PROVE [Journal!JNext]_(Journal!jvars)
  <2>1. UNCHANGED <<OutcomesOf, StatusOf>> => UNCHANGED Journal!jvars
    BY DEF Journal!jvars, OutcomesOf, StatusOf, ResultsOf
  <2>2. CASE rows' # rows
    BY <1>2, <2>1, <2>2, WriteStep DEF IInv
  <2>3. CASE rows' = rows
    <3>1. CASE mined' = mined
      <4>1. UNCHANGED <<OutcomesOf, StatusOf>>
        BY <2>3, <3>1 DEF OutcomesOf, StatusOf, ResultsOf
      <4> QED
        BY <2>1, <4>1
    <3>2. ASSUME NEW s \in Senders, NEW c \in Chains, NEW o \in Outcomes, TakeNonce(s, c, o)
          PROVE  Journal!JNext
      <4>1. Journal!Decide(s, c)
        BY <1>2, <2>3, <3>2, DecideStep DEF IInv
      <4>2. s \in DOMAIN OutcomesOf /\ c \in DOMAIN OutcomesOf[s]
        BY DEF OutcomesOf
      <4> QED
        BY <4>1, <4>2 DEF Journal!JNext, OutcomesOf, ResultsOf
    <3> QED
      BY <1>2, <3>1, <3>2, ChainStep DEF IInv
  <2> QED
    BY <2>2, <2>3
<1> QED
  BY <1>1, <1>2, IInvInvariant, PTL DEF Spec, JournalLifecycle, Journal!JSpec
=============================================================================
