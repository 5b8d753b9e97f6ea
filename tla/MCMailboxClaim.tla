---------------------------- MODULE MCMailboxClaim ---------------------------
(***************************************************************************)
(* A small instance of MailboxClaim.  Transactions has infinitely many     *)
(* elements (fees and nonces are natural numbers), so TLC is given the     *)
(* options and quotes a run tries, never the type.                         *)
(***************************************************************************)
EXTENDS MailboxClaim, TLC

NoOverrides == [max |-> {}, prio |-> {}]
Ask(wait, again, fees) == [wait |-> wait, again |-> again, nonce |-> {}, fees |-> fees]

MCRequests == {Ask("receipt", TRUE, NoOverrides),
               Ask("submitted", FALSE, [max |-> {12}, prio |-> {2}])}

MCLiveRequests == {Ask("receipt", TRUE, NoOverrides)}

MCQuotes == {[max |-> {8}, prio |-> {1}, price |-> 9]}

\* A chain without EIP-1559: the node quotes a gas price only.
MCLegacyQuotes == {[max |-> {}, prio |-> {}, price |-> 9]}

Earlier == [sender |-> CHOOSE s \in Senders : TRUE, chain |-> CHOOSE c \in Chains : TRUE,
            nonce |-> 0, fee |-> Eip1559(10, 1), call |-> CHOOSE k \in Calls : TRUE]
MCEarlier == {Earlier}
MCLegacy == {[Earlier EXCEPT !.fee = Legacy(9)]}
None == {}
Symmetry == Permutations(Invocations)
=============================================================================
