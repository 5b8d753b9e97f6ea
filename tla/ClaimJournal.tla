---------------------------- MODULE ClaimJournal ----------------------------
(***************************************************************************)
(* What the journal of direct transactions promises, whatever commands run *)
(* and whichever of their writes are lost: every nonce gets at most one    *)
(* outcome on its chain; a row starts pending, may be written off as       *)
(* replaced or failed while it is pending, and becomes confirmed or        *)
(* reverted only as its own nonce was, after which it never changes.       *)
(***************************************************************************)
EXTENDS Naturals, Sequences

VARIABLES outcome,   \* outcome[s][c] : the outcomes of the account's nonces so far
          status     \* a function from journaled hashes to their status

jvars == <<outcome, status>>

Decided(h) == h.nonce + 1 \in DOMAIN outcome[h.sender][h.chain]

Decide(s, c) == \E o \in {"confirmed", "reverted"} :
                  /\ outcome' = [outcome EXCEPT ![s][c] = Append(@, o)]
                  /\ UNCHANGED status

Record(h) == /\ h \notin DOMAIN status
             /\ status' = [x \in DOMAIN status \cup {h} |->
                             IF x = h THEN "pending" ELSE status[x]]
             /\ UNCHANGED outcome

WriteOff(h) == /\ status[h] = "pending"
               /\ \E o \in {"replaced", "failed"} : status' = [status EXCEPT ![h] = o]
               /\ UNCHANGED outcome

Settle(h) == /\ status[h] \notin {"confirmed", "reverted"}
             /\ Decided(h)
             /\ status' = [status EXCEPT ![h] = outcome[h.sender][h.chain][h.nonce + 1]]
             /\ UNCHANGED outcome

JInit == /\ \A h \in DOMAIN status : status[h] = "pending"
         /\ \A s \in DOMAIN outcome : \A c \in DOMAIN outcome[s] : outcome[s][c] = <<>>

JNext == \/ \E s \in DOMAIN outcome : \E c \in DOMAIN outcome[s] : Decide(s, c)
         \/ \E h \in DOMAIN status' \ DOMAIN status : Record(h)
         \/ \E h \in DOMAIN status : WriteOff(h) \/ Settle(h)

JSpec == JInit /\ [][JNext]_jvars
=============================================================================
