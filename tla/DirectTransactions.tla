-------------------------- MODULE DirectTransactions -------------------------
(***************************************************************************)
(* The SQLite journal of direct Ethereum transactions                      *)
(* (src/src/services/vara-eth/direct-transactions.ts) as operators on its  *)
(* table: a function whose domain is the set of journaled hashes.  What a  *)
(* row says of the transaction itself (sender, nonce, fees, call) is the   *)
(* hash here; the row adds what changes.                                   *)
(***************************************************************************)
EXTENDS Naturals

CONSTANT MaxLost   \* bound: writes lost to a locked file, a full disk, ...

ASSUME StoreAssumption == MaxLost \in Nat

VARIABLES rows,    \* the journal: a function from hashes to rows
          lost     \* how many writes were lost

storeVars == <<rows, lost>>

Statuses == {"pending", "confirmed", "reverted", "replaced", "failed"}
Settled == {"confirmed", "reverted"}
FailureReasons == {"", "RECEIPT_ERROR", "CLAIM_REPLACED_OR_MINED"}

Row(Hashes) == [status : Statuses, replacementOf : SUBSET Hashes,
                replacedBy : SUBSET Hashes, chainKnown : BOOLEAN,
                lastError : FailureReasons]

PendingRow(replacementOf) ==
  [status |-> "pending", replacementOf |-> replacementOf, replacedBy |-> {},
   chainKnown |-> TRUE, lastError |-> ""]

\* A row written before the journal stored chain ids.
LegacyRow == [PendingRow({}) EXCEPT !.chainKnown = FALSE]

\* Every exported function of the store catches its own errors: a write takes
\* effect or is lost without a trace.
Write(new) == \/ rows' = new /\ UNCHANGED lost
              \/ lost < MaxLost /\ lost' = lost + 1 /\ UNCHANGED rows

\* INSERT: the hash is the primary key, a second insert fails and is swallowed.
Inserted(h, replacementOf) ==
  [x \in DOMAIN rows \cup {h} |-> IF x \in DOMAIN rows THEN rows[x]
                                  ELSE PendingRow(replacementOf)]

\* Mutation: the receipt's status is not looked at.
ReceiptMarkedConfirmed(h, status) ==
  [x \in DOMAIN rows |-> IF x = h
     THEN [rows[x] EXCEPT !.status = "confirmed", !.lastError = ""] ELSE rows[x]]

\* UPDATE ... WHERE tx_hash = ? has no status guard.
ReceiptMarked(h, status) ==
  [x \in DOMAIN rows |-> IF x = h
     THEN [rows[x] EXCEPT !.status = status, !.lastError = ""] ELSE rows[x]]

\* Mutation: a status the table's CHECK constraint does not list.
ReplacedMarkedSuperseded(h, by) ==
  [x \in DOMAIN rows |-> IF x = h /\ rows[x].status = "pending"
     THEN [rows[x] EXCEPT !.status = "superseded", !.replacedBy = {by}] ELSE rows[x]]

\* UPDATE ... WHERE tx_hash = ? AND status = 'pending'
ReplacedMarked(h, by) ==
  [x \in DOMAIN rows |-> IF x = h /\ rows[x].status = "pending"
     THEN [rows[x] EXCEPT !.status = "replaced", !.replacedBy = {by}] ELSE rows[x]]

\* Mutation: a row already settled is overwritten.
FailedMarkedUnguarded(h, reason) ==
  [x \in DOMAIN rows |-> IF x = h
     THEN [rows[x] EXCEPT !.status = "failed", !.lastError = reason] ELSE rows[x]]

\* UPDATE ... WHERE tx_hash = ? AND status = 'pending'
FailedMarked(h, reason) ==
  [x \in DOMAIN rows |-> IF x = h /\ rows[x].status = "pending"
     THEN [rows[x] EXCEPT !.status = "failed", !.lastError = reason] ELSE rows[x]]
=============================================================================
