----------------------------- MODULE EventStore -----------------------------
(* events.db (services/event-store.ts) as a value: a set of rows, and what   *)
(* the prepared statements do to it.  One SQLite statement is one operator;  *)
(* Subscription says who runs them and when.                                 *)
EXTENDS Integers, FiniteSets

\* A row; `event_id` is not unique, `body` tells a captured message from the
\* mark that it was read, and `n` is the AUTOINCREMENT id.
Row(n, chain, type, id, body, at) ==
    [n |-> n, chain |-> chain, type |-> type, event_id |-> id, body |-> body, created_at |-> at]

insertEvent(rows, row) == rows \cup {row}

\* DELETE FROM events WHERE created_at < ?
pruneEventsUpTo(rows, now, olderThan) == {r \in rows : r.created_at > now - olderThan}
pruneEvents(rows, now, olderThan) == {r \in rows : r.created_at >= now - olderThan}

\* ORDER BY created_at DESC LIMIT n: of rows of the same millisecond any may
\* come first, so this is the set of the possible answers.
Newest(S, n) ==
    {T \in SUBSET S : /\ Cardinality(T) = (IF n < Cardinality(S) THEN n ELSE Cardinality(S))
                      /\ \A t \in T, s \in S \ T : t.created_at >= s.created_at}

\* A null id, here "none", equals nothing.
readEvent(rows, id) == Newest({r \in rows : r.event_id = id /\ id # "none"}, 1)

queryMailbox(rows, since, limit) ==
    Newest({r \in rows : r.type = "mailbox" /\ r.created_at >= since}, limit)

\* `chain` is "any" when the option is absent; rows of older versions have
\* no chain and count as vara's.
queryEvents(rows, chain, since, limit) ==
    Newest({r \in rows : /\ r.created_at >= since
                         /\ \/ chain \in {"any", r.chain}
                            \/ chain = "vara" /\ r.chain = "null"}, limit)
=============================================================================
