--------------------------- MODULE MCSubscription ---------------------------
EXTENDS Subscription

CONSTANTS m1, m2

\* Jobs that store have a steady connection or lose it once; jobs that lose
\* it twice do not store, so that the clock stands still for them.
MCJobs ==
    {Job("mailbox", 0, FALSE, TRUE, FALSE, 0), Job("mailbox", 1, FALSE, FALSE, FALSE, 1),
     Job("messages", 2, TRUE, FALSE, FALSE, 2), Job("program", 1, TRUE, TRUE, FALSE, 0),
     Job("balance", 1, FALSE, FALSE, TRUE, 1), Job("ethBlocks", 2, TRUE, TRUE, FALSE, 0),
     Job("signal", 0, FALSE, TRUE, FALSE, 0), Job("watch", 0, FALSE, FALSE, FALSE, 1),
     Job("wait", 0, TRUE, FALSE, FALSE, 1)}
    \cup {Job(c, 1, FALSE, TRUE, FALSE, 0) :
             c \in {"blocks", "transfers", "pallet", "sails", "ethProgram", "ethRouter"}}
=============================================================================
