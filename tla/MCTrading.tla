----------------------------- MODULE MCTrading -----------------------------
(* Two commands of one account over a pool of 6 and 8. *)
EXTENDS Trading

MCJob(kind, token, amount) ==
  [kind |-> kind, token |-> token, amount |-> amount, amount2 |-> 3, bps |-> 100, deadline |-> 0,
   skipApprove |-> FALSE, voucher |-> FALSE, dryRun |-> FALSE, estimate |-> FALSE,
   gasLimit |-> FALSE]
call == MCJob("call", "t0", 1)

\* Together they take every branch: refused options, both directions of both swaps, an
\* off-ratio deposit, one that names the tokens the other way round, a deadline that may
\* pass and one that may not, an expiring voucher.
MCJobs ==
  { MCJob("swapIn", "t0", 2), [MCJob("swapIn", "t1", 2) EXCEPT !.voucher = TRUE],
    [MCJob("swapOut", "t1", 2) EXCEPT !.bps = 5000], MCJob("swapOut", "t0", 8),
    [MCJob("swapIn", "t0", 1) EXCEPT !.bps = 5001], MCJob("swapIn", "t0", 0),
    [MCJob("swapIn", "t0", 2) EXCEPT !.skipApprove = TRUE, !.deadline = 1, !.bps = 5000],
    MCJob("add", "t0", 3), [MCJob("add", "t0", 3) EXCEPT !.deadline = -1],
    [MCJob("add", "t1", 3) EXCEPT !.amount2 = 4], MCJob("remove", "lp", 2),
    MCJob("approve", "t0", 1), MCJob("transfer", "t1", 3), MCJob("transferFrom", "t0", 1),
    MCJob("mint", "t1", 1), MCJob("burn", "t0", 3),
    call, [call EXCEPT !.dryRun = TRUE], [call EXCEPT !.estimate = TRUE],
    [call EXCEPT !.dryRun = TRUE, !.estimate = TRUE], [call EXCEPT !.gasLimit = TRUE] }

MCLedgers ==
  {[reserve |-> [t \in PoolTokens |-> IF t = "t0" THEN 6 ELSE 8], supply |-> 6,
    owner |-> [t \in Tokens |-> 4], allowance |-> [t \in Tokens |-> IF t = "t0" THEN 1 ELSE 0]]}
Symmetry == Permutations(Commands)
=============================================================================
