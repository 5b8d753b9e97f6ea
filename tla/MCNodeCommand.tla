--------------------------- MODULE MCNodeCommand ---------------------------
(* A command of every kind beside a query or metadata clear, which share its cache. *)
EXTENDS NodeCommand

CONSTANTS main, side

MCJob(kind) == [kind |-> kind, dryRun |-> FALSE, gasLimit |-> FALSE, voucher |-> FALSE,
                toUser |-> FALSE, noRetry |-> FALSE]
MCMain ==
  {MCJob(kind) : kind \in {"deploy", "issue", "tx", "transferAll", "faucet"}}
    \cup {[MCJob("upload") EXCEPT !.dryRun = TRUE], [MCJob("reply") EXCEPT !.voucher = TRUE],
          [MCJob("send") EXCEPT !.toUser = TRUE], [MCJob("code") EXCEPT !.voucher = TRUE]}
MCSide == {[MCJob("query") EXCEPT !.noRetry = TRUE], MCJob("clear")}
MCAssignments == {[p \in Processes |-> IF p = main THEN m ELSE s] : m \in MCMain, s \in MCSide}

\* Nothing, an entry that decodes or one that does not, and one damaged on disk.
Entry(n, content, mtime) == [key |-> <<Chain, n>>, content |-> content, mtime |-> mtime]
MCCaches == {{}, {Entry(1, "torn", 1), Entry(0, "corrupt", 2)}, {Entry(0, "good", 1)}}
=============================================================================
