--------------------------- MODULE MCVaraEthCommand ---------------------------
(* Every command, and a Sails call with every combination of its options. *)
EXTENDS VaraEthCommand

MCJob(kind) ==
  [kind |-> kind, via |-> "eth", submitted |-> FALSE, raw |-> FALSE, dryRun |-> FALSE, estimate |-> FALSE,
   idl |-> FALSE, query |-> FALSE, init |-> FALSE, funded |-> FALSE]

MCCalls ==
  {[MCJob("call") EXCEPT !.via = v, !.submitted = s, !.dryRun = d, !.estimate = e, !.idl = i, !.query = q] :
     v \in {"eth", "injected"}, s \in BOOLEAN, d \in BOOLEAN, e \in BOOLEAN, i \in BOOLEAN, q \in BOOLEAN}
MCSends ==
  {[MCJob(kind) EXCEPT !.via = v, !.submitted = s] :
     kind \in {"send", "reply", "approve", "permit"}, v \in {"eth", "injected"}, s \in BOOLEAN}
MCTransfers == {[MCJob("transfer") EXCEPT !.submitted = s, !.raw = r] : s \in BOOLEAN, r \in BOOLEAN}
MCDeployments ==
  {[MCJob(kind) EXCEPT !.dryRun = d, !.init = i, !.funded = f] :
     kind \in {"upload", "deploy"}, d \in BOOLEAN, i \in BOOLEAN, f \in BOOLEAN}
MCJobs ==
  MCCalls \cup MCSends \cup MCTransfers \cup MCDeployments
    \cup {MCJob(kind) : kind \in {"balance", "state", "discover", "info", "list", "topUp", "recover", "session",
                            "tokenBalance"}}
===============================================================================
