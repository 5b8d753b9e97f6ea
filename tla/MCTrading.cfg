\* Deadlock is off: commands end.
SPECIFICATION Spec
CONSTANTS
  Commands = {c1, c2}
  Jobs <- MCJobs
  Ledgers <- MCLedgers
  ZeroFirst = {"t0", "lp"}
  DefaultDeadline = 2
  Expiry = 1
  MaxTime = 2
  MaxTrades = 1
INVARIANTS TypeOK ApprovalsSuffice PreviewsSendNothing
PROPERTIES QuoteHonoured QuoteStands
SYMMETRY Symmetry
CHECK_DEADLOCK FALSE
