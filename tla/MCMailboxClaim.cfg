SPECIFICATION Spec
CONSTANTS
  Senders = {s1}
  Chains = {c1, c2}
  Calls = {k1}
  MaxForeign = 0
  MaxLost = 1
  Invocations = {p1, p2}
  Requests <- MCRequests
  Quotes <- MCQuotes
  EarlierClaims <- MCEarlier
  LegacyClaims <- None
INVARIANTS
  TypeOK
  SettledTruth
  LinkedSameClaim
  NoDoubleClaim
  ReplacementOutbids
  BumpClearsNode
PROPERTY
  JournalLifecycle
SYMMETRY Symmetry
\* Commands end; nothing is left to do then.
CHECK_DEADLOCK FALSE
