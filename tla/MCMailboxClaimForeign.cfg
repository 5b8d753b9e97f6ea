SPECIFICATION Spec
CONSTANTS
  Senders = {s1}
  Chains = {c1}
  Calls = {k1}
  MaxForeign = 1
  MaxLost = 0
  Invocations = {p1}
  Requests <- MCRequests
  Quotes <- MCQuotes
  EarlierClaims <- MCEarlier
  LegacyClaims <- None
INVARIANT
  ConfirmedMeansAccepted
SYMMETRY Symmetry
\* Commands end; nothing is left to do then.
CHECK_DEADLOCK FALSE
