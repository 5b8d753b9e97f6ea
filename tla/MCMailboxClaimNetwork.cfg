SPECIFICATION Spec
CONSTANTS
  Senders = {s1}
  Chains = {c1, c2}
  Calls = {k1}
  MaxForeign = 0
  MaxLost = 0
  Invocations = {p1, p2}
  Requests <- MCRequests
  Quotes <- MCQuotes
  EarlierClaims <- MCEarlier
  LegacyClaims <- None
INVARIANT
  WrittenOffNonceUsed
SYMMETRY Symmetry
\* Commands end; nothing is left to do then.
CHECK_DEADLOCK FALSE
