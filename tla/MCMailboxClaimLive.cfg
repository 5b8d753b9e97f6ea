SPECIFICATION FairSpec
CONSTANTS
  Senders = {s1}
  Chains = {c1}
  Calls = {k1}
  MaxForeign = 0
  MaxLost = 0
  Invocations = {p1, p2}
  Requests <- MCLiveRequests
  Quotes <- MCLegacyQuotes
  EarlierClaims <- None
  LegacyClaims <- MCLegacy
PROPERTY
  CommandEnds
\* Commands end; nothing is left to do then.
CHECK_DEADLOCK FALSE
