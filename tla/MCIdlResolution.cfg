\* Deadlock is off: processes end.
SPECIFICATION Spec
CONSTANTS
  load = load
  rival = rival
  user = user
  code = code
  Processes = {load, rival, user}
  Codes = {code}
  Methods = {"get", "put"}
  Assignments <- MCAssignments
  Caches <- MCCaches
  Sections <- MCSections
INVARIANTS TypeOK NeverBlocked
PROPERTIES ImportKept
CHECK_DEADLOCK FALSE
