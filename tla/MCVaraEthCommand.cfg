\* Deadlock is off: a command ends.
SPECIFICATION Spec
CONSTANTS
  Jobs <- MCJobs
INVARIANTS CallPlanned SocketReleased ReportTruth
CHECK_DEADLOCK FALSE
