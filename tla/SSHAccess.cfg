SPECIFICATION FairSpec
CONSTANTS
  Sessions = {s1}
  Keys = {k1, k2}
  None = none
  Faults = {"read", "write", "check", "restore", "restart", "helper", "session",
            "drift", "duplicate"}
  MaxFaults = 3
  Degraded = TRUE
  MaxCopies = 2
INVARIANT FilesTellTheTruth
PROPERTIES NeverLocksOut OperationsEnd
