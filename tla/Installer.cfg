SPECIFICATION FairSpec
CONSTANTS
  Steps <- buildInstallSteps
  Identity = "identity.access"
  SSHKeys = {k1, k2}
  Full = 2
  StallWindow = 2
  Ceiling = 3
  ProbeAttempts = 2
  OperatorInTUI = TRUE
  MaxStops = 2
  MaxPowerLosses = 1
INVARIANTS LedgerIsValid DeployedStepsFindTheirNeeds HardenedBehindAWayIn
           CompletedIsDelivered UnseenIsPending PrintedWorks
PROPERTY CompletesKnown
