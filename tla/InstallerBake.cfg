SPECIFICATION Spec
CONSTANTS
  Steps <- buildInstallSteps
  Identity = "identity.access"
  SSHKeys = {k1, k2}
  Full = 2
  StallWindow = 2
  Ceiling = 3
  ProbeAttempts = 2
  OperatorInTUI = FALSE
  MaxStops = 0
  MaxPowerLosses = 0
INVARIANT StepsFindTheirNeeds
