SPECIFICATION Spec
CONSTANTS
  Publishers = {p1, p2}
  Service = p1
  Rewrites = {"swap", "inplace"}
  MaxVersion = 2
  MaxFaults = 1
  Requests = {r1, r2}
  Devices = {d1, d2}
  MaxTroubles = 2
INVARIANTS ExportExisted AnsweredIsDurable QuietIsCurrent PairedIsShared
PROPERTY ExportOnlyImproves
SYMMETRY Alike
CONSTRAINT Explored
CHECK_DEADLOCK FALSE
