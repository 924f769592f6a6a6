SPECIFICATION Spec
CONSTANTS
    Slots = {c1, c2}
    NoSlot = none
    Verbs = {"p2p", "selfUpdate", "restart", "packages", "reboot", "read"}
    MaxRequests = 2
    MaxFaults = 1
    MaxCerts = 1
INVARIANTS PublishedIsServed NewestServes
PROPERTIES KeepsItsPromises RequestsEnd ClientSettles
CHECK_DEADLOCK FALSE
