SPECIFICATION Spec
CONSTANTS
    Slots = {s1, s2}
    Sections = {"channels", "system"}
    Kinds = {"p2p", "update"}
    Menus = {{"p2p", "update"}}
    Rows = {}
    MaxEmitted = 0
    MaxCalls = 2
    Faults = {}
    NoSlot = NoSlot
    s1 = s1
    s2 = s2
PROPERTY BusyScreensEnd
CHECK_DEADLOCK FALSE
