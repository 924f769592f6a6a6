SPECIFICATION Spec
CONSTANTS
    Slots = {s1, s2, s3}
    Sections = {"channels", "onchain", "system", "addons"}
    Kinds = {"wallet", "autoUnlock", "p2p", "update", "install", "sshKeys", "sshKey", "pwAuth", "password", "sshAdd", "syncthing", "pair", "device"}
    Menus = {{"wallet", "autoUnlock"}, {"p2p", "install"}, {"p2p", "autoUnlock"}, {"sshKeys", "sshKey"}, {"sshKeys", "pwAuth", "password", "sshAdd", "update"}, {"install", "syncthing", "pair", "device"}}
    Rows = {1, 2}
    MaxEmitted = 0
    MaxCalls = 2
    Faults = {"lost"}
    NoSlot = NoSlot
    s1 = s1
    s2 = s2
    s3 = s3
INVARIANT ShownIsTrue
PROPERTIES AnswersReachTheirScreen BusyScreensEnd WalletIsNoticed
CONSTRAINT Explored
CHECK_DEADLOCK FALSE
