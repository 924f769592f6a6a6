SPECIFICATION Spec
CONSTANTS
  Slots = {1, 2, 3}
  Sections = {"channels", "addons"}
  Kinds = {"channel", "open", "syncthing", "webui"}
  Rows = {0, 1}
  MaxEmitted = 1
  Invoices = {}
  Coins = {}
  Attempts = {1, 2}
INVARIANT TabsHold
PROPERTIES MemoryKeepsItsTab OpensTheChannel
