SPECIFICATION FairSpec
CONSTANTS
  Slots = {1, 2}
  Sections = {"channels", "wallet", "onchain"}
  Kinds = {"send", "onchain"}
  Rows = {1}
  MaxEmitted = 1
  Invoices = {v1, v2}
  Coins = {c1}
  Attempts = {1, 2}
INVARIANTS ReviewIsOwn SubmittedHasAnswer
PROPERTIES BusyKeepsItsTab SentAsSelected MoneyEnds
