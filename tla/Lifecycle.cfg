SPECIFICATION MCSpec
CONSTANTS
  Networks = {"mainnet", "testnet4", "public-signet"}
  Mainnet = "mainnet"
  OrderedJournal = TRUE
  Records = 3
  MaxInterruptions = 4
  SeparateInterruptions = 1
INVARIANT NeverRefused
PROPERTIES AuthorityHolds Completes
