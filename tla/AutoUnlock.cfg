SPECIFICATION FairSpec
CONSTANT MaxDisturbances = 5
INVARIANTS NoRestartLoop NeverStranded OutcomeHolds
PROPERTIES RemovedOnlyWhenUnused RetryConverges
