CONSTANTS
  HasTpm = TRUE
  MaxPcr = 1
  MaxFaults = 3
SPECIFICATION FairSpec
INVARIANTS TypeOK SealedAtRest
PROPERTIES DataSurvives FirstBootProvisions ProvisionedComesBack
