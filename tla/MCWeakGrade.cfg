SPECIFICATION Spec
CONSTANTS
  Chains <- MCChains
  Moments <- MCMoments
  MaxProtocols = 2
  MaxSuites = 2
CHECK_DEADLOCK FALSE
INVARIANTS
  WeakIsAtBestC
