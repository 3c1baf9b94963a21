SPECIFICATION Spec
CONSTANTS
  N = 4
  Concurrency = 2
INVARIANTS
  TypeOK
  PermitsConserved
  NoFalsePositive
  JoinsAccounted
  LostOnlyToFaults
PROPERTIES
  Termination
  ImplementsSpec
