SPECIFICATION FairSpec
CONSTANTS
  MaxListed = 5
  Workers = 2
  ImageOf <- MCImageOf
  ConfigUser <- MCConfigUser
  ImageUser <- MCImageUser
  InspectFails = TRUE
INVARIANTS
  TypeOK PoolBound AsksBounded RootOnlyIfSo SameAsSequential
PROPERTIES
  KeepsPromise
