SPECIFICATION CreateSpec
CONSTANTS
  Vpcs <- MCVpcs
  Sizes <- MCSizes
  AzLists <- MCAzLists
  MaxPools = 2
  Others <- MCOthers
  NoNat = NoNat
  NoFile = NoFile
INVARIANTS
  TypeOK
  ProposalFits
  ProposalIsValid
PROPERTIES
  LargestThatFits
  CreateEnds
