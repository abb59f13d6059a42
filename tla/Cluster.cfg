SPECIFICATION ClusterSpec
CONSTANTS
  Topologies <- Mixes
  Commands <- AllCommands
  MaxGiven = 3
  MaxFaults = 1
INVARIANTS StartsAll OneByOne CommittedNeverPanics
PROPERTY StartOrder
