SPECIFICATION FairSpec
CONSTANTS
  MaxTasks = 3
  Ptids = {p1, p2}
  StepN <- Steps
  PostN <- PostSteps
  Concurrencies = {0, 1}
INVARIANTS ConcurrencyRespected ErrorReported BarsTruthful
PROPERTIES ImplementsExecute Termination
