SPECIFICATION Spec
CONSTANTS
  Service = {s1, s2}
  Commands = {"deploy", "stop", "upgrade", "clean", "start", "restart", "status"}
  MaxId = 3
  MaxFaults = 1
  MaxCrashes = 1
  MaxWant = 2
  LossAllowed = TRUE
SYMMETRY Symmetry
INVARIANTS RowNamesContainer CommandsTruthful
PROPERTY DataKept
