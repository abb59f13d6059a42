SPECIFICATION RetrySpec
CONSTANTS
  Service = {s1, s2}
  Commands = {"deploy"}
  MaxId = 3
  MaxFaults = 2
  MaxCrashes = 1
  MaxWant = 1
  LossAllowed = TRUE
PROPERTY DeployRecovers
