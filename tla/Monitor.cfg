CONSTANTS
  Host = {h1, h2}
  Home = h1
  Port <- MCPort
  Yaml <- MCYaml
  MaxPlayed = 3
  MaxMishaps = 1
SPECIFICATION MonitorSpec
INVARIANTS StoredParses DeployWired 

