SPECIFICATION Spec
CONSTANTS
    Proc = {p1, p2}
    Products <- MCProducts
    Rank <- MCRank
    FirstBuilds <- MCFirstBuilds
    Requests <- MCRequests
    MaxBuild = 1
    MaxCommands = 3
    MaxKills = 1
SYMMETRY Symmetry
INVARIANTS ListConsistent RecordedBinary InstallTruthful
PROPERTIES DefaultSurvives
