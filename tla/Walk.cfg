SPECIFICATION FairSpec
CONSTANTS
    Dirs = {"r", "a", "b", "c"}
    Files = {"f", "g", "h", "new"}
    Root = "r"
    Parent <- MCParent
    Regular = {"f", "h", "new"}
    Inode <- MCInode
    Length <- MCLength
    Late = {"new"}
    Commands = {"delete", "quota", "check"}
    ThreadCounts = {0, 1, 2}
INVARIANTS ThreadsRespected EmptyBeforeRmdir ErrorNotLost DeleteTruthful SummaryTruthful
PROPERTIES Termination
