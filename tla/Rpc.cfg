CONSTANTS
    Goroutine = {"g1", "g2", "g3"}
    Address = {"a1", "a2"}
    Retries = 1
    Addrs <- MCAddrs
SPECIFICATION Spec
INVARIANT ConnExclusive
PROPERTY ImplementsCall
