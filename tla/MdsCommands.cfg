CONSTANTS
    Proc = {p1, p2}
    Retries = 1
    MaxCommands = 2
    MaxFiles = 1
    Bits = 4
    GiB = 2
    Capacity = {0, 2, 8}
SPECIFICATION Spec
SYMMETRY Symmetry
INVARIANTS ReportTruthful UsageExact LimitAsAsked
