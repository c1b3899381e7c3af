SPECIFICATION SpecOnce
CONSTANTS
    r1 = r1
    r2 = r2
    o1 = o1
    o2 = o2
    none = none
    NoValue = none
    Runs = {r1}
    Context <- OneRun
    Outcomes <- StartResults
    MaxAttempts = 3
    HistoryLimit = 3
    HumanReviewAfter = 2
    SystemicAfter = 3
    MaxRemediationDepth = 2
INVARIANTS
    LastAttemptReported
CHECK_DEADLOCK FALSE
