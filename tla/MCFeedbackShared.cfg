SPECIFICATION Spec
CONSTANTS
    r1 = r1
    r2 = r2
    o1 = o1
    o2 = o2
    none = none
    NoValue = none
    Runs = {r1, r2}
    Context <- TwoPullRequests
    Outcomes <- Results
    MaxAttempts = 2
    HistoryLimit = 4
    HumanReviewAfter = 3
    SystemicAfter = 4
    MaxRemediationDepth = 2
INVARIANTS
    ResolvedByMatchingSuccess
    EligibilityWithdrawn
PROPERTIES
    AutonomyNeverRegained
