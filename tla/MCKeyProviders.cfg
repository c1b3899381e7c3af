SPECIFICATION FairSpec
CONSTANTS
    c1 = c1
    c2 = c2
    r1 = r1
    r2 = r2
    none = none
    NoName = none
    NoProvider = none
    Calls = {c1}
    Providers <- MCProviders
    Modes = {"wrapped", "release"}
    References = {r1, r2}
    RequestSizes = {1, 3}
    PipeCapacity = 1
    MaxRegistrations = 2
INVARIANTS
    TypeOK
    KeyFromServingProvider
    ProcessesReaped
    AnswersAreTaken
    BlockedByLargeRequestOnly
PROPERTIES
    ResolutionsEnd
    ImplementsService
CHECK_DEADLOCK FALSE
