SPECIFICATION Spec
CONSTANTS
    t1 = t1
    t2 = t2
    h1 = h1
    a1 = a1
    a2 = a2
    none = none
    Null = none
    Threads = {t1, t2}
    Functions <- MCFunctions
    KeyInputs <- MCKeyInputs
    Options <- MCOptions
    ClientIds = {h1}
    Addresses = {a1, a2}
SYMMETRY Symmetry
INVARIANTS
    TypeOK
    MessageNamesCause
    PerformedAsAsked
    StringsHandedOnce
    ClientsComplete
CHECK_DEADLOCK FALSE
