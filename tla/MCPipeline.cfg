CONSTANTS
    a = a
    b = b
    c = c
    Idle = Idle
    Gone = Gone
    Names = {a, b, c}
    Workers = {w1, w2}
    Invalid = {c}
    Starts <- MCStarts
    EditLists <- MCEditLists
    MaxEdits = 1
    CountCap = 2
SPECIFICATION FairSpec
INVARIANTS LiveNeverOver FoundOnce SinglePassExact
PROPERTIES RunEnds EveryWatchedNameAsked
