CONSTANTS
    e1 = e1
    e2 = e2
    x = x
    y = y
    a1 = a1
    a2 = a2
    nobody = nobody
    Entries <- MCEntries
    Names <- MCNames
    Lists <- MCLists
    Accounts <- MCAccounts
    Line <- MCLine
    Slots = 2
    Tries = 2
    Nobody = nobody
    MaxRuns = 2
SPECIFICATION Spec
INVARIANTS BurnsAreSaved
CHECK_DEADLOCK FALSE
