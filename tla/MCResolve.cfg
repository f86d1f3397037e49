CONSTANTS
    w1 = w1
    w2 = w2
    a = a
    b = b
    id1 = id1
    id2 = id2
    comment = comment
    nobody = nobody
    Names <- MCNames
    Ids <- MCIds
    Comment = comment
    None = nobody
    Workers <- MCWorkers
    Threads <- MCThreads
    Lists <- MCLists
    Holders <- MCHolders
    MaxSaves = 1
    MaxMoves = 1
    MaxRuns = 2
    MaxUnwritten = 1
SPECIFICATION FairSpec
INVARIANTS RightIds ListSurvives AnswersKept
PROPERTIES KnownIdsStay ResolveEnds
CHECK_DEADLOCK FALSE
