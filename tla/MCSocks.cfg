CONSTANTS
    DomainLengths <- MCDomainLengths
SPECIFICATION FairSpec
INVARIANTS StreamAligned TunnelIsGranted
PROPERTIES KeepsPromise DialEnds
CHECK_DEADLOCK FALSE
