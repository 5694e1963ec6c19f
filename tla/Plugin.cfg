SPECIFICATION FairSpec
CONSTANTS
    p1 = p1
    p2 = p2
    codelist = codelist
    a1 = a1
    a2 = a2
    Pids <- MCPids
    NoPid = NoPid
    Lists <- MCLists
    NoList = NoList
    ListSize <- MCListSize
    HeapAddrs <- MCHeapAddrs
    NoAddr = NoAddr
    HeapSize = 4
    AllocMayFail = TRUE
    CheckTurnoffDelayMax = 1
    DexAvail = FALSE
    CcapiAvail = TRUE
INVARIANTS
    TypeOK
    HeapLedger
    CodesMapped
    NoCrash
    StoppedClean
PROPERTIES
    ImplementsSession
    ActivationFresh
    
    StopReturns
    TurnoffDetaches
    StartActivates
