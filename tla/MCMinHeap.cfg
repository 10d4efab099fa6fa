SPECIFICATION FairSpec
CONSTANTS
    Keys = {1, 2, 3}
    maxCnt = 6
    None = None
INVARIANTS HeapOrder
PROPERTIES ImplementsQueue ShortPopReturns
