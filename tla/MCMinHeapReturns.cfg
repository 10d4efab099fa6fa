SPECIFICATION FairSpec
CONSTANTS
    Keys = {1, 2, 3}
    maxCnt = 3
    None = None
PROPERTY PopReturns
