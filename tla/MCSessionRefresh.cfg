SPECIFICATION RefreshSpec
CONSTANTS
    r1 = r1
    r2 = r2
    r3 = r3
    Refreshes = {r1, r2, r3}
    MaxVersion = 4
INVARIANT OverlappingRefreshesSucceed
