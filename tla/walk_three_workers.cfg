SPECIFICATION Spec
CONSTANTS
    Threads = 3
    absent = absent  top = top  sealed = sealed  sub = sub  inner = inner
    deep = deep  odd = odd  broken = broken  unwanted = unwanted
    Entries = {top, sealed, sub, inner, deep, odd, broken, unwanted}
    Dirs = {top, sealed, sub, inner, odd}
    Roots <- TheRoots
    BadRoots = {absent}
    Children <- TheChildren
    Depth <- TheDepth
    MinDepth = 1
    MaxDepth = 2
    Ignored = {unwanted}
    BadEntries = {broken}
    ParentErr = {top}
    DeviceErr = {odd}
    OffDevice = {}
    Unreadable = {sealed}
    VisitorResults = {"Continue", "Skip", "Quit"}
    Quit = Quit
INVARIANTS TypeOK VisitedAtMostOnce ActiveWorkersExact EveryErrorReported NoStrandedWork
PROPERTIES NoWorkAfterQuit ImplementsTreeWalk
