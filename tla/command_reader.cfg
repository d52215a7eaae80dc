SPECIFICATION Spec
CONSTANTS
    Capacity = 1
    MaxScript = 4
    Setups <- SafeSetups
INVARIANTS FailuresExact ChildReaped OutputComplete
PROPERTIES SearchReturns
