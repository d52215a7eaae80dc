SPECIFICATION Spec
CONSTANTS
    Capacity = 1
    MaxScript = 3
    Setups <- DefaultSetups
PROPERTIES DefaultNeverDeadlocks
CHECK_DEADLOCK FALSE
