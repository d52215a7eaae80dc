SPECIFICATION Spec
CONSTANTS
    Bytes = {"a", "nl", "nul"}
    LineTerm = "nl"
    Binary = "nul"
    Modes = {"none", "quit", "convert"}
    Allocations <- Strategies
    NoLimit = NoLimit
    MaxReaders = 2
    MaxInput = 3
    Inputs <- SmallInputs
INVARIANTS WindowExact LimitKept
