SPECIFICATION Spec
CONSTANTS
    Number <- MCNumber
    Invalid = {"bad"}
    Groups <- MCGroups
    Environments <- MCEnvironments
    PatternFiles <- MCPatternFiles
    Directories = {"dir", "./"}
    RegularFiles = {"x"}
    FileTypes = {"1", "rust"}
    Definitions <- MCDefinitions
    Cores = 16
INVARIANTS OverridesExact NeverBoth StdinReadOnce
