SPECIFICATION Spec
CONSTANTS
    Configs <- MCConfigs
    Haystacks <- MCHaystacks
    NumFiles = 2
    MaxCalls = 2
INVARIANTS StandardLayout JSONMessages StatsExact ResultShown
