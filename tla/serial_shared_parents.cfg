SPECIFICATION Spec
CONSTANTS
    Cwd <- W
    HiddenNames <- Dotted
    NoPath = NoPath
    Tree <- TheTree
    Dirs <- TheDirs
    Stdin <- Dash
    Trouble = "?"
    Configs <- SharedParents
INVARIANT VerdictExact
