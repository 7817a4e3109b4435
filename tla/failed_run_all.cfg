SPECIFICATION Spec
CONSTANTS
    s1 = s1
    scoped = scoped
    Drives = {a, b}
    None = None
    Sections = {s1, s2}
    Tools = {scoped, broad}
    Needs <- MCNeeds
    Invalidates <- MCInvalidates
    Targeted = {scoped}
    ShellClasses <- MCShellClasses
    MaxTurns = 4
PROPERTY FailedRunAllClosesGates
