\* Both platforms; taskkill is slow, late or fails, a kill may be refused, and the
\* store may throw.
CONSTANTS
    None = None
    OutputLimit = 2
    ReadChars = 2
    MaxWritten = 2
    MaxKills = 2
    Platforms = {"windows", "posix"}
    KillMayFail = TRUE
    KillMayError = TRUE
    StoreMayFail = TRUE
SPECIFICATION FairSpec
INVARIANTS
    TypeOK
    OutputAccounted
    FailuresAreReported
PROPERTIES
    ImplementsChildRun
    EofIsFinal
    Completes
CHECK_DEADLOCK FALSE
