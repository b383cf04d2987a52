SPECIFICATION FairSpec
CONSTANTS
    edit = edit
    bash = bash
    typo = typo
    Kind = {edit, bash, typo}
    ConcurrencySafe = {bash, typo}
    Bash = {bash}
    Cancelable = {bash}
    Unknown = {typo}
    MaxTools = 3
INVARIANTS
    TypeOK
    ExclusiveAccess
    StartedInOrder
    NotOvertaken
    CancelledForCause
PROPERTIES
    QueuedToolStarts
    RemainingResultsReturn
CHECK_DEADLOCK FALSE
