SPECIFICATION FairSpec
CONSTANTS
    edit = edit
    bash = bash
    typo = typo
    Kind = {edit, bash, typo}
    ConcurrencySafe = {bash, typo}
    Bash = {bash}
    Cancelable = {bash}
    Unknown = {typo}
    MaxTools = 2
PROPERTY ResultsAlwaysReturn
CHECK_DEADLOCK FALSE
