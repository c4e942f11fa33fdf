SPECIFICATION FairSpec
CONSTANTS
    Interactive = FALSE
    Lines <- FlatLines
    Boot <- ScriptBoot
    UserCommands <- NoCommands
    MaxCommands = 0
    MaxClicks = 0
    MaxToggles = 0
    MaxTasks = 3
    MaxWork = 6
INVARIANTS
    TypeOK
    AllAsserts
    OneStepAtATime
    ScriptWaits
    ExitsClean
PROPERTIES
    Exits
CHECK_DEADLOCK FALSE
