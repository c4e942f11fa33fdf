SPECIFICATION FairSpec
CONSTANTS
    Interactive = TRUE
    Lines <- FlatLines
    Boot <- ScriptBoot
    UserCommands <- Typed
    MaxCommands = 1
    MaxClicks = 2
    MaxToggles = 1
    MaxTasks = 2
    MaxWork = 1
INVARIANTS
    AssertsNeedUser
    SleepIsExplained
PROPERTIES
    AnalysisProceeds
    ScriptProceeds
CHECK_DEADLOCK FALSE
