SPECIFICATION Spec
CONSTANTS
    Interactive = TRUE
    Lines <- FlatLines
    Boot <- TargetBoot
    UserCommands <- NoCommands
    MaxCommands = 0
    MaxClicks = 1
    MaxToggles = 1
    MaxTasks = 2
    MaxWork = 1
INVARIANTS
    SleepIsAnnounced
CHECK_DEADLOCK FALSE
