SPECIFICATION FairSpec
CONSTANTS
    Files = 1
    LoadsFail = FALSE
    MaxProjects = 2
    MaxCommands = 3
    MaxEvents = 3
PROPERTY ShutdownCompletes
CHECK_DEADLOCK FALSE
