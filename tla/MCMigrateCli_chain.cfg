SPECIFICATION CliSpec
CONSTANTS
    o1 = o1
    o2 = o2
    Operators = {o1, o2}
    Installations <- MCInstallations
    MaxCommands = 2
    MaxCrashes = 1
INVARIANTS
    
    OneRun
    RehearsedApplies
    OrderIdsSurvive
CHECK_DEADLOCK FALSE
