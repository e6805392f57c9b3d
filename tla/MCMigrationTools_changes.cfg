SPECIFICATION ToolsSpec
CONSTANTS
    m1 = m1
    Migrations = {m1}
    MaxChanges = 2
    MaxPlans = 1
    MaxClock = 2
    TableSize <- MCTableSize
    Changes <- MCChanges
    BaseDb <- MCBaseDb
    EntityChanges <- MCEntityChanges
    MaxGenerated = 3
    RequiredCols <- MCRequiredCols
    EnumIndexes <- MCEnumIndexes
    IntentBase <- MCIntentBase
    IntentFiles <- MCIntentFiles
INVARIANTS
    DataSurvives
    AcceptedKeepsData
    ExecutedWasRehearsed
    AcceptedIntentKeepsData
    GeneratedDoesTheDiff
