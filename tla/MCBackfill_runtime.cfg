CONSTANTS
    p1 = p1
    p2 = p2
    s1 = s1
    s2 = s2
    s3 = s3
    j1 = j1
    j2 = j2
    t1 = t1
    t2 = t2
    Pods = {p1, p2}
    SessionsOf <- MCSessionsOf
    Strict = {p2}
    Entities <- MCEntities
    Databases <- MCDatabases
    Conforming <- MCConforming
    Critical = {"drivers", "zones"}
    Watched = {p1}
    MaxFaults = 1
    MaxHolds = 2
    MaxAnalyses = 3
    MaxMigrations = 1
    JobIds <- MCJobIds
    Kind <- MCKind
    Workloads <- MCWorkloads
    BatchSizes = {1}
    TicksOf <- MCTicksOf
    Asked = {p1}
    MaxConcurrent = 2
    MaxRetries = 2
    SaveEvery = 2
    MaxOperations = 2
SPECIFICATION Spec
CHECK_DEADLOCK FALSE
INVARIANTS
    LocksExclude
    OneLoopPerJob
    ReadyWasConverted
    DriftIsReported
