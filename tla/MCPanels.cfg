SPECIFICATION Spec
CONSTANTS
    None = None
    Null = Null
    HISTORY_LEN = 2
    MaxTicks = 3
    Databases <- MCDatabases
    Edits <- MCEdits
CHECK_DEADLOCK FALSE
INVARIANTS
    CriticalIsVisible
    AlertCellAlarmsRow
    CalmStripHides
    SummariesMatchRows
    GridIsANamesakes
    
    HistoryIsRecent
    FullBarIsCritical
    TintIsSeverity
