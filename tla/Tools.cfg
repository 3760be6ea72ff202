SPECIFICATION Spec
CONSTANTS
    Features = {"redis", "google"}
    Editable = {"handler/user", "entity"}
    Names = {a, b}
    MaxClock = 4
    MaxCommands = 3
    MaxFaults = 1
    Migrators = {m1, m2}
SYMMETRY Symmetric
INVARIANTS TargetsAreBacked AddCompletesTheFeature SchemaMatchesVersion
PROPERTIES EditedFilesSurvive
CHECK_DEADLOCK FALSE
