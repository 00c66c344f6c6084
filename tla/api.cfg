SPECIFICATION APISpec
CONSTANTS
    None = None
    IllFormed = IllFormed
    DefaultGateway = "openfunction"
    WasmVariant = "compat-smart"
    Percentages <- MCPercentages
    Functions1 <- MCFunctions1
    Functions2 <- MCSent2
    HookEdits <- MCHookEdits
    Statuses <- MCStatuses
    Configs <- MCConfigs
    ExistingComponents <- MCExisting
INVARIANTS
    Defaulted
    SettledInSpoke
    WritableBack
    SameComponents
    SameHooks
PROPERTIES
    TouchRollsNothingOut
    RecordsSurvive
