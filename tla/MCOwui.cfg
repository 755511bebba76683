CONSTANTS
  Names <- MCNames
  Registries <- MCRegistries
  NoModel = NoModel
  Filters <- MCFilters
  RetiredFilter = "enable_extended_thinking"
  InitialSaved <- MCInitialSaved
  Embedding = TRUE
  BackendIsValid = TRUE
  AdminIds = {"a"}
  MaxFaults = 1
SPECIFICATION OwuiSpec
INVARIANTS LoadedPairIsAPolicy
PROPERTIES ReadyIsInPolicy DeletedWasBackedUp ForeignKept StackConverges
CHECK_DEADLOCK FALSE
