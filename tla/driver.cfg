SPECIFICATION Spec
CONSTANTS
  Documents <- SomeDocuments
  Allowdirs <- OneDirectory
  Sources = {"good", "changed"}
  Descriptors = {"e1", "e2"}
  Events <- SomeEvents
  Filters <- SomeFilters
  Engine <- Limits
  Window = 2
  MaxTime = 5
  MaxDropped = 1
INVARIANTS SandboxPresent FaultBudget  ScriptAllowed BurstBound
PROPERTIES QuarantineIsFinal FiltersOnlyNarrow
