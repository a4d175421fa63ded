SPECIFICATION Spec
CONSTANTS
  Requests = {r1}
  Names = {"m", "n"}
  Groups = {"g"}
  NoGroup = "none"
  MaxDefinitions = 2
  MaxOrder = 2
  Budget = 1
  MaxTime = 1
INVARIANTS
  OneRecordPerRequest
  GatesBeforeSql
  AfterAlwaysRuns
  RunsInOrder
