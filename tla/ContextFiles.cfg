CONSTANTS
  c1 = c1
  c2 = c2
  c3 = c3
  Nobody = Nobody
  NoText = NoText
  Calls = {c1, c2, c3}
  Slugs = {"a", "b"}
  Seconds = {1, 2}
  MaxNumber = 3
  MaxAttempts = 2
  MaxFaults = 1
  MaxMoves = 1
  Packages <- Finished
  Scenarios <- EveryScenario
  Versions = {"v1", "v2"}
  MaxChanges = 1
  Patterns <- Dollars
  Headers <- HeaderRows
  Wordings <- Phrases
SPECIFICATION Spec
INVARIANTS
  SpecNumbersAreUnique
  OnlyFaultsLeaveDebris
  ImportLeavesATrail
  NotesStay
  ConfirmedRowsStay
  BuiltIsUpToDate
PROPERTIES
  FilesStayTheirAuthors
  EveryScriptEnds
