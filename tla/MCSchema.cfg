SPECIFICATION Spec
CONSTANTS
  MaxDouble = 3
  MaxPrinted = 5
  Length <- MCLength
  Patterns = {"a", "abc"}
  Overflowing = {"flood"}
  Found <- MCFound
  Json <- MCJson
  Height <- MCHeight
  Schemas <- MCSchemas
  Values <- MCValues
INVARIANTS
  DecidesByMeaning
  RaisesForCause
  OutputJudgeable
