SPECIFICATION Spec
CONSTANTS
  ExternalStatuses = {"CANCELLED"}
  MaxRevision = 1
  MaxReference = 2
  Extra = {"rollouts"}
  Quota <- Budget3
  Specs <- AllTools
  AllowedTools = {"read", "sim", "write"}
  Policy <- MCPolicy
  Undelegated = FALSE
  Hooks = {"gate", "executor", "verifier", "ingestor", "approval", "reference_guard", "resolver"}
  Answers <- SoundAnswers
  Refs <- MCRefs
  ContextRefs <- MCContextRefs
  WorkIds = {1, 2, 3}
  Turns <- ContractTurns
  Outcomes <- PlainOutcomes
  Metered = {FALSE}
  Faults = {"PROJECTION", "PROVIDER", "GUARD", "ACCESS"}
INVARIANTS
  ExecutingIsAuthorized
  BatchReservationHolds
  DependenciesDecide
  WaveOrder
PROPERTIES
  ImplementsContract
  ReferenceDiscipline
  ResultsSettled
  OverdraftBlocksBatches
