SPECIFICATION Spec
CONSTANTS
  ExternalStatuses = {"CANCELLED"}
  MaxRevision = 2
  MaxReference = 1
  Extra = {"rollouts"}
  Quota <- Budget2
  Specs <- ReadAndSim
  AllowedTools = {"read", "sim", "write"}
  Policy <- MCPolicy
  Undelegated = FALSE
  Hooks = {"gate", "executor", "verifier", "ingestor", "reference_guard", "resolver"}
  Answers <- AllAnswers
  Refs <- MCRefs
  ContextRefs <- MCContextRefs
  WorkIds = {1, 2}
  Turns <- ToolTurns
  Outcomes <- MCOutcomes
  Metered = {FALSE}
  Faults = {}
INVARIANTS
  TypeOK
  BudgetRespected
  DispatchesAccounted
  ExecutingIsAuthorized
  KnownRefsSound
  LateWorkBounded
PROPERTIES
  WritesAreBound
  NoSilentTurn
