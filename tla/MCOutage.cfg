SPECIFICATION FairSpec
CONSTANTS
  ExternalStatuses = {"CANCELLED"}
  MaxRevision = 0
  MaxReference = 0
  Extra = {"rollouts"}
  Quota <- Budget1
  Specs <- ReadAndSim
  AllowedTools = {"read", "sim", "write"}
  Policy <- MCPolicy
  Undelegated = FALSE
  Hooks = {"gate", "executor", "verifier", "ingestor", "approval", "reference_guard", "resolver"}
  Answers <- AllAnswers
  Refs <- MCRefs
  ContextRefs <- MCContextRefs
  WorkIds = {1, 2}
  Turns <- FinishTurns
  Outcomes <- PlainOutcomes
  Metered = {FALSE}
  Faults = {"ACCESS"}
PROPERTIES
  PersistenceFailureReturns
