SPECIFICATION Spec
CONSTANTS
  ExternalStatuses = {}
  MaxRevision = 0
  MaxReference = 2
  Extra = {"rollouts"}
  Quota <- Budget1
  Specs <- OnlyWrite
  AllowedTools = {"read", "sim", "write"}
  Policy <- MCPolicy
  Undelegated = FALSE
  Hooks = {"gate", "executor", "verifier", "ingestor", "approval", "reference_guard", "resolver"}
  Answers <- AllAnswers
  Refs <- MCRefs
  ContextRefs <- MCContextRefs
  WorkIds = {1}
  Turns <- WriteTurns
  Outcomes <- PlainOutcomes
  Metered = {FALSE}
  Faults = {}
PROPERTIES
  MutateAppliedAsValidated
