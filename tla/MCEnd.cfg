SPECIFICATION FairSpec
CONSTANTS
  ExternalStatuses = {"CANCELLED", "FAILED", "DONE"}
  MaxRevision = 2
  MaxReference = 1
  Extra = {"rollouts"}
  Quota <- Budget2
  Specs <- ReadAndWrite
  AllowedTools = {"read", "sim", "write"}
  Policy <- MCPolicy
  Undelegated = FALSE
  Hooks = {"gate", "executor", "verifier", "ingestor", "approval", "reference_guard", "resolver"}
  Answers <- AllAnswers
  Refs <- MCRefs
  ContextRefs <- MCContextRefs
  WorkIds = {1, 2}
  Turns <- EndTurns
  Outcomes <- PlainOutcomes
  Metered = {TRUE, FALSE}
  Faults = {"PROVIDER", "GUARD", "STORE", "ACCESS"}
INVARIANTS
  ResultMatchesStore
  ResultExplained
PROPERTIES
  Termination
  RunAdvances
