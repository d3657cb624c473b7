SPECIFICATION Spec
CONSTANTS
  Granted = {"READ", "MUTATE", "ADMIN"}
  Tags = {"lab"}
  Tools = {"read", "write"}
  Simulated = {"rollouts", "steps"}
  MaxDepth = 3
INVARIANTS
  NeverWidens
  OwnListDecides
