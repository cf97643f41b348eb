SPECIFICATION Spec
CONSTANTS
  Names = {"a", "b"}
  Secrets = {"p", "q"}
  MaxFaults = 2
INVARIANT UpdatesBlockedAtPlan
