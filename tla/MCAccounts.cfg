SPECIFICATION MCLiveSpec
CONSTANTS
  Names = {"a", "b"}
  Secrets = {"p", "q"}
  MaxFaults = 2
INVARIANT TypeOK
PROPERTIES
  PasswordOnlyOnRotation
  OriginalIsNeverTouched
  PreviewIsSent
  Recovers
  Bootstraps
