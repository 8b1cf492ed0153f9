CONSTANTS
  MaxLogins = 2
  MaxMigrations = 1
  IsDefault = TRUE
  MaxCrashes = 1
  MaxFaults = 1
  Commands <- Switching
SPECIFICATION Spec
INVARIANT CredentialSurvives
