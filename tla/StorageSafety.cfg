CONSTANTS
  MaxLogins = 2
  MaxMigrations = 2
  IsDefault = TRUE
  MaxCrashes = 2
  MaxFaults = 1
  Commands <- AllCommands
SPECIFICATION Spec
INVARIANT SurvivesOneKind
INVARIANT CommittedMeansSealed
INVARIANT NeverServesStale
INVARIANT KeyOpensCiphertext
INVARIANT ServesNewestLogin
INVARIANT NoPlaintextWhenProtected
PROPERTY DiscardsOnlyCopies
CONSTRAINT FewDisturbances
