SPECIFICATION Spec
CONSTANTS
  Chosen = 2
  Instances = {"tg-spam", "mine"}
  Keys = {"first", "second"}
  NoKey = "none"
  Options <- MCOptions
  Forms <- MCForms
  Blobs <- MCBlobs
  NoRow = NoRow
  NotRunning = NotRunning
  MaxGenerated = 2
INVARIANTS TypeOK OpenOnlyOnPurpose CredentialHolds SecretsAreSafe SavedSurvives
