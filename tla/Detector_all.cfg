SPECIFICATION Spec
CONSTANTS
  Users = {"ann", "bob", "eve"}
  Texts = {"hello", "offer", "hi", "yo"}
  Short = {"hi", "yo"}
  Providers = {"openai", "gemini"}
  Retries = 2
  DuplicateWindow = 4
  ReactionWindow = 3
  MaxUsers = 2
  MaxEntries = 3
  MaxIDs = 2
  TTL = 2
  MinSize = 2
  MaxTime = 7
  Settings <- MCSettings
INVARIANTS
  TypeOK
  DuplicatesAreExact
  ExtrasAreRepeats
  FloodIsStopped
  OverruledByConsensus
  BurstsAreNoticed
CHECK_DEADLOCK FALSE
