SPECIFICATION Spec
CONSTANTS
  TTL = 1
  MinSize = 2
  Users = {"ann", "sue"}
  Channels = {"news"}
  Group = "group"
  Supers = {"sue"}
  Named = {"ann", "sue"}
  Texts = {"offer", "hello"}
  WarnThreshold = 2
  WarnWindow = 2
  CleanupLimit = 2
  MaxFailures = 1
  MaxPresses = 2
  Settings <- MCSettings
  MaxTime = 5
CHECK_DEADLOCK FALSE
INVARIANTS TypeOK BansFollowTheModes DeletionsAreTheirs LocatorRemembers NotesAreTrue WarnBansAreEarned SupersAreSpared
