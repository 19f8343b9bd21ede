SPECIFICATION Spec
CONSTANTS
  Scripts = {"a", "b"}
  Contents = {"old", "new", "silent", "broken"}
  Working = {"old", "new"}
  Silent = {"silent"}
  Absent = "absent"
  MaxChanges = 3
INVARIANTS TypeOK SettledIsCurrent
PROPERTY ChangesAreLoaded
CHECK_DEADLOCK FALSE
