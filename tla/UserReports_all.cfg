SPECIFICATION Spec
CONSTANTS
  mallory = mallory
  alice = alice
  bob = bob
  carol = carol
  m1 = m1
  m2 = m2
  Users <- MCUsers
  StoredApproved <- MCReporters
  Messages = {m1, m2}
  Admins = {a1}
  Author <- MCAuthor
  SuperUsers = {}
  WithText = {m1}
  Threshold = 2
  AutoBanThreshold = 3
  RateLimit = 1
  RatePeriod = 2
  Retention = 2
  HasAdminChat = TRUE
  Dry = FALSE
  Training = FALSE
  SoftBan = TRUE
  Settings <- MCSettings
  MaxNotes = 2
CHECK_DEADLOCK FALSE
SYMMETRY MCSymmetry
PROPERTY ImplementsCases
INVARIANTS TypeOK FirstReportSpeaksForAll PunishmentIsGrounded AutoBanSettles
  QuorumIsNotified SoftBanSparesAuthors UnbackedReportsWithinLimit
