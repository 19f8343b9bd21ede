SPECIFICATION Spec
CONSTANTS
  ann = ann
  ben = ben
  Users <- MCUsers
  FirstMessagesCount = 2
  WebActs = {"check", "add", "remove"}
  MayFail = {"write", "delete"}
SYMMETRY MCSymmetry
INVARIANTS TypeOK ApprovalHasGrounds ApprovalIsSaved
