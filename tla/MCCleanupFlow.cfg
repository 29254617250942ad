SPECIFICATION FairSpec
CONSTANTS
  Kinds = {"branch", "worktree"}
  MaxCommits = 1
  MaxChanges = 2
  MaxOpened = 1
  MaxAsked = 2
  None = None
INVARIANTS TypeOK NoWorkLost NoDanglingHead OneMutation EvidenceFollowsFetch
PROPERTIES ProjectLetGo
CHECK_DEADLOCK FALSE
