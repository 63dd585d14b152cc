SPECIFICATION CommitSpec
CONSTANTS
  MaxCommit = 3
  MaxDraft = 2
  TokenId = {1, 2}
  Blank = 0
PROPERTIES DraftsFollowTarget CommitsAreAllOrNothing
