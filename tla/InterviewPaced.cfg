\* A client that waits for each answer; up to two handlers (candidate, cron).
CONSTANTS
  Handlers = {h1, h2}
  NumQuestions = 2
  Paced = TRUE
  MaxTalk = 30
  MaxSaves = 1
  Bound <- OneCandidate
SPECIFICATION FairSpec
INVARIANTS
  AskedInOrder
  OneFollowUpPerQuestion
PROPERTIES
  TalkOnlyGrows
  GoodbyeCompletes
CHECK_DEADLOCK FALSE
