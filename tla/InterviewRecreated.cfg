\* A completed meeting is recreated and held again.
CONSTANTS
  Handlers = {h1}
  NumQuestions = 1
  Paced = TRUE
  MaxTalk = 12
  MaxSaves = 1
  Bound <- Recreated
SPECIFICATION FairSpec
PROPERTY GoodbyeCompletes
CHECK_DEADLOCK FALSE
