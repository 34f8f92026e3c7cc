\* The candidate leaves while the last turn is being processed.
CONSTANTS
  Handlers = {h1, h2}
  NumQuestions = 1
  Paced = FALSE
  MaxTalk = 6
  MaxSaves = 1
  Bound <- Leaving
SPECIFICATION FairSpec
PROPERTY CompletedIsFinal
CHECK_DEADLOCK FALSE
