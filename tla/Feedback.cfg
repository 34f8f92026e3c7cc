\* Crashes, bad answers, a recreated meeting; two feedbacks in one queue.
CONSTANTS
  Feedbacks = {f1, f2}
  Recreatable = {f1}
  Questions <- TwoQuestions
  MaxCrashes = 1
SPECIFICATION FairSpec
INVARIANTS
  TypeOK
  AckedIsResolved
  ReadyIsReadable
  BlockedOnlyByDeletion
PROPERTIES
  PreparingEnds
  ImplementsRequests
CHECK_DEADLOCK FALSE
