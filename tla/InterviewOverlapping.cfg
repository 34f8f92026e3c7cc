\* Every operation once, two handlers in flight, one crash.
CONSTANTS
  Handlers = {h1, h2}
  NumQuestions = 1
  Paced = FALSE
  MaxTalk = 6
  MaxSaves = 1
  Bound <- Everything
SPECIFICATION Spec
SYMMETRY Interchangeable
INVARIANTS
  TypeOK
  CompletedHasFeedback
  WholeExchanges
PROPERTY ImplementsRequests
CHECK_DEADLOCK FALSE
