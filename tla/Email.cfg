\* Two meetings of one candidate, two requests in flight, a crash.
SPECIFICATION FairSpec
CONSTANTS
  m1 = m1 m2 = m2 r1 = r1 r2 = r2 c1 = c1
  None = None
  Meetings <- TwoMeetings
  Requests <- TwoRequests
  CandidateOf <- OneCandidate
  MaxPasswords = 2
  MaxCrashes = 1
INVARIANTS
  TypeOK
  LastEmailOpens
  PasswordsInOrder
PROPERTIES
  EveryEmailIsHandled
CHECK_DEADLOCK FALSE
