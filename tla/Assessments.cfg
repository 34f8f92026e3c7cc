\* One assessment and two questions; any one request may fail.
SPECIFICATION FairSpec
CONSTANTS
  r1 = r1 r2 = r2 v1 = v1 a1 = a1 c1 = c1 c2 = c2 q1 = q1 q2 = q2 q3 = q3 t1 = t1 t2 = t2
  None = None
  Assessments <- OneAssessment
  Candidates <- TwoCandidates
  Questions <- TwoQuestions
  Titles <- TwoTitles
  Requests <- OneRequest
  Visitors <- OneVisitor
  QuestionsPerAssessment = 2
  MeetingsPerMonth = 3
  OneAtATime = TRUE
  MaxMeetings = 3
  MaxRecreated = 2
  MaxFailures = 1
INVARIANTS
  TypeOK
  OneMeetingPerCandidate
  JoinedHasQuestions
PROPERTIES
  PublishedIsSettled
  PublishedHaveMeetings
CHECK_DEADLOCK FALSE
