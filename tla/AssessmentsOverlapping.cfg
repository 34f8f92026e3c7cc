SPECIFICATION Spec
CONSTANTS
  r1 = r1 r2 = r2 v1 = v1 a1 = a1 c1 = c1 c2 = c2 q1 = q1 q2 = q2 q3 = q3 t1 = t1 t2 = t2
  None = None
  Assessments <- OneAssessment
  Candidates <- TwoCandidates
  Questions <- TwoQuestions
  Titles <- OneTitle
  Requests <- TwoRequests
  Visitors <- Nobody
  QuestionsPerAssessment = 2
  MeetingsPerMonth = 4
  OneAtATime = FALSE
  MaxMeetings = 3
  MaxRecreated = 2
  MaxFailures = 0
SYMMETRY Symmetry
PROPERTIES
  PublishedIsSettled
CHECK_DEADLOCK FALSE
