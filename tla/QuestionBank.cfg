\* Two organizations, two questions, three requests, two of them at once.
SPECIFICATION Spec
CONSTANTS
  o1 = o1 o2 = o2 q1 = q1 q2 = q2 l1 = l1 r1 = r1 r2 = r2
  None = None
  Kept = Kept
  Organizations <- TwoOrganizations
  Questions <- TwoQuestions
  Labels <- OneLabel
  Requests <- TwoRequests
  MaxRules = 2
  MaxStarts = 3
  MaxFailures = 1
SYMMETRY Symmetry
INVARIANTS
  TypeOK
PROPERTIES
  RulesEndByDelete
  OwnRulesOnly
CHECK_DEADLOCK FALSE
