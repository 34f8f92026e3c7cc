\* One address for the administrator, two members, two candidates.
SPECIFICATION FairSpec
CONSTANTS
  a1 = a1 u1 = u1 u2 = u2 o1 = o1 c1 = c1
  row1 = row1 row2 = row2 e1 = e1 e2 = e2 r1 = r1 r2 = r2
  None = None
  Addresses <- OneAddress
  Users <- TwoUsers
  Organizations <- OneOrganization
  Clients <- OneClient
  Rows <- TwoRows
  Emails <- TwoEmails
  Requests <- TwoRequests
  MaxCrashes = 1
INVARIANTS
  TypeOK
  OneCandidatePerAddress
PROPERTIES
  SetupCompletes
  RevokedLosesAccess
CHECK_DEADLOCK FALSE
