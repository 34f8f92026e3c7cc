SPECIFICATION Spec
CONSTANTS
  r1 = r1 r2 = r2 o1 = o1 o2 = o2 e1 = e1 e2 = e2
  None = None
  Organizations <- TwoOrganizations
  Addresses <- TwoAddresses
  Requests <- TwoRequests
  MembersPerOrganization = 2
  MaxTokens = 3
  MaxFailures = 1
SYMMETRY Symmetry
INVARIANTS
  TypeOK
  AcceptedHasAccount
  LastLinkExists
PROPERTIES
  LastMemberStays
  OnlyRevocationEnds
CHECK_DEADLOCK FALSE
