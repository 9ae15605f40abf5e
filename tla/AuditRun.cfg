SPECIFICATION Spec
CONSTANTS
  user = user
  org = org
  Resources <- Two
  Self <- Caller
  OrgRoles <- Org
  FloorCritical <- Two
  FloorHigh <- Org
  Texts <- Phrases
  MaxRaw = 2
INVARIANT ExitExact
INVARIANT FailureVisible
INVARIANT IntegrityAdvisory
INVARIANT ReportsAgree
