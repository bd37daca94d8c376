SPECIFICATION Spec
CONSTANTS
  Humans = {h}
  Agents = {a, b}
  Targets = {t, star}
  Wildcard = star
  Scopes = {"resource:read", "resource:write", "network:egress"}
  Beneficiaries = {a, b, h}
  TTLs = {1}
  Forever = Forever
  MaxGrants = 2
  MaxRequests = 1
  MaxNow = 1
SYMMETRY Symmetry
CHECK_DEADLOCK FALSE
INVARIANTS
  ChainsNeverDangle
  AuthorityRestsOnAHuman
  DelegationNarrows
