SPECIFICATION Spec
CONSTANTS
  Humans = {h}
  Agents = {a, b, c}
  Targets = {t, star}
  Wildcard = star
  Scopes = {"network:egress"}
  Beneficiaries = {a, b, c}
  TTLs = {}
  Forever = Forever
  MaxGrants = 4
  MaxRequests = 1
  MaxNow = 0
SYMMETRY Symmetry
CHECK_DEADLOCK FALSE
INVARIANTS
  RevocationClosed
  BlockedHoldsNothing
