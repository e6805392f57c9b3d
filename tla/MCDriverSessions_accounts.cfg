SPECIFICATION Spec
CONSTANTS
  d1 = d1
  d2 = d2
  a1 = a1
  a2 = a2
  Drivers = {d1, d2}
  Phones = {d1}
  Admins = {a1, a2}
  Cities = {"c1"}
  Calls = {k1, k2}
  GeoLimit = 1
  MaxFaults = 1
  Emails = {"rider"}
  MailOf <- MCMailOf
  MaxAttempts = 2
  Updates <- MCUpdates
  MaxRequests = 3
  MaxConnects = 2
  SessionRequests = 2
INVARIANTS ApprovedIsComplete RevocationOutlivesTokens AdminClaimsCurrent
PROPERTY FitIsFound
