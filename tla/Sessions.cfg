SPECIFICATION Spec
CONSTANTS
  Addresses <- MCAddresses
  normalizeAddress <- MCnormalizeAddress
  emailDomain <- MCemailDomain
  WithoutAt <- MCWithoutAt
  ann = ann
  bob = bob
  b1 = b1
  b2 = b2
  l1 = l1
  l2 = l2
  Accounts = {ann, bob}
  Browsers = {b1, b2}
  Logins = {l1, l2}
  Requests = {r1}
  Starts <- MCStarts
  Calls <- MCCalls
  Profiles <- MCProfiles
  Allowlists <- MCAllowlists
  None = None
  Ended = Ended
  sessionTTL = 1
  MaxTime = 2
  MaxRestarts = 1
  MaxFaults = 1
INVARIANTS
  TypeOK
  FreshSessionsAreValid
  LogoutIsFinal
PROPERTIES
  SessionsEndForACause
  ReturningUsersGetIn
  ExpiredSessionsGo
