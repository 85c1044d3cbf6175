CONSTANTS
  Replicas = {p, q}
  Askers = {p}
  None = None
  Lease = 2
  Interval = 3
  Slow = FALSE
  MaxEdits = 2
  MaxFailures = 1
  MaxCrashes = 1
  Requests = {"q1"}
  Reviewers = {"ann", "bob", "eve"}
  Roles <- RolesGiven
  Tenants = {"acme", "other"}
  ReviewerTenant <- HomeTenants
  RequestTenant <- TenantAsked
  Platform = "platform"
  TTL = 1
  MaxTime = 2
SPECIFICATION EachSpec
INVARIANT OneAtATime
PROPERTY ScheduledIsDue
PROPERTY SchedulesGoOn
PROPERTY ReviewsStand
PROPERTY HeldGetsOutcome
PROPERTY ListenersAgree
PROPERTY SelfTestsEnd
PROPERTY AdviceIsBounded
\* Reviews, edits and requests are used up.
CHECK_DEADLOCK FALSE
