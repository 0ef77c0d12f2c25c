SPECIFICATION IdentitySpec
CONSTANTS
    Admins = {"u", "v"}
    Requests = {"r", "s"}
    MaxAdminRequests = 5
    MaxSessions = 1
INVARIANT OwnerRemains
CHECK_DEADLOCK FALSE
