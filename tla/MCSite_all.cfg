\* Every site handler, two concurrent requests, three requests in all.
CONSTANTS
    Persons = {u1, u2}
    Preregistered = {u1, u2}
    Names = {n1, n2}
    SetupAdmin = u1
    SetupName = n1
    Ops = {"getsite", "create", "edit", "transfer"}
    Workers = {w1, w2}
    None = None
    MaxRequests = 3
    MaxCrashes = 2
    u1 = u1  u2 = u2  n1 = n1  n2 = n2  w1 = w1  w2 = w2
SPECIFICATION Spec
INVARIANT TypeOK CreatorMissingOnlyAfterTransfer
CHECK_DEADLOCK FALSE
