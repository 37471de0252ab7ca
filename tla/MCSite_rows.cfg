\* Two admins' CreateSite requests at once, with different names.
CONSTANTS
    Persons = {u1, u2}
    Preregistered = {u1, u2}
    Names = {n1, n2}
    SetupAdmin = u1
    SetupName = n1
    Ops = {"create"}
    Workers = {w1, w2}
    None = None
    MaxRequests = 2
    MaxCrashes = 0
    u1 = u1  u2 = u2  n1 = n1  n2 = n2  w1 = w1  w2 = w2
SPECIFICATION Spec
INVARIANT SiteRowUnique
CHECK_DEADLOCK FALSE
