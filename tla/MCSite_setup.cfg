\* A fresh install: clients load the site; one request may fail half-way.
CONSTANTS
    Persons = {u1, u2}
    Preregistered = {}
    Names = {n1, n2}
    SetupAdmin = u1
    SetupName = n1
    Ops = {"getsite"}
    Workers = {w1, w2}
    None = None
    MaxRequests = 0
    MaxCrashes = 1
    u1 = u1  u2 = u2  n1 = n1  n2 = n2  w1 = w1  w2 = w2
SPECIFICATION FairSpec
PROPERTY SiteSetUp
CHECK_DEADLOCK FALSE
