\* A moderator's EditCommunity racing an admin's RemoveCommunity.
CONSTANTS
    Persons = {u1, u2}
    Users = {u1, u2}
    Admins = {u1}
    Communities = {c1}
    InitCommunities = {c1}
    RemoteCommunities = {}
    Ops = {"edit", "remove"}
    Workers = {w1, w2}
    None = None
    CommentsEach = 2
    MaxRequests = 2
    u1 = u1  u2 = u2  u3 = u3  c1 = c1  c2 = c2  w1 = w1  w2 = w2
SPECIFICATION Spec
PROPERTY EditKeepsRow
CHECK_DEADLOCK FALSE
