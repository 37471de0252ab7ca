\* Every community handler, two concurrent requests, two requests in all.
CONSTANTS
    Persons = {u1, u2, u3}
    Users = {u1, u2}
    Admins = {u1}
    Communities = {c1, c2}
    InitCommunities = {c1}
    RemoteCommunities = {c1}
    Ops = {"create", "edit", "follow", "ban", "addmod", "transfer", "delete", "remove"}
    Workers = {w1, w2}
    None = None
    CommentsEach = 2
    MaxRequests = 2
    u1 = u1  u2 = u2  u3 = u3  c1 = c1  c2 = c2  w1 = w1  w2 = w2
SPECIFICATION Spec
INVARIANT TypeOK
CHECK_DEADLOCK FALSE
