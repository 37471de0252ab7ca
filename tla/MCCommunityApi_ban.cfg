\* Only the handlers the question is about, two concurrent requests.
CONSTANTS
    Persons = {u1, u2, u3}
    Users = {u1, u2, u3}
    Admins = {u1}
    Communities = {c1}
    InitCommunities = {c1}
    RemoteCommunities = {}
    Ops = {"follow", "ban"}
    Workers = {w1, w2}
    None = None
    CommentsEach = 2
    MaxRequests = 3
    u1 = u1  u2 = u2  u3 = u3  c1 = c1  c2 = c2  w1 = w1  w2 = w2
SPECIFICATION Spec
PROPERTY BannedNotFollower
CHECK_DEADLOCK FALSE
