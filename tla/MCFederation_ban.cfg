\* The moderator bans the remote sender while its Create is being handled.
CONSTANTS
    Users = {u1}
    Remote = {r1}
    Admins = {u1}
    Communities = {c1}
    InitCommunities = {c1}
    RemoteCommunities = {}
    Ops = {"ban"}
    Requesters = {v1}
    CommentsEach = 1
    MaxRequests = 1
    Ids = {a1}
    Workers = {w1}
    None = None
    MaxDeliveries = 1
    u1 = u1  r1 = r1  c1 = c1  a1 = a1  w1 = w1  v1 = v1
    Act <- ActCreate
SPECIFICATION Spec
PROPERTY BanEnforced
CHECK_DEADLOCK FALSE
