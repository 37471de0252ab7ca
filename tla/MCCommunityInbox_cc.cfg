\* A Follow of c1 that carries c2 in its cc, delivered to either inbox.
CONSTANTS
    Persons = {p1}
    Communities = {c1, c2}
    Ids = {a1}
    Workers = {w1}
    None = None
    MaxDeliveries = 2
    p1 = p1  p2 = p2  c1 = c1  c2 = c2
    a1 = a1  a2 = a2  a3 = a3  a4 = a4  a5 = a5  a6 = a6  a7 = a7  a8 = a8  a9 = a9
    w1 = w1  w2 = w2
    Act <- ActCc
SPECIFICATION Spec
INVARIANT FollowerReflectsIntent
CHECK_DEADLOCK FALSE
