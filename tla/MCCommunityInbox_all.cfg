\* One activity per branch of the handler (bad signature, local id, wrong
\* inbox, ban, invalid domains, non-public announce), two concurrent
\* handlers, three deliveries: any id may be raced on and retried.
CONSTANTS
    Persons = {p1}
    Communities = {c1, c2}
    Ids = {a1, a2, a3, a4, a5, a6, a7, a8, a9}
    Workers = {w1, w2}
    None = None
    MaxDeliveries = 3
    p1 = p1  p2 = p2  c1 = c1  c2 = c2
    a1 = a1  a2 = a2  a3 = a3  a4 = a4  a5 = a5  a6 = a6  a7 = a7  a8 = a8  a9 = a9
    w1 = w1  w2 = w2
    Act <- ActBranches
SPECIFICATION Spec
INVARIANT TypeOK
PROPERTY DedupRefined
CHECK_DEADLOCK FALSE
