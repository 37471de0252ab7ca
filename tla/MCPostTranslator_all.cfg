\* Pages of every outcome, translated one after the other.
CONSTANTS
    Persons = {p1, p2}
    Communities = {c1}
    Names = {n1, n2}
    SlurNames = {n2}
    Ids = {g1, g2, g3, g4, g5}
    Spoofed = {g4}
    Banned = {p2}
    None = None
    p1 = p1  p2 = p2  c1 = c1  g1 = g1  g2 = g2  g3 = g3  g4 = g4  g5 = g5  n1 = n1  n2 = n2
    Sent <- SentAll
SPECIFICATION Spec
INVARIANT TypeOK
INVARIANT DomainContained
INVARIANT RoundTrip
CHECK_DEADLOCK FALSE
