\* Two requests and a realm that rotates among two keys.
CONSTANTS
    Requests = {r1, r2}
    Clients = {c1, c2, c3}
    Rsa = {k1}
    Ec = {}
    Enc = {k2}
    None = None
    r1 = r1
    r2 = r2
    c1 = c1
    c2 = c2
    c3 = c3
    k1 = k1
    k2 = k2
SPECIFICATION Spec
INVARIANT TypeOK
PROPERTIES
    KeepsContract
    GivesUpForAReason

SYMMETRY Symmetry
