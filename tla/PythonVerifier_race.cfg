\* Two threads, and a realm with one key.
CONSTANTS
    Requests = {r1, r2}
    Clients = {c1, c2, c3}
    Rsa = {k1}
    Ec = {}
    Enc = {}
    None = None
    r1 = r1
    r2 = r2
    c1 = c1
    c2 = c2
    c3 = c3
    k1 = k1
SPECIFICATION Spec
INVARIANT NoTypeErrors
SYMMETRY Symmetry
