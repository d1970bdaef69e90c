\* Two requests and a realm that rotates among two keys.
CONSTANTS
    Requests = {r1, r2}
    Rsa = {k1, k2}
    Ec = {}
    Enc = {}
    r1 = r1
    r2 = r2
    k1 = k1
    k2 = k2
SPECIFICATION FairSpec
INVARIANT TypeOK
PROPERTIES
    KeepsContract
    EveryRequestEnds
