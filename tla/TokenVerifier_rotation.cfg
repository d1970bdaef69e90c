\* One request after the other, and a realm that signs with a new key.
CONSTANTS
    Requests = {r1}
    Rsa = {k1, k2}
    Ec = {}
    Enc = {}
    r1 = r1
    k1 = k1
    k2 = k2
SPECIFICATION Spec
PROPERTY GenuineIsNotRefused
