\* Two addresses, three accounts in their time, pages of one user.
CONSTANTS
    Addresses = {1, 2}
    SignIns = {b1, b2}
    b1 = b1
    b2 = b2
    PageSize = 1
    MaxAccounts = 3
    MaxEdits = 1
SPECIFICATION Spec
SYMMETRY Symmetry
INVARIANT TypeOK
PROPERTIES
    OnlyAbandonedAreDeleted
    CompleteWhenQuiet
    RaceIsResolved
