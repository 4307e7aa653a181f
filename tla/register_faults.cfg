SPECIFICATION Spec
CONSTANTS
    Requests = {r1, r2, r3}
    Invites = {i1, i2}
    Names = {alice, bob}
    Nobody = Nobody
    Faults = {"cancel", "db", "crash", "reset"}
SYMMETRY AllSymmetry
INVARIANTS
    TypeOK
    OneAccountPerInvite
    SpentForAnAccount
    Traceable
PROPERTIES
    RevokedMakesNoAccount
CHECK_DEADLOCK FALSE
