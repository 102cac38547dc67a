SPECIFICATION Spec
CONSTANTS
    ann = ann
    e1 = e1
    e2 = e2
    u1 = u1
    u2 = u2
    Emails = {e1, e2}
    Usernames = {u1, u2}
    Requests = {r1, r2, r3}
    Ids <- MCIds
    Existing <- MCExisting
    Held <- MCHeld
    Calls <- MCCalls
    AccessTTL = 1
    RefreshTTL = 2
    MaxTime = 4
    NoCall = NoCall
SYMMETRY RequestSymmetry
INVARIANTS
    TypeOK
    IdentitiesUnique
    AnswersAreTruthful
PROPERTIES
    LoginsExpire
    InactiveAreLockedOut
