SPECIFICATION Spec
CONSTANTS
    alice = alice
    bob = bob
    acme = acme
    beta = beta
    p1 = p1
    p2 = p2
    Accounts = {alice, bob}
    Orgs = {acme, beta}
    ProjectIds = {p1, p2}
    Tasks = {t1, t2}
    Requests = {r1, r2, r3}
    Calls <- MCCalls
    Joining <- MCJoining
    NoProject = NoProject
    NoCall = NoCall
SYMMETRY MCSymmetry
INVARIANTS
    TypeOK
    OnlyAdminsWrite
    NoLateArchive
    AnswersAreTruthful
    PageFitsTotal
