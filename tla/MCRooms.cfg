SPECIFICATION Spec
CONSTANTS
    alice = alice
    bob = bob
    carol = carol
    acme = acme
    beta = beta
    site = site
    w1 = w1
    a1 = a1
    a2 = a2
    b1 = b1
    c1 = c1
    x1 = x1
    Users = {alice, bob, carol}
    Orgs = {acme, beta}
    Projects = {site}
    Sockets = {a1, a2, b1, c1}
    Workers = {w1}
    WorkerOf <- MCOneWorker
    PathProject <- MCPathProject
    PathOrg <- MCPathOrg
    UserOf <- MCUserOf
    Members <- MCMembers
    ProjectOrg <- MCProjectOrg
    Nobody = Nobody
    NoOrg = NoOrg
    NoRoom = NoRoom
    MaxMessages = 1
SYMMETRY AliceSymmetry
INVARIANTS
    TypeOK
    FinishedAreGone
    ConnectedAreInRoom
    OnlyProjectMembersHear
