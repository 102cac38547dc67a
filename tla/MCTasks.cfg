SPECIFICATION FairSpec
CONSTANTS
    alice = alice
    dave = dave
    acme = acme
    beta = beta
    site = site
    ghost = ghost
    t1 = t1
    Users = {alice, dave}
    Accounts = {alice}
    Orgs = {acme, beta}
    Projects = {site, ghost}
    ProjectOrg <- MCProjectOrg
    Tasks = {t1}
    Requests = {r1, r2, r3}
    Calls <- MCTaskCalls
    Nobody = Nobody
    NoOrg = NoOrg
    NoTask = NoTask
    NoCall = NoCall
INVARIANTS
    TypeOK
    NoStatusOutOfTheBlue
    OutsidersNeverWrite
    EmailsFollowCommits
    AnswersAreTruthful
PROPERTIES
    CommitsDoNotOverlap
    ImplementsBoard
    EveryRequestAnswered
