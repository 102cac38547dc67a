SPECIFICATION Spec
CONSTANTS
    alice = alice
    dave = dave
    acme = acme
    beta = beta
    site = site
    ghost = ghost
    t1 = t1
    Users = {alice, dave}
    Accounts = {alice}
    Orgs = {acme}
    Projects = {site, ghost}
    ProjectOrg <- MCProjectOrg
    Tasks = {t1}
    Requests = {r1, r2, r3}
    Calls <- MCStatusCalls
    Nobody = Nobody
    NoOrg = NoOrg
    NoTask = NoTask
    NoCall = NoCall
PROPERTIES
    OnlyAllowedTransitions
