SPECIFICATION FairSpec
CONSTANTS
    alice = alice
    bob = bob
    carol = carol
    dave = dave
    acme = acme
    beta = beta
    s1 = s1
    s2 = s2
    Users = {alice, bob, carol, dave}
    Accounts = {alice, bob, carol}
    Orgs = {acme, beta}
    Slugs = {s1, s2}
    Requests = {r1, r2, r3}
    Calls <- MCFewCalls
    NoSlug = NoSlug
    NoCall = NoCall
PROPERTIES
    EveryRequestAnswered
