SPECIFICATION Spec
CONSTANTS
    alice = alice
    bob = bob
    carol = carol
    dave = dave
    acme = acme
    beta = beta
    s1 = s1
    s2 = s2
    Users = {alice, bob, carol, dave}
    Accounts = {alice, bob, carol}
    Orgs = {acme, beta}
    Slugs = {s1, s2}
    Requests = {r1, r2, r3, r4}
    Calls <- MCCalls
    NoSlug = NoSlug
    NoCall = NoCall
SYMMETRY RequestSymmetry
INVARIANTS
    TypeOK
    OneRolePerMember
    SlugUnique
    EveryOrgHasOwner
    OnlyAdminsBringMembers
    AnswersAreTruthful
PROPERTIES
    ImplementsRegistry
