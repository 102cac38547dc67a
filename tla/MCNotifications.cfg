SPECIFICATION NotifySpec
CONSTANTS
    alice = alice
    carol = carol
    acme = acme
    site = site
    t1 = t1
    Users = {alice, carol}
    Accounts = {alice}
    Orgs = {acme}
    Projects = {site}
    ProjectOrg <- MCProjectOrg
    Tasks = {t1}
    Requests = {r1, r2, r3}
    Calls <- MCCalls
    Nobody = Nobody
    NoOrg = NoOrg
    NoTask = NoTask
    NoCall = NoCall
    MaxTries = 2
INVARIANTS
    MailsFollowAssignments
    DuplicatesNeedAStop
    LossesHaveACause
PROPERTIES
    EveryNotificationConcludes
