---------------------------- MODULE OrgRegistry ----------------------------
(***************************************************************************)
(* What the organizations component promises to the rest of CollabTask:    *)
(* a registry of organizations and memberships that changes in three       *)
(* atomic steps.  Organizations.tla, with its sessions, locks and rolled   *)
(* back transactions, is shown to implement it.                            *)
(***************************************************************************)
EXTENDS MemberRoles

CONSTANTS
    Users,      \* user identifiers
    Orgs,       \* organization identifiers
    Slugs,      \* organization slugs
    RowIds,     \* identifiers of membership rows
    NoSlug      \* slug of an organization that does not exist

VARIABLES
    organizations,  \* slug of every organization, NoSlug if absent
    members         \* the membership rows

vars == <<organizations, members>>

MemberRow == [id : RowIds, user : Users, org : Orgs, role : MemberRole]

Exists(o) == organizations[o] # NoSlug

Owners(o) == {m \in members : m.org = o /\ m.role = "owner"}

Init ==
    /\ organizations = [o \in Orgs |-> NoSlug]
    /\ members = {}

(***************************************************************************)
(* An organization appears together with its first owner, under a slug     *)
(* nobody uses.                                                            *)
(***************************************************************************)
CreateOrganization(o, s, m) ==
    /\ ~Exists(o)
    /\ \A p \in Orgs : organizations[p] # s
    /\ m.org = o /\ m.role = "owner"
    /\ organizations' = [organizations EXCEPT ![o] = s]
    /\ members' = members \cup {m}

(***************************************************************************)
(* A user joins an organization at most once, at the initiative of one of  *)
(* its admins or owners.                                                   *)
(***************************************************************************)
InviteMember(m) ==
    /\ Exists(m.org)
    /\ MembershipOf(members, m.user, m.org) = {}
    /\ \E u \in Users : CheckRole(members, u, m.org, "admin")
    /\ members' = members \cup {m}
    /\ UNCHANGED organizations

(***************************************************************************)
(* A membership may go, but never the last owner's.                        *)
(***************************************************************************)
RemoveMember(m) ==
    /\ m \in members
    /\ Owners(m.org) # {m}
    /\ members' = members \ {m}
    /\ UNCHANGED organizations

Next ==
    \/ \E o \in Orgs, s \in Slugs, m \in MemberRow : CreateOrganization(o, s, m)
    \/ \E m \in MemberRow : InviteMember(m)
    \/ \E m \in members : RemoveMember(m)

Spec == Init /\ [][Next]_vars
=============================================================================
