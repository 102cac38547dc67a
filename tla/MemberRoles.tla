---------------------------- MODULE MemberRoles ----------------------------
(***************************************************************************)
(* Organization roles and the role check every endpoint goes through       *)
(* (src/organizations/models.py, src/organizations/permissions.py).        *)
(*                                                                         *)
(* A membership is a row of organization_members: its id, the user, the    *)
(* organization and the role.  The operators are pure: the modules that    *)
(* keep a table of memberships pass it in.                                 *)
(***************************************************************************)
EXTENDS Naturals

MemberRole == {"owner", "admin", "member"}

(***************************************************************************)
(* The role enumeration inherits from str; its order is NOT the alphabetic *)
(* one but the one of this table, through the overridden __lt__.           *)
(***************************************************************************)
order == [member |-> 1, admin |-> 2, owner |-> 3]

\* Fault: the order of plain strings, by the letter.
RoleBelowAsString(role, other) ==
    LET letters == [admin |-> 1, member |-> 2, owner |-> 3]
    IN  letters[role] < letters[other]

RoleBelow(role, other) == order[role] < order[other]

(***************************************************************************)
(* The rows get_by_user_and_organization_ids selects.  The unique          *)
(* constraint on (user_id, organization_id) makes it at most one.          *)
(***************************************************************************)
MembershipOf(rows, user, org) ==
    {m \in rows : m.user = user /\ m.org = org}

(***************************************************************************)
(* check_role and the require_organization_role dependency: the user has a *)
(* membership and its role is not below the required one.                  *)
(***************************************************************************)
CheckRole(rows, user, org, minRole) ==
    \E m \in MembershipOf(rows, user, org) : ~RoleBelow(m.role, minRole)
=============================================================================
