------------------------- MODULE OrgRegistryProofs -------------------------
(***************************************************************************)
(* Organizations implements OrgRegistry: for any number of concurrent      *)
(* requests, every step is one of the registry or leaves the committed     *)
(* tables alone.                                                           *)
(*                                                                         *)
(* The commit is the step that counts.  What it relies on was checked      *)
(* statements ago, the slug and the membership by the flush, the role of   *)
(* the inviting user before that; that all of it still holds is what the   *)
(* invariants InFlight and Accounted say.                                  *)
(***************************************************************************)
EXTENDS OrganizationsProofs

\* What a request that commits is about, and what it has in its transaction.
LEMMA CommitReady ==
    ASSUME IndInv, Accounted, NEW r \in Requests, Commit(r)
    PROVE  /\ pc[r] = "commit" /\ call[r] \in Call
           /\ call[r].op \in {"create", "invite", "remove"}
           /\ newOrg[r] <=> call[r].op = "create"
           /\ call[r].op = "remove" => inserted[r] = {}
           /\ call[r].op # "remove" =>
                inserted[r] = {NewMember(r)} /\ NewMember(r) \in MemberRow
           /\ members' = members \cup inserted[r]
<1>1. pc[r] = "commit" /\ call[r] \in Call /\ members' = members \cup inserted[r]
  BY CommitStep
<1>2. call[r].op \in {"create", "invite", "remove"}
  BY <1>1 DEF Call
<1>3. /\ newOrg[r] => call[r].op = "create"
      /\ call[r].op = "create" => newOrg[r] /\ inserted[r] = {NewMember(r)}
  BY <1>1 DEF IndInv, InFlight, Progress
<1>4. /\ call[r].op = "remove" => inserted[r] = {}
      /\ call[r].op = "invite" => inserted[r] = {NewMember(r)}
  BY <1>1 DEF Accounted, Invited
<1>5. inserted[r] \subseteq MemberRow
  BY DEF IndInv, TypeOK
<1> QED
  BY <1>1, <1>2, <1>3, <1>4, <1>5

\* Nobody has the membership that a commit brings.
LEMMA NewIsNew ==
    ASSUME IndInv, NEW r \in Requests, inserted[r] = {NewMember(r)}
    PROVE  \A n \in members : ~(n.user = NewMember(r).user /\ n.org = NewMember(r).org)
  BY DEF IndInv, InFlight, RowsApart, SameMembership

LEMMA FoundationStep ==
    ASSUME IndInv, Accounted, NEW r \in Requests, Commit(r), call[r].op = "create"
    PROVE  Registry!Next
<1> DEFINE o == call[r].org
           s == call[r].slug
           m == NewMember(r)
<1>1. /\ o \in Orgs /\ s \in Slugs /\ m \in MemberRow /\ newOrg[r]
      /\ members' = members \cup {m}
  BY CommitReady DEF Call
<1>2. organizations' = [organizations EXCEPT ![o] = s]
  BY <1>1 DEF Commit
<1>3. organizations[o] = NoSlug /\ \A p \in Orgs : organizations[p] # s
  BY <1>1, CommitReady DEF IndInv, InFlight, OrgsApart, SlugsApart
<1>4. m.org = o /\ m.role = "owner"
  BY DEF NewMember
<1>5. Registry!CreateOrganization(o, s, m)
  BY <1>1, <1>2, <1>3, <1>4 DEF Registry!CreateOrganization, Registry!Exists
<1> QED
  BY <1>1, <1>5 DEF Registry!Next, Registry!MemberRow, Registry!MemberRole,
                    MemberRow, MemberRole

LEMMA InvitationStep ==
    ASSUME IndInv, Accounted, NEW r \in Requests, Commit(r), call[r].op = "invite"
    PROVE  Registry!Next
<1> DEFINE m == NewMember(r)
<1>1. /\ m \in MemberRow /\ m.org = call[r].org /\ ~newOrg[r]
      /\ inserted[r] = {m} /\ members' = members \cup {m}
  BY CommitReady DEF NewMember
<1>2. organizations' = organizations
  BY <1>1 DEF Commit
<1>3. organizations[m.org] # NoSlug
  BY <1>1, CommitReady DEF Accounted, Invited
<1>4. Registry!MembershipOf(members, m.user, m.org) = {}
  BY <1>1, NewIsNew DEF Registry!MembershipOf
<1>5. \E u \in Users : Registry!CheckRole(members, u, m.org, "admin")
  <2>1. PICK n \in members : Admits(n, call[r].user, call[r].org)
    BY CommitReady DEF Accounted, Invited
  <2>2. n.user \in Users /\ n.org = m.org /\ n.role \in {"owner", "admin"}
    BY <1>1, <2>1 DEF Admits, IndInv, TypeOK, MemberRow
  <2>3. Registry!CheckRole(members, n.user, m.org, "admin")
    BY <2>2 DEF Registry!CheckRole, Registry!MembershipOf, Registry!RoleBelow, Registry!order
  <2> QED
    BY <2>2, <2>3
<1>6. Registry!InviteMember(m)
  BY <1>1, <1>2, <1>3, <1>4, <1>5 DEF Registry!InviteMember, Registry!Exists
<1> QED
  BY <1>1, <1>6 DEF Registry!Next, Registry!MemberRow, Registry!MemberRole,
                    MemberRow, MemberRole

\* A removal deletes nothing, so the registry does not see it.
LEMMA RemovalStep ==
    ASSUME IndInv, Accounted, NEW r \in Requests, Commit(r), call[r].op = "remove"
    PROVE  UNCHANGED Registry!vars
<1>1. ~newOrg[r] /\ members' = members
  BY CommitReady
<1> QED
  BY <1>1 DEF Commit, Registry!vars

LEMMA RegistryStep == IndInv /\ Accounted /\ [Next]_vars => [Registry!Next]_(Registry!vars)
<1> SUFFICES ASSUME IndInv, Accounted, [Next]_vars PROVE [Registry!Next]_(Registry!vars)
  OBVIOUS
<1>1. CASE UNCHANGED vars
  BY <1>1 DEF vars, Registry!vars
<1>2. ASSUME NEW r \in Requests, Begin(r) \/ Step(r) \/ Abort(r)
      PROVE  [Registry!Next]_(Registry!vars)
  <2>1. CASE Commit(r)
    BY <2>1, CommitReady, FoundationStep, InvitationStep, RemovalStep
  <2>2. CASE UNCHANGED <<organizations, members>>
    BY <2>2 DEF Registry!vars
  <2> QED
    BY <1>2, <2>1, <2>2, TablesStep
<1> QED
  BY <1>1, <1>2 DEF Next, Finished

(***************************************************************************)
(* Seen through the committed tables, the requests with their sessions,    *)
(* flushes and rollbacks are the atomic steps of OrgRegistry.              *)
(***************************************************************************)
THEOREM Refinement == Spec => ImplementsRegistry
<1>1. Init => Registry!Init
  BY DEF Init, Registry!Init
<1> QED
  BY <1>1, RegistryStep, Invariance, AccountedInvariance, PTL
  DEF Spec, ImplementsRegistry, Registry!Spec

-----------------------------------------------------------------------------
(* What the other components rely on.  Projects.tla and TaskService.tla    *)
(* stand for this component with an action Join each, of a membership and  *)
(* of a pair of an account and an organization.  These theorems justify    *)
(* the two.                                                                *)

\* The foreign key of the membership row.
HaveAccounts == \A r \in Requests : \A m \in inserted[r] : m.user \in Accounts

LEMMA NextHaveAccounts == IndInv /\ HaveAccounts /\ [Next]_vars => HaveAccounts'
<1> SUFFICES ASSUME IndInv, HaveAccounts, [Next]_vars PROVE HaveAccounts'
  OBVIOUS
<1>1. CASE UNCHANGED vars
  BY <1>1 DEF vars, tx, HaveAccounts
<1>2. ASSUME NEW r \in Requests, Begin(r) \/ Step(r) \/ Abort(r)
      PROVE  HaveAccounts'
  <2>1. CASE inserted'[r] \subseteq inserted[r]
    BY <1>2, <2>1, OthersStep DEF HaveAccounts
  <2>2. CASE InsertMember(r) /\ ~IntegrityError(r)
    <3>1. inserted'[r] = {NewMember(r)} /\ NewMember(r).user \in Accounts
      BY <2>2 DEF InsertMember, IntegrityError, IndInv, TypeOK
    <3> QED
      BY <1>2, <3>1, OthersStep DEF HaveAccounts
  <2> QED
    BY <1>2, <2>1, <2>2
    DEF Begin, Step, Abort, Rollback, Authorize, Recheck, InsertOrganization, InsertMember,
        LoadMember, GuardLastOwner, DeleteMember, Commit, Respond, tx, IndInv, TypeOK
<1> QED
  BY <1>1, <1>2 DEF Next, Finished

JoinsOneByOne ==
    [][\E m \in MemberRow :
         /\ m.user \in Accounts
         /\ MembershipOf(members, m.user, m.org) = {}
         /\ members' = members \cup {m}]_members

Pairs == {<<m.user, m.org>> : m \in members}

PairsJoinOneByOne ==
    [][\E u \in Accounts, o \in Orgs :
         <<u, o>> \notin Pairs /\ Pairs' = Pairs \cup {<<u, o>>}]_Pairs

LEMMA JoinStep ==
    ASSUME IndInv, Accounted, HaveAccounts, [Next]_vars, members' # members
    PROVE  \E m \in MemberRow :
             /\ m.user \in Accounts
             /\ MembershipOf(members, m.user, m.org) = {}
             /\ members' = members \cup {m}
<1>1. PICK r \in Requests : Commit(r)
  BY TablesStep DEF Next, Finished, vars
<1>2. /\ inserted[r] = {NewMember(r)} /\ NewMember(r) \in MemberRow
      /\ members' = members \cup {NewMember(r)}
  BY <1>1, CommitReady
<1>3. NewMember(r).user \in Accounts
  BY <1>2 DEF HaveAccounts
<1>4. MembershipOf(members, NewMember(r).user, NewMember(r).org) = {}
  BY <1>2, NewIsNew DEF MembershipOf
<1> QED
  BY <1>2, <1>3, <1>4

(***************************************************************************)
(* A commit adds one membership at most, of a user who has an account and  *)
(* no membership in the organization yet, however many invitations of the  *)
(* same user were flushed at once.                                         *)
(***************************************************************************)
THEOREM Joins == Spec => JoinsOneByOne
<1>1. Init => HaveAccounts
  BY DEF Init, HaveAccounts
<1>2. IndInv /\ Accounted /\ HaveAccounts /\ [Next]_vars =>
        [\E m \in MemberRow :
           /\ m.user \in Accounts
           /\ MembershipOf(members, m.user, m.org) = {}
           /\ members' = members \cup {m}]_members
  BY JoinStep
<1> QED
  BY <1>1, <1>2, NextHaveAccounts, Invariance, AccountedInvariance, PTL
  DEF Spec, JoinsOneByOne

(***************************************************************************)
(* The same of the pairs that role checks for the lowest role look at.     *)
(***************************************************************************)
THEOREM PairsJoin == Spec => PairsJoinOneByOne
<1>1. Init => HaveAccounts
  BY DEF Init, HaveAccounts
<1>2. IndInv /\ Accounted /\ HaveAccounts /\ [Next]_vars =>
        [\E u \in Accounts, o \in Orgs :
           <<u, o>> \notin Pairs /\ Pairs' = Pairs \cup {<<u, o>>}]_Pairs
  <2> SUFFICES ASSUME IndInv, Accounted, HaveAccounts, [Next]_vars, Pairs' # Pairs
               PROVE  \E u \in Accounts, o \in Orgs :
                        <<u, o>> \notin Pairs /\ Pairs' = Pairs \cup {<<u, o>>}
    OBVIOUS
  <2>1. PICK m \in MemberRow :
          /\ m.user \in Accounts
          /\ MembershipOf(members, m.user, m.org) = {}
          /\ members' = members \cup {m}
    BY JoinStep DEF Pairs
  <2>2. <<m.user, m.org>> \notin Pairs
    BY <2>1 DEF Pairs, MembershipOf
  <2>3. Pairs' = Pairs \cup {<<m.user, m.org>>}
    BY <2>1 DEF Pairs
  <2>4. m.org \in Orgs
    BY <2>1 DEF MemberRow
  <2> QED
    BY <2>1, <2>2, <2>3, <2>4
<1> QED
  BY <1>1, <1>2, NextHaveAccounts, Invariance, AccountedInvariance, PTL
  DEF Spec, PairsJoinOneByOne
=============================================================================
