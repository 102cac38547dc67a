------------------------ MODULE OrganizationsProofs ------------------------
(***************************************************************************)
(* Safety of the organizations component, for any number of users,         *)
(* organizations, slugs and concurrent requests.                           *)
(*                                                                         *)
(* The invariants of the committed tables are not inductive: they hold     *)
(* because of what the requests in flight have flushed and may still       *)
(* commit.  InFlight says what that is.                                    *)
(***************************************************************************)
EXTENDS Organizations, TLAPS

(***************************************************************************)
(* Where a request stands determines what it has been asked and what it    *)
(* has flushed.                                                            *)
(***************************************************************************)
Progress ==
    \A r \in Requests :
        /\ pc[r] # "idle" => call[r] \in Call
        /\ pc[r] \in {"load", "guard", "delete"} => call[r].op = "remove"
        /\ pc[r] \in {"auth", "recheck"} => call[r].op # "create"
        /\ pc[r] = "insertOrg" => call[r].op = "create"
        /\ pc[r] = "insert" => call[r].op # "remove"
        /\ pc[r] = "insert" /\ call[r].op = "create" => newOrg[r]
        /\ pc[r] = "commit" /\ call[r].op = "create" =>
             newOrg[r] /\ inserted[r] = {NewMember(r)}
        /\ newOrg[r] => pc[r] \in {"insert", "commit"} /\ call[r].op = "create"
        /\ inserted[r] # {} => pc[r] = "commit" /\ inserted[r] = {NewMember(r)}
        /\ deleted[r] = {}

\* An organization being created is not there yet and nobody else creates it.
OrgsApart ==
    \A r \in Requests :
        pc[r] # "idle" /\ call[r].op = "create" =>
            /\ pc[r] \in {"insertOrg", "insert", "commit"} =>
                 organizations[call[r].org] = NoSlug
            /\ \A q \in Requests \ {r} :
                 pc[q] # "idle" /\ call[q].op = "create" =>
                     call[q].org # call[r].org

\* A slug that has been flushed is neither committed nor flushed elsewhere.
SlugsApart ==
    \A r \in Requests :
        newOrg[r] =>
            /\ \A o \in Orgs : organizations[o] # call[r].slug
            /\ \A q \in Requests \ {r} : newOrg[q] => call[q].slug # call[r].slug

\* So is a membership that has been flushed.
RowsApart ==
    \A r \in Requests : \A m \in inserted[r] :
        /\ \A n \in members : ~SameMembership(m, n)
        /\ \A q \in Requests \ {r} : \A n \in inserted[q] : ~SameMembership(m, n)

InFlight == Progress /\ OrgsApart /\ SlugsApart /\ RowsApart

IndInv ==
    /\ TypeOK
    /\ InFlight
    /\ OneRolePerMember
    /\ SlugUnique
    /\ EveryOrgHasOwner
-----------------------------------------------------------------------------
(* Every kind of step preserves the inductive invariant.                   *)

LEMMA InitIndInv == Init => IndInv
  BY NoSlugIsNoSlug
  DEF Init, IndInv, InFlight, TypeOK, Progress, OrgsApart, SlugsApart, RowsApart,
      OneRolePerMember, SlugUnique, EveryOrgHasOwner, Finals, MemberRow

\* What is said of the tables depends on nothing else.
LEMMA TablesUnchanged ==
    ASSUME IndInv, UNCHANGED <<organizations, members>>
    PROVE  OneRolePerMember' /\ SlugUnique' /\ EveryOrgHasOwner'
  BY DEF IndInv, OneRolePerMember, SlugUnique, EveryOrgHasOwner, Owners, SameMembership

\* A request that is rolled back leaves nothing behind.
LEMMA RollbackIndInv ==
    ASSUME IndInv, NEW r \in Requests, pc[r] # "idle",
           NEW a \in Finals, Rollback(r, a)
    PROVE  IndInv'
<1>1. TypeOK'
  BY DEF IndInv, TypeOK, Rollback
<1>2. Progress'
  BY DEF IndInv, InFlight, TypeOK, Progress, Rollback, NewMember
<1>3. OrgsApart'
  BY DEF IndInv, InFlight, TypeOK, OrgsApart, Rollback
<1>4. SlugsApart'
  BY DEF IndInv, InFlight, TypeOK, SlugsApart, Rollback
<1>5. RowsApart'
  BY DEF IndInv, InFlight, TypeOK, RowsApart, Rollback, SameMembership
<1>6. OneRolePerMember' /\ SlugUnique' /\ EveryOrgHasOwner'
  BY TablesUnchanged DEF Rollback
<1> QED
  BY <1>1, <1>2, <1>3, <1>4, <1>5, <1>6 DEF IndInv, InFlight

\* A step that reads and moves on: tables and flushed rows stay, and the
\* requests that are creating an organization are the same as before.
LEMMA ReadIndInv ==
    ASSUME IndInv, TypeOK', Progress', NEW r \in Requests, NEW from, NEW to,
           Goto(r, from, to), from # "idle",
           to \in {"insertOrg", "insert", "commit"} /\ call[r].op = "create"
               => from \in {"insertOrg", "insert", "commit"},
           UNCHANGED <<organizations, members, call, newOrg, inserted>>
    PROVE  IndInv'
<1>1. OrgsApart'
  BY DEF IndInv, InFlight, TypeOK, OrgsApart, Goto
<1>2. SlugsApart'
  BY DEF IndInv, InFlight, SlugsApart
<1>3. RowsApart'
  BY DEF IndInv, InFlight, RowsApart, SameMembership
<1>4. OneRolePerMember' /\ SlugUnique' /\ EveryOrgHasOwner'
  BY TablesUnchanged
<1> QED
  BY <1>1, <1>2, <1>3, <1>4 DEF IndInv, InFlight

LEMMA BeginIndInv ==
    ASSUME IndInv, NEW r \in Requests, Begin(r)
    PROVE  IndInv'
<1>1. PICK c \in Calls :
        /\ c.op = "create" => Fresh(c.org)
        /\ Goto(r, "idle", IF c.op = "create" THEN "insertOrg" ELSE "auth")
        /\ call' = [call EXCEPT ![r] = c]
        /\ UNCHANGED <<organizations, members, loaded, tx, answer>>
  BY DEF Begin
<1>2. c \in Call
  BY CallsAreTyped
<1>3. TypeOK'
  BY <1>1, <1>2 DEF IndInv, TypeOK, Goto, tx
<1>4. /\ \A q \in Requests \ {r} : call'[q] = call[q] /\ pc'[q] = pc[q]
      /\ call'[r] = c
      /\ pc[r] = "idle"
      /\ pc'[r] = IF c.op = "create" THEN "insertOrg" ELSE "auth"
  BY <1>1 DEF IndInv, TypeOK, Goto
<1>5. ~newOrg[r] /\ inserted[r] = {} /\ deleted[r] = {}
  BY <1>4 DEF IndInv, InFlight, Progress
<1>6. Progress'
  BY <1>1, <1>2, <1>4, <1>5 DEF IndInv, InFlight, Progress, NewMember, tx
<1>7. OrgsApart'
  BY <1>1, <1>4 DEF IndInv, InFlight, OrgsApart, Fresh
<1>8. SlugsApart'
  BY <1>1, <1>4, <1>5 DEF IndInv, InFlight, SlugsApart, tx
<1>9. RowsApart'
  BY <1>1 DEF IndInv, InFlight, RowsApart, SameMembership, tx
<1>10. OneRolePerMember' /\ SlugUnique' /\ EveryOrgHasOwner'
  BY <1>1, TablesUnchanged
<1> QED
  BY <1>3, <1>6, <1>7, <1>8, <1>9, <1>10 DEF IndInv, InFlight

LEMMA AuthorizeIndInv ==
    ASSUME IndInv, NEW r \in Requests, Authorize(r)
    PROVE  IndInv'
<1>1. CASE Authorized(r)
  <2>1. /\ Goto(r, "auth", "recheck")
        /\ UNCHANGED <<organizations, members, call, loaded, tx, answer>>
    BY <1>1 DEF Authorize
  <2>2. TypeOK'
    BY <2>1 DEF IndInv, TypeOK, Goto, tx
  <2>3. Progress'
    BY <2>1 DEF IndInv, InFlight, TypeOK, Progress, Goto, NewMember, tx
  <2> QED
    BY <2>1, <2>2, <2>3, ReadIndInv DEF tx
<1>2. CASE ~Authorized(r)
  BY <1>2, RollbackIndInv DEF Authorize, Finals
<1> QED
  BY <1>1, <1>2

LEMMA RecheckIndInv ==
    ASSUME IndInv, NEW r \in Requests, Recheck(r)
    PROVE  IndInv'
<1>1. CASE Authorized(r)
  <2>1. /\ Goto(r, "recheck", IF call[r].op = "remove" THEN "load" ELSE "insert")
        /\ UNCHANGED <<organizations, members, call, loaded, tx, answer>>
    BY <1>1 DEF Recheck
  <2>2. call[r].op # "create"
    BY <2>1 DEF IndInv, InFlight, Progress, Goto
  <2>3. TypeOK'
    BY <2>1 DEF IndInv, TypeOK, Goto, tx
  <2>4. Progress'
    BY <2>1, <2>2 DEF IndInv, InFlight, TypeOK, Progress, Goto, NewMember, tx
  <2> QED
    BY <2>1, <2>2, <2>3, <2>4, ReadIndInv DEF tx
<1>2. CASE ~Authorized(r)
  BY <1>2, RollbackIndInv DEF Recheck, Finals
<1> QED
  BY <1>1, <1>2

LEMMA InsertOrganizationIndInv ==
    ASSUME IndInv, NEW r \in Requests, InsertOrganization(r)
    PROVE  IndInv'
<1>1. CASE \E o \in Orgs : organizations[o] = call[r].slug
  BY <1>1, RollbackIndInv DEF InsertOrganization, Finals
<1>2. CASE ~\E o \in Orgs : organizations[o] = call[r].slug
  <2>1. /\ Goto(r, "insertOrg", "insert")
        /\ newOrg' = [newOrg EXCEPT ![r] = TRUE]
        /\ UNCHANGED <<organizations, members, call, loaded, inserted, deleted,
                       answer>>
        /\ \A q \in Requests \ {r} : newOrg[q] => call[q].slug # call[r].slug
    BY <1>2 DEF InsertOrganization
  <2>2. TypeOK'
    BY <2>1 DEF IndInv, TypeOK, Goto
  <2>3. Progress'
    BY <2>1 DEF IndInv, InFlight, TypeOK, Progress, Goto, NewMember
  <2>4. OrgsApart'
    BY <2>1 DEF IndInv, InFlight, TypeOK, Progress, OrgsApart, Goto
  <2>5. SlugsApart'
    BY <1>2, <2>1 DEF IndInv, InFlight, TypeOK, SlugsApart
  <2>6. RowsApart'
    BY <2>1 DEF IndInv, InFlight, RowsApart, SameMembership
  <2>7. OneRolePerMember' /\ SlugUnique' /\ EveryOrgHasOwner'
    BY <2>1, TablesUnchanged
  <2> QED
    BY <2>2, <2>3, <2>4, <2>5, <2>6, <2>7 DEF IndInv, InFlight
<1> QED
  BY <1>1, <1>2

LEMMA NewMemberType ==
    ASSUME NEW r \in Requests, call[r] \in Call
    PROVE  NewMember(r) \in MemberRow
  BY AccountsAreUsers DEF Call, NewMember, MemberRow, MemberRole

LEMMA InsertMemberIndInv ==
    ASSUME IndInv, NEW r \in Requests, InsertMember(r)
    PROVE  IndInv'
<1>1. CASE IntegrityError(r)
  BY <1>1, RollbackIndInv DEF InsertMember, Finals
<1>2. CASE ~IntegrityError(r)
  <2>1. /\ Goto(r, "insert", "commit")
        /\ inserted' = [inserted EXCEPT ![r] = {NewMember(r)}]
        /\ UNCHANGED <<organizations, members, call, loaded, newOrg, deleted,
                       answer>>
        /\ \A q \in Requests \ {r} :
             \A n \in inserted[q] : ~SameMembership(NewMember(r), n)
    BY <1>2 DEF InsertMember
  <2>2. call[r] \in Call
    BY <2>1 DEF IndInv, InFlight, Progress, Goto
  <2>3. TypeOK'
    BY <2>1, <2>2, NewMemberType DEF IndInv, TypeOK, Goto
  <2>4. Progress'
    BY <2>1 DEF IndInv, InFlight, TypeOK, Progress, Goto, NewMember
  <2>5. OrgsApart'
    BY <2>1 DEF IndInv, InFlight, TypeOK, OrgsApart, Goto
  <2>6. SlugsApart'
    BY <2>1 DEF IndInv, InFlight, SlugsApart
  <2>7. RowsApart'
    BY <1>2, <2>1 DEF IndInv, InFlight, TypeOK, RowsApart, SameMembership,
                      IntegrityError
  <2>8. OneRolePerMember' /\ SlugUnique' /\ EveryOrgHasOwner'
    BY <2>1, TablesUnchanged
  <2> QED
    BY <2>3, <2>4, <2>5, <2>6, <2>7, <2>8 DEF IndInv, InFlight
<1> QED
  BY <1>1, <1>2

LEMMA LoadMemberIndInv ==
    ASSUME IndInv, NEW r \in Requests, LoadMember(r)
    PROVE  IndInv'
<1> DEFINE found == MembershipOf(members, call[r].target, call[r].org)
<1>1. CASE found # {}
  <2>1. /\ Goto(r, "load", "guard")
        /\ loaded' = [loaded EXCEPT ![r] = found]
        /\ UNCHANGED <<organizations, members, call, tx, answer>>
    BY <1>1 DEF LoadMember
  <2>2. TypeOK'
    BY <2>1 DEF IndInv, TypeOK, Goto, MembershipOf, tx
  <2>3. Progress'
    BY <2>1 DEF IndInv, InFlight, TypeOK, Progress, Goto, NewMember, tx
  <2> QED
    BY <2>1, <2>2, <2>3, ReadIndInv DEF tx
<1>2. CASE found = {}
  BY <1>2, RollbackIndInv DEF LoadMember, Finals
<1> QED
  BY <1>1, <1>2

LEMMA GuardLastOwnerIndInv ==
    ASSUME IndInv, NEW r \in Requests, GuardLastOwner(r)
    PROVE  IndInv'
<1>1. CASE IsLastOwner(r)
  BY <1>1, RollbackIndInv DEF GuardLastOwner, Finals
<1>2. CASE ~IsLastOwner(r)
  <2>1. /\ Goto(r, "guard", "delete")
        /\ UNCHANGED <<organizations, members, call, loaded, tx, answer>>
    BY <1>2 DEF GuardLastOwner
  <2>2. TypeOK'
    BY <2>1 DEF IndInv, TypeOK, Goto, tx
  <2>3. Progress'
    BY <2>1 DEF IndInv, InFlight, TypeOK, Progress, Goto, NewMember, tx
  <2> QED
    BY <2>1, <2>2, <2>3, ReadIndInv DEF tx
<1> QED
  BY <1>1, <1>2

\* The only place where the body of BaseRepository.delete matters.
LEMMA DeleteMemberIndInv ==
    ASSUME IndInv, NEW r \in Requests, DeleteMember(r)
    PROVE  IndInv'
<1>1. call[r].op = "remove"
  BY DEF DeleteMember, Goto, IndInv, InFlight, Progress
<1>2. TypeOK'
  BY DEF DeleteMember, Delete, IndInv, TypeOK, Goto
<1>3. Progress'
  BY <1>1 DEF DeleteMember, Delete, IndInv, InFlight, TypeOK, Progress, Goto, NewMember
<1> QED
  BY <1>1, <1>2, <1>3, ReadIndInv DEF DeleteMember

LEMMA RespondIndInv ==
    ASSUME IndInv, NEW r \in Requests, Respond(r)
    PROVE  IndInv'
<1>1. TypeOK'
  BY DEF Respond, IndInv, TypeOK, Finals, Goto, tx
<1>2. Progress'
  BY DEF Respond, IndInv, InFlight, TypeOK, Progress, Goto, NewMember, tx
<1> QED
  BY <1>1, <1>2, ReadIndInv DEF Respond, tx

\* The commit of a foundation brings the organization and its owner, the one
\* of an invitation a row, the one of a removal nothing.
LEMMA CommitIndInv ==
    ASSUME IndInv, NEW r \in Requests, Commit(r)
    PROVE  IndInv'
<1>1. /\ Goto(r, "commit", "respond")
      /\ organizations' = IF newOrg[r]
                          THEN [organizations EXCEPT ![call[r].org] = call[r].slug]
                          ELSE organizations
      /\ newOrg' = [newOrg EXCEPT ![r] = FALSE]
      /\ inserted' = [inserted EXCEPT ![r] = {}]
      /\ deleted' = [deleted EXCEPT ![r] = {}]
      /\ UNCHANGED <<call, loaded, answer>>
  BY DEF Commit
<1>2. members' = members \cup inserted[r]
  BY DEF Commit, IndInv, InFlight, Progress
<1>3. pc[r] = "commit" /\ call[r] \in Call
  BY <1>1 DEF Goto, IndInv, InFlight, Progress
<1>4. call[r].org \in Orgs /\ call[r].slug \in Slugs
  BY <1>3 DEF Call
<1>5. TypeOK'
  BY <1>1, <1>2, <1>4 DEF IndInv, TypeOK, Goto
<1>6. Progress'
  BY <1>1, <1>3 DEF IndInv, InFlight, TypeOK, Progress, Goto, NewMember
<1>7. OrgsApart'
  BY <1>1, <1>3, <1>4 DEF IndInv, InFlight, TypeOK, Progress, OrgsApart, Goto
<1>8. SlugsApart'
  BY <1>1, <1>4 DEF IndInv, InFlight, TypeOK, SlugsApart
<1>9. RowsApart'
  BY <1>1, <1>2 DEF IndInv, InFlight, TypeOK, RowsApart, SameMembership
<1>10. OneRolePerMember'
  <2>1. \A m, n \in inserted[r] : m = n
    BY DEF IndInv, InFlight, Progress
  <2>2. \A m \in inserted[r] : \A n \in members :
          ~SameMembership(m, n) /\ ~SameMembership(n, m)
    BY DEF IndInv, InFlight, RowsApart, SameMembership
  <2> QED
    BY <1>2, <2>1, <2>2 DEF IndInv, OneRolePerMember, SameMembership
<1>11. SlugUnique'
  BY <1>1, <1>4 DEF IndInv, InFlight, TypeOK, SlugsApart, SlugUnique
<1>12. EveryOrgHasOwner'
  <2>1. CASE newOrg[r]
    <3>1. inserted[r] = {NewMember(r)} /\ call[r].op = "create"
      BY <1>3, <2>1 DEF IndInv, InFlight, Progress
    <3>2. NewMember(r).org = call[r].org /\ NewMember(r).role = "owner"
      BY <3>1 DEF NewMember
    <3> QED
      BY <1>1, <1>2, <1>4, <2>1, <3>1, <3>2 DEF IndInv, TypeOK, EveryOrgHasOwner, Owners
  <2>2. CASE ~newOrg[r]
    BY <1>1, <1>2, <2>2 DEF IndInv, EveryOrgHasOwner, Owners
  <2> QED
    BY <2>1, <2>2
<1> QED
  BY <1>5, <1>6, <1>7, <1>8, <1>9, <1>10, <1>11, <1>12 DEF IndInv, InFlight

LEMMA StutterIndInv ==
    ASSUME IndInv, UNCHANGED vars
    PROVE  IndInv'
<1>1. TypeOK'
  BY DEF vars, tx, IndInv, TypeOK
<1>2. Progress' /\ OrgsApart'
  BY DEF vars, tx, IndInv, InFlight, Progress, OrgsApart, NewMember
<1>3. SlugsApart' /\ RowsApart'
  BY DEF vars, tx, IndInv, InFlight, SlugsApart, RowsApart, SameMembership
<1>4. OneRolePerMember' /\ SlugUnique' /\ EveryOrgHasOwner'
  BY TablesUnchanged DEF vars
<1> QED
  BY <1>1, <1>2, <1>3, <1>4 DEF IndInv, InFlight

LEMMA NextIndInv == IndInv /\ [Next]_vars => IndInv'
<1> SUFFICES ASSUME IndInv, [Next]_vars PROVE IndInv'
  OBVIOUS
<1>1. ASSUME NEW r \in Requests, Begin(r) PROVE IndInv'
  BY <1>1, BeginIndInv
<1>2. ASSUME NEW r \in Requests, Step(r) PROVE IndInv'
  BY <1>2, AuthorizeIndInv, RecheckIndInv, InsertOrganizationIndInv,
     InsertMemberIndInv, LoadMemberIndInv, GuardLastOwnerIndInv,
     DeleteMemberIndInv, CommitIndInv, RespondIndInv
  DEF Step
<1>3. ASSUME NEW r \in Requests, Abort(r) PROVE IndInv'
  BY <1>3, RollbackIndInv DEF Abort, Finals
<1>4. CASE UNCHANGED vars
  BY <1>4, StutterIndInv
<1> QED
  BY <1>1, <1>2, <1>3, <1>4 DEF Next, Finished

-----------------------------------------------------------------------------
(* The theorems.                                                           *)

(***************************************************************************)
(* The inductive invariant holds in every reachable state.                 *)
(***************************************************************************)
THEOREM Invariance == Spec => []IndInv
  BY InitIndInv, NextIndInv, PTL DEF Spec

(***************************************************************************)
(* Requests, transactions and tables keep their types.                     *)
(***************************************************************************)
THEOREM TypeCorrect == Spec => []TypeOK
<1>1. IndInv => TypeOK
  BY DEF IndInv
<1> QED
  BY <1>1, Invariance, PTL

(***************************************************************************)
(* Concurrent invitations never give a user two roles in one organization. *)
(***************************************************************************)
THEOREM OneRole == Spec => []OneRolePerMember
<1>1. IndInv => OneRolePerMember
  BY DEF IndInv
<1> QED
  BY <1>1, Invariance, PTL

(***************************************************************************)
(* Concurrent foundations never share a slug.                              *)
(***************************************************************************)
THEOREM SlugsAreUnique == Spec => []SlugUnique
<1>1. IndInv => SlugUnique
  BY DEF IndInv
<1> QED
  BY <1>1, Invariance, PTL

(***************************************************************************)
(* Every committed organization has an owner, always.                      *)
(***************************************************************************)
THEOREM NeverWithoutOwner == Spec => []EveryOrgHasOwner
<1>1. IndInv => EveryOrgHasOwner
  BY DEF IndInv
<1> QED
  BY <1>1, Invariance, PTL

-----------------------------------------------------------------------------
(* Where rows come from and what the clients are told.  Given the          *)
(* inductive invariant, this needs one of its own.                         *)

Refusals == {"bad_request", "forbidden", "not_found", "conflict"}

Admits(n, user, org) == n.user = user /\ n.org = org /\ n.role \in {"owner", "admin"}

\* An invitation that has been authorized comes from an admin, and one that
\* has been flushed is to an organization that is there.
Invited(r) ==
    /\ inserted[r] # {} => call[r].op # "remove"
    /\ pc[r] \in {"insert", "commit"} /\ call[r].op = "invite" =>
         /\ \E n \in members : Admits(n, call[r].user, call[r].org)
         /\ pc[r] = "commit" =>
              organizations[call[r].org] # NoSlug /\ inserted[r] = {NewMember(r)}

AnswerOf(r) ==
    /\ answer[r] # "none" => pc[r] = "done"
    /\ (pc[r] = "respond" /\ call[r].op # "remove") \/ answer[r] = "created" =>
         NewMember(r) \in members /\ organizations[call[r].org] # NoSlug
    /\ answer[r] \in Refusals =>
         /\ \A m \in members : m.id # r
         /\ call[r].op = "create" => organizations[call[r].org] = NoSlug

\* A membership is the row of the request whose id it has.
Brought(m) ==
    LET r == m.id IN
    /\ m = NewMember(r)
    /\ pc[r] \in {"respond", "done"}
    /\ \/ call[r].op = "create"
       \/ /\ call[r].op = "invite"
          /\ \E n \in members : Admits(n, call[r].user, m.org)

Accounted ==
    /\ \A m \in members : Brought(m)
    /\ \A r \in Requests : Invited(r) /\ AnswerOf(r)

\* The roles that pass the check for the role admin.
LEMMA AdminRoles ==
    ASSUME NEW rows, rows \subseteq MemberRow, NEW u, NEW o, CheckRole(rows, u, o, "admin")
    PROVE  \E n \in rows : Admits(n, u, o)
  BY DEF CheckRole, MembershipOf, RoleBelow, order, Admits, MemberRow, MemberRole

\* How the tables change: by a commit, or not at all.
LEMMA TablesStep ==
    ASSUME IndInv, NEW r \in Requests, Begin(r) \/ Step(r) \/ Abort(r)
    PROVE  Commit(r) \/ UNCHANGED <<organizations, members>>
  BY DEF Begin, Step, Abort, Rollback, Authorize, Recheck, InsertOrganization,
         InsertMember, LoadMember, GuardLastOwner, DeleteMember, Respond

LEMMA OthersStep ==
    ASSUME IndInv, NEW r \in Requests, Begin(r) \/ Step(r) \/ Abort(r)
    PROVE  \A q \in Requests \ {r} :
             /\ pc'[q] = pc[q] /\ call'[q] = call[q]
             /\ answer'[q] = answer[q] /\ inserted'[q] = inserted[q]
<1>1. \A q \in Requests \ {r} : pc'[q] = pc[q]
  BY DEF Begin, Step, Abort, Rollback, Authorize, Recheck, InsertOrganization,
         InsertMember, LoadMember, GuardLastOwner, DeleteMember, Commit, Respond, Goto,
         IndInv, TypeOK
<1>2. \A q \in Requests \ {r} : call'[q] = call[q] /\ answer'[q] = answer[q]
  BY DEF Begin, Step, Abort, Rollback, Authorize, Recheck, InsertOrganization,
         InsertMember, LoadMember, GuardLastOwner, DeleteMember, Commit, Respond,
         IndInv, TypeOK
<1>3. \A q \in Requests \ {r} : inserted'[q] = inserted[q]
  BY DEF Begin, Step, Abort, Rollback, Authorize, Recheck, InsertOrganization,
         InsertMember, LoadMember, GuardLastOwner, DeleteMember, Commit, Respond,
         tx, IndInv, TypeOK
<1> QED
  BY <1>1, <1>2, <1>3

\* What a commit does to the tables: a foundation brings its organization,
\* which nobody else founds, and everybody brings the own row at most.
LEMMA CommitStep ==
    ASSUME IndInv, NEW r \in Requests, Commit(r)
    PROVE  /\ pc[r] = "commit" /\ pc'[r] = "respond" /\ call[r] \in Call
           /\ UNCHANGED <<call, answer>>
           /\ members' = members \cup inserted[r]
           /\ inserted[r] \in {{}, {NewMember(r)}}
           /\ call[r].op = "create" => inserted[r] = {NewMember(r)}
           /\ call[r].op = "create" => organizations'[call[r].org] # NoSlug
           /\ \A o \in Orgs : organizations[o] # NoSlug => organizations'[o] # NoSlug
           /\ \A o \in Orgs : organizations[o] = NoSlug /\ organizations'[o] # NoSlug =>
                call[r].op = "create" /\ call[r].org = o
<1>1. /\ pc[r] = "commit" /\ pc'[r] = "respond" /\ call[r] \in Call
      /\ UNCHANGED <<call, answer>>
      /\ organizations' = IF newOrg[r]
                          THEN [organizations EXCEPT ![call[r].org] = call[r].slug]
                          ELSE organizations
  BY DEF Commit, Goto, IndInv, InFlight, TypeOK, Progress
<1>2. deleted[r] = {} /\ inserted[r] \in {{}, {NewMember(r)}}
  BY DEF IndInv, InFlight, Progress
<1>3. members' = members \cup inserted[r]
  BY <1>2 DEF Commit
<1>4. call[r].op \in {"create", "invite", "remove"} /\ call[r].org \in Orgs
      /\ call[r].slug # NoSlug
  BY <1>1, NoSlugIsNoSlug DEF Call
<1>5. /\ call[r].op = "create" => newOrg[r] /\ inserted[r] = {NewMember(r)}
      /\ newOrg[r] => call[r].op = "create"
  BY <1>1 DEF IndInv, InFlight, Progress
<1>6. organizations \in [Orgs -> Slugs \cup {NoSlug}]
  BY DEF IndInv, TypeOK
<1> QED
  BY <1>1, <1>2, <1>3, <1>4, <1>5, <1>6

\* What the tables keep, whatever request r does.
LEMMA TablesKeep ==
    ASSUME IndInv, NEW r \in Requests, Begin(r) \/ Step(r) \/ Abort(r)
    PROVE  /\ members \subseteq members'
           /\ members' \subseteq members \cup {NewMember(r)}
           /\ \A o \in Orgs : organizations[o] # NoSlug => organizations'[o] # NoSlug
           /\ \A o \in Orgs : organizations[o] = NoSlug /\ organizations'[o] # NoSlug =>
                pc[r] # "idle" /\ call[r].op = "create" /\ call[r].org = o
<1>1. CASE Commit(r)
  BY <1>1, CommitStep
<1>2. CASE UNCHANGED <<organizations, members>>
  BY <1>2
<1> QED
  BY <1>1, <1>2, TablesStep

LEMMA OthersAccounted ==
    ASSUME IndInv, Accounted, NEW r \in Requests, Begin(r) \/ Step(r) \/ Abort(r),
           NEW q \in Requests \ {r}
    PROVE  Invited(q)' /\ AnswerOf(q)'
<1>1. /\ pc'[q] = pc[q] /\ call'[q] = call[q]
      /\ answer'[q] = answer[q] /\ inserted'[q] = inserted[q]
  BY OthersStep
<1>2. Invited(q) /\ AnswerOf(q)
  BY DEF Accounted
<1>3. pc[q] # "idle" => call[q].org \in Orgs
  BY DEF IndInv, InFlight, Progress, Call
<1>4. NewMember(q)' = NewMember(q) /\ NewMember(r).id # q
  BY <1>1 DEF NewMember
<1>5. answer[q] \in Refusals /\ call[q].op = "create" =>
        organizations'[call[q].org] = NoSlug
  <2>1. ASSUME answer[q] \in Refusals, call[q].op = "create",
               organizations'[call[q].org] # NoSlug
        PROVE  FALSE
    <3>1. pc[q] = "done" /\ organizations[call[q].org] = NoSlug
      BY <1>2, <2>1 DEF AnswerOf, Refusals
    <3>2. pc[r] # "idle" /\ call[r].op = "create" /\ call[r].org = call[q].org
      BY <1>3, <2>1, <3>1, TablesKeep
    <3> QED
      BY <2>1, <3>1, <3>2 DEF IndInv, InFlight, OrgsApart
  <2> QED
    BY <2>1
<1>6. Invited(q)'
  BY <1>1, <1>2, <1>3, <1>4, TablesKeep DEF Invited
<1>7. AnswerOf(q)'
  BY <1>1, <1>2, <1>3, <1>4, <1>5, TablesKeep DEF AnswerOf, Refusals
<1> QED
  BY <1>6, <1>7

\* A refusal comes before the commit.
LEMMA RollbackAccounted ==
    ASSUME IndInv, Accounted, NEW r \in Requests, NEW a \in Refusals \cup {"aborted"},
           Rollback(r, a), a \in Refusals => pc[r] \notin {"idle", "respond", "done"}
    PROVE  Invited(r)' /\ AnswerOf(r)'
<1>1. /\ pc'[r] = "done" /\ answer'[r] = a /\ inserted'[r] = {}
      /\ UNCHANGED <<organizations, members, call>>
  BY DEF Rollback, IndInv, TypeOK
<1>2. ASSUME a \in Refusals
      PROVE  /\ \A m \in members : m.id # r
             /\ call[r].op = "create" => organizations[call[r].org] = NoSlug
  <2>1. \A m \in members : m.id # r
    BY <1>2 DEF Accounted, Brought
  <2>2. call[r].op = "create" => pc[r] \in {"insertOrg", "insert", "commit"}
    BY <1>2 DEF IndInv, InFlight, TypeOK, Progress
  <2>3. call[r].op = "create" => organizations[call[r].org] = NoSlug
    BY <1>2, <2>2 DEF IndInv, InFlight, OrgsApart
  <2> QED
    BY <2>1, <2>3
<1> QED
  BY <1>1, <1>2 DEF Invited, AnswerOf, Refusals

LEMMA MoverAccounted ==
    ASSUME IndInv, Accounted, NEW r \in Requests, Begin(r) \/ Step(r) \/ Abort(r)
    PROVE  Invited(r)' /\ AnswerOf(r)'
<1>1. Invited(r) /\ AnswerOf(r)
  BY DEF Accounted
<1>2. CASE Begin(r)
  <2>1. /\ pc[r] = "idle" /\ pc'[r] \in {"insertOrg", "auth"} /\ UNCHANGED <<tx, answer>>
    BY <1>2 DEF Begin, Goto, IndInv, TypeOK
  <2>2. answer[r] = "none" /\ inserted[r] = {}
    BY <1>1, <2>1 DEF AnswerOf, IndInv, InFlight, Progress
  <2> QED
    BY <2>1, <2>2 DEF Invited, AnswerOf, Refusals, tx
<1>3. CASE \E a \in Refusals : Rollback(r, a) /\ pc[r] \notin {"idle", "respond", "done"}
  BY <1>3, RollbackAccounted
<1>4. CASE Abort(r)
  BY <1>4, RollbackAccounted DEF Abort, Refusals
<1>5. ASSUME NEW from, NEW to, Goto(r, from, to), UNCHANGED <<call, tx, answer>>,
             from # "done", to \notin {"insert", "commit", "respond", "done"}
      PROVE  Invited(r)' /\ AnswerOf(r)'
  <2>1. pc'[r] = to /\ answer[r] = "none"
    BY <1>1, <1>5 DEF Goto, AnswerOf, IndInv, TypeOK
  <2> QED
    BY <1>1, <1>5, <2>1 DEF Invited, AnswerOf, Refusals, tx
<1>6. CASE Authorize(r) \/ LoadMember(r) \/ GuardLastOwner(r)
  <2>1. \/ \E a \in Refusals : Rollback(r, a) /\ pc[r] \notin {"idle", "respond", "done"}
        \/ /\ UNCHANGED <<call, tx, answer>>
           /\ \/ Goto(r, "auth", "recheck")
              \/ Goto(r, "load", "guard")
              \/ Goto(r, "guard", "delete")
    BY <1>6 DEF Authorize, LoadMember, GuardLastOwner, Refusals
  <2> QED
    BY <1>3, <1>5, <2>1
<1>7. CASE Recheck(r) /\ Authorized(r)
  <2>1. /\ pc[r] = "recheck" /\ pc'[r] = (IF call[r].op = "remove" THEN "load" ELSE "insert")
        /\ UNCHANGED <<organizations, members, call, tx, answer>>
    BY <1>7 DEF Recheck, Goto, IndInv, TypeOK
  <2>2. call[r].op = "invite" => \E n \in members : Admits(n, call[r].user, call[r].org)
    BY <1>7, AdminRoles DEF Authorized, RequiredRole, IndInv, TypeOK
  <2>3. answer[r] = "none"
    BY <1>1, <2>1 DEF AnswerOf
  <2> QED
    BY <1>1, <2>1, <2>2, <2>3 DEF Invited, AnswerOf, Refusals, tx
<1>8. CASE Recheck(r) /\ ~Authorized(r)
  BY <1>3, <1>8 DEF Recheck, Refusals
<1>9. CASE InsertOrganization(r)
  <2>1. CASE \E o \in Orgs : organizations[o] = call[r].slug
    BY <1>3, <1>9, <2>1 DEF InsertOrganization, Refusals
  <2>2. CASE ~\E o \in Orgs : organizations[o] = call[r].slug
    <3>1. /\ pc[r] = "insertOrg" /\ pc'[r] = "insert"
          /\ UNCHANGED <<members, call, inserted, answer>>
      BY <1>9, <2>2 DEF InsertOrganization, Goto, IndInv, TypeOK
    <3>2. call[r].op = "create" /\ answer[r] = "none"
      BY <1>1, <3>1 DEF AnswerOf, IndInv, InFlight, Progress
    <3> QED
      BY <3>1, <3>2 DEF Invited, AnswerOf, Refusals
  <2> QED
    BY <2>1, <2>2
<1>10. CASE InsertMember(r)
  <2>1. CASE IntegrityError(r)
    BY <1>3, <1>10, <2>1 DEF InsertMember, Refusals
  <2>2. CASE ~IntegrityError(r)
    <3>1. /\ pc[r] = "insert" /\ pc'[r] = "commit" /\ inserted'[r] = {NewMember(r)}
          /\ UNCHANGED <<organizations, members, call, answer>>
      BY <1>10, <2>2 DEF InsertMember, Goto, IndInv, TypeOK
    <3>2. /\ call[r].op # "remove" /\ answer[r] = "none"
          /\ call[r].op = "invite" => ~newOrg[r]
      BY <1>1, <3>1 DEF AnswerOf, IndInv, InFlight, Progress
    <3>3. call[r].op = "invite" => organizations[call[r].org] # NoSlug
      BY <2>2, <3>2 DEF IntegrityError, NewMember
    <3>4. NewMember(r)' = NewMember(r)
      BY <3>1 DEF NewMember
    <3> QED
      BY <1>1, <3>1, <3>2, <3>3, <3>4 DEF Invited, AnswerOf, Refusals
  <2> QED
    BY <2>1, <2>2
<1>11. CASE DeleteMember(r)
  <2>1. /\ pc[r] = "delete" /\ pc'[r] = "commit" /\ UNCHANGED <<call, inserted, answer>>
    BY <1>11 DEF DeleteMember, Goto, IndInv, TypeOK
  <2>2. call[r].op = "remove" /\ answer[r] = "none"
    BY <1>1, <2>1 DEF AnswerOf, IndInv, InFlight, Progress
  <2> QED
    BY <1>1, <2>1, <2>2 DEF Invited, AnswerOf, Refusals
<1>12. CASE Commit(r)
  <2>1. inserted'[r] = {} /\ answer[r] = "none" /\ pc[r] = "commit"
    BY <1>1, <1>12, CommitStep DEF Commit, AnswerOf, IndInv, TypeOK
  <2>2. call[r].op \in {"create", "invite", "remove"} /\ call[r].org \in Orgs
    BY <1>12, CommitStep DEF Call
  <2>3. call[r].op # "remove" =>
          NewMember(r) \in members' /\ organizations'[call[r].org] # NoSlug
    BY <1>1, <1>12, <2>1, <2>2, CommitStep DEF Invited
  <2>4. NewMember(r)' = NewMember(r)
    BY <1>12, CommitStep DEF NewMember
  <2> QED
    BY <1>12, <2>1, <2>3, <2>4, CommitStep DEF Invited, AnswerOf, Refusals
<1>13. CASE Respond(r)
  <2>1. /\ pc[r] = "respond" /\ pc'[r] = "done"
        /\ answer'[r] = (IF call[r].op = "remove" THEN "removed" ELSE "created")
        /\ UNCHANGED <<organizations, members, call, inserted>>
    BY <1>13 DEF Respond, Goto, tx, IndInv, TypeOK
  <2> QED
    BY <1>1, <2>1 DEF Invited, AnswerOf, NewMember, Refusals
<1> QED
  BY <1>2, <1>4, <1>6, <1>7, <1>8, <1>9, <1>10, <1>11, <1>12, <1>13 DEF Step

LEMMA RowsAccounted ==
    ASSUME IndInv, Accounted, NEW r \in Requests, Begin(r) \/ Step(r) \/ Abort(r),
           NEW m \in members'
    PROVE  Brought(m)'
<1>1. m.id \in Requests
  <2>1. CASE m \in members
    BY <2>1 DEF IndInv, TypeOK, MemberRow
  <2>2. CASE m = NewMember(r)
    BY <2>2 DEF NewMember
  <2> QED
    BY <2>1, <2>2, TablesKeep
<1>2. CASE m \in members
  <2>1. Brought(m) /\ pc[m.id] \in {"respond", "done"}
    BY <1>2 DEF Accounted, Brought
  <2>2. call'[m.id] = call[m.id]
    <3>1. CASE m.id # r
      BY <1>1, <3>1, OthersStep
    <3>2. CASE m.id = r
      BY <2>1, <3>2 DEF Begin, Step, Abort, Rollback, Authorize, Recheck,
                        InsertOrganization, InsertMember, LoadMember, GuardLastOwner,
                        DeleteMember, Commit, Respond, Goto
    <3> QED
      BY <3>1, <3>2
  <2>3. pc'[m.id] \in {"respond", "done"}
    <3>1. CASE m.id # r
      BY <1>1, <2>1, <3>1, OthersStep
    <3>2. CASE m.id = r
      BY <2>1, <3>2 DEF Begin, Step, Abort, Rollback, Authorize, Recheck,
                        InsertOrganization, InsertMember, LoadMember, GuardLastOwner,
                        DeleteMember, Commit, Respond, Goto, IndInv, TypeOK
    <3> QED
      BY <3>1, <3>2
  <2> QED
    BY <1>1, <2>1, <2>2, <2>3, TablesKeep DEF Brought, NewMember
<1>3. CASE m \notin members
  <2>1. Commit(r) /\ m = NewMember(r)
    BY <1>3, TablesStep, TablesKeep
  <2>2. /\ pc[r] = "commit" /\ pc'[r] = "respond" /\ call' = call
        /\ call[r].op \in {"create", "invite", "remove"}
        /\ inserted[r] # {}
    BY <1>3, <2>1, CommitStep DEF Call
  <2>3. m.id = r /\ m.org = call[r].org
    BY <2>1 DEF NewMember
  <2>4. NewMember(r)' = NewMember(r)
    BY <2>2 DEF NewMember
  <2>5. \/ call[r].op = "create"
        \/ /\ call[r].op = "invite"
           /\ \E n \in members : Admits(n, call[r].user, call[r].org)
    BY <2>2 DEF Accounted, Invited
  <2> QED
    BY <2>1, <2>2, <2>3, <2>4, <2>5, TablesKeep DEF Brought
<1> QED
  BY <1>2, <1>3

LEMMA NextAccounted == IndInv /\ Accounted /\ [Next]_vars => Accounted'
<1> SUFFICES ASSUME IndInv, Accounted, [Next]_vars PROVE Accounted'
  OBVIOUS
<1>1. CASE UNCHANGED vars
  BY <1>1 DEF vars, tx, Accounted, Brought, Invited, AnswerOf, NewMember
<1>2. ASSUME NEW r \in Requests, Begin(r) \/ Step(r) \/ Abort(r)
      PROVE  Accounted'
  <2>1. \A q \in Requests : Invited(q)' /\ AnswerOf(q)'
    BY <1>2, OthersAccounted, MoverAccounted
  <2>2. \A m \in members' : Brought(m)'
    BY <1>2, RowsAccounted
  <2> QED
    BY <2>1, <2>2 DEF Accounted
<1> QED
  BY <1>1, <1>2 DEF Next, Finished

(***************************************************************************)
(* Every committed membership and every answer is accounted for by the     *)
(* request it comes from.                                                  *)
(***************************************************************************)
THEOREM AccountedInvariance == Spec => []Accounted
<1>1. Init => Accounted
  BY DEF Init, Accounted, Invited, AnswerOf, Refusals
<1> QED
  BY <1>1, NextAccounted, Invariance, PTL DEF Spec

(***************************************************************************)
(* Whoever is a member and did not found the organization was invited by   *)
(* one of its owners or admins, whatever else was committed between the    *)
(* check of the role and the commit of the invitation.                     *)
(***************************************************************************)
THEOREM AdminsBringMembers == Spec => []OnlyAdminsBringMembers
<1>1. Accounted => OnlyAdminsBringMembers
  BY DEF Accounted, Brought, Admits, OnlyAdminsBringMembers
<1> QED
  BY <1>1, AccountedInvariance, PTL

(***************************************************************************)
(* 201 means that the rows are there; an error response that the request   *)
(* has left none, not even the organization it had flushed already.        *)
(***************************************************************************)
THEOREM TruthfulAnswers == Spec => []AnswersAreTruthful
<1>1. Accounted => AnswersAreTruthful
  BY DEF Accounted, AnswerOf, Refusals, AnswersAreTruthful
<1> QED
  BY <1>1, AccountedInvariance, PTL
=============================================================================
