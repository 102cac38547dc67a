--------------------------- MODULE Organizations ---------------------------
(***************************************************************************)
(* OrganizationService and its router: creating an organization, inviting  *)
(* a member, removing a member (src/organizations/).                       *)
(*                                                                         *)
(* A request is an asyncio task of one of the gunicorn workers with a      *)
(* database session of its own.  Every awaited SQL statement is one step,  *)
(* so requests interleave between any two statements.  PostgreSQL runs at  *)
(* READ COMMITTED: a statement sees the rows committed when it starts, an  *)
(* INSERT waits for a running transaction that has inserted the same       *)
(* unique key, and fails when that key is committed.                       *)
(*                                                                         *)
(* organizations and members are the committed tables; newOrg, inserted    *)
(* and deleted are what a request has flushed and not yet committed.       *)
(*                                                                         *)
(* A definition marked "Fault:" is no part of the system: it is the form   *)
(* its neighbour would take with a bug in the code, kept to show which     *)
(* property notices.                                                       *)
(***************************************************************************)
EXTENDS MemberRoles, FiniteSets

CONSTANTS
    Users,      \* identifiers a request may name
    Accounts,   \* those with a row in users
    Orgs,       \* organization identifiers: uuids drawn by requests
    Slugs,
    Requests,   \* one identifier per HTTP request
    Calls,      \* the calls clients make
    NoSlug,     \* no organization row
    NoCall      \* nothing asked yet

Call == [op : {"create", "invite", "remove"}, user : Accounts, org : Orgs,
         target : Users, role : MemberRole, slug : Slugs]

ASSUME AccountsAreUsers == Accounts \subseteq Users
ASSUME CallsAreTyped == Calls \subseteq Call
ASSUME NoSlugIsNoSlug == NoSlug \notin Slugs
ASSUME NoCallIsNoCall == NoCall \notin Call

VARIABLES
    organizations,  \* committed: slug of every organization, NoSlug if absent
    members,        \* committed: membership rows
    pc,             \* where each request stands
    call,           \* what each request was asked
    loaded,         \* member_to_remove: the row a removal has read
    newOrg,         \* flushed: the request has inserted its organization
    inserted,       \* flushed: membership rows inserted
    deleted,        \* flushed: membership rows deleted
    answer          \* the response of each request

tx == <<newOrg, inserted, deleted>>
vars == <<organizations, members, pc, call, loaded, tx, answer>>

MemberRow == [id : Requests, user : Users, org : Orgs, role : MemberRole]

Finals == {"created", "removed", "bad_request", "forbidden", "not_found",
           "conflict", "aborted"}

TypeOK ==
    /\ organizations \in [Orgs -> Slugs \cup {NoSlug}]
    /\ members \subseteq MemberRow
    /\ pc \in [Requests -> {"idle", "auth", "recheck", "load", "guard", "delete",
                            "insertOrg", "insert", "commit", "respond", "done"}]
    /\ call \in [Requests -> Call \cup {NoCall}]
    /\ loaded \in [Requests -> SUBSET MemberRow]
    /\ newOrg \in [Requests -> BOOLEAN]
    /\ inserted \in [Requests -> SUBSET MemberRow]
    /\ deleted \in [Requests -> SUBSET MemberRow]
    /\ answer \in [Requests -> Finals \cup {"none"}]

Init ==
    /\ organizations = [o \in Orgs |-> NoSlug]
    /\ members = {}
    /\ pc = [r \in Requests |-> "idle"]
    /\ call = [r \in Requests |-> NoCall]
    /\ loaded = [r \in Requests |-> {}]
    /\ newOrg = [r \in Requests |-> FALSE]
    /\ inserted = [r \in Requests |-> {}]
    /\ deleted = [r \in Requests |-> {}]
    /\ answer = [r \in Requests |-> "none"]

-----------------------------------------------------------------------------
(* Steps of a request.                                                     *)

Goto(r, from, to) ==
    /\ pc[r] = from
    /\ pc' = [pc EXCEPT ![r] = to]

\* Fault: a handler that answers and keeps its transaction open.
LeakTransaction(r, a) ==
    /\ pc' = [pc EXCEPT ![r] = "done"]
    /\ answer' = [answer EXCEPT ![r] = a]
    /\ UNCHANGED <<organizations, members, call, loaded, tx>>

\* Fault: a handler that commits what it has flushed before it fails.
CommitAnyway(r, a) ==
    /\ pc' = [pc EXCEPT ![r] = "done"]
    /\ organizations' = IF newOrg[r]
                        THEN [organizations EXCEPT ![call[r].org] = call[r].slug]
                        ELSE organizations
    /\ members' = members \cup inserted[r]
    /\ newOrg' = [newOrg EXCEPT ![r] = FALSE]
    /\ inserted' = [inserted EXCEPT ![r] = {}]
    /\ deleted' = [deleted EXCEPT ![r] = {}]
    /\ answer' = [answer EXCEPT ![r] = a]
    /\ UNCHANGED <<call, loaded>>

\* The handler has raised or has died: the transaction is rolled back and
\* the request is answered.
Rollback(r, a) ==
    /\ pc' = [pc EXCEPT ![r] = "done"]
    /\ newOrg' = [newOrg EXCEPT ![r] = FALSE]
    /\ inserted' = [inserted EXCEPT ![r] = {}]
    /\ deleted' = [deleted EXCEPT ![r] = {}]
    /\ answer' = [answer EXCEPT ![r] = a]
    /\ UNCHANGED <<organizations, members, call, loaded>>

\* uuid4: an organization id is drawn once.
Fresh(o) ==
    /\ organizations[o] = NoSlug
    /\ \A q \in Requests :
         pc[q] # "idle" /\ call[q].op = "create" => call[q].org # o

\* A request arrives.  Creating an organization needs an active user only.
Begin(r) ==
    \E c \in Calls :
        /\ c.op = "create" => Fresh(c.org)
        /\ Goto(r, "idle", IF c.op = "create" THEN "insertOrg" ELSE "auth")
        /\ call' = [call EXCEPT ![r] = c]
        /\ UNCHANGED <<organizations, members, loaded, tx, answer>>

RequiredRole(op) == IF op = "remove" THEN "owner" ELSE "admin"

Authorized(r) ==
    CheckRole(members, call[r].user, call[r].org, RequiredRole(call[r].op))

\* The dependency of the router, require_organization_role.
Authorize(r) ==
    /\ pc[r] = "auth"
    /\ IF Authorized(r)
       THEN /\ Goto(r, "auth", "recheck")
            /\ UNCHANGED <<organizations, members, call, loaded, tx, answer>>
       ELSE Rollback(r, "forbidden")

\* The service selects the membership of the requesting user again.
Recheck(r) ==
    /\ pc[r] = "recheck"
    /\ IF Authorized(r)
       THEN /\ Goto(r, "recheck", IF call[r].op = "remove" THEN "load" ELSE "insert")
            /\ UNCHANGED <<organizations, members, call, loaded, tx, answer>>
       ELSE Rollback(r, "forbidden")

(* Creating and inviting. *)

\* Fault: the role of an invitation is never set.
NewMemberWithoutRole(r) ==
    LET c == call[r] IN
    [id   |-> r,
     org  |-> c.org,
     user |-> IF c.op = "create" THEN c.user ELSE c.target,
     role |-> IF c.op = "create" THEN "owner" ELSE "null"]

\* The row OrganizationService adds: the creator as owner, or the invitee.
NewMember(r) ==
    LET c == call[r] IN
    [id   |-> r,
     org  |-> c.org,
     user |-> IF c.op = "create" THEN c.user ELSE c.target,
     role |-> IF c.op = "create" THEN "owner" ELSE c.role]

SameMembership(m, n) == m.user = n.user /\ m.org = n.org

\* Fault: a slug that is looked up first and carries no unique index.
InsertUnindexedOrganization(r) ==
    /\ pc[r] = "insertOrg"
    /\ IF \E o \in Orgs : organizations[o] = call[r].slug
       THEN Rollback(r, "bad_request")
       ELSE /\ Goto(r, "insertOrg", "insert")
            /\ newOrg' = [newOrg EXCEPT ![r] = TRUE]
            /\ UNCHANGED <<organizations, members, call, loaded, inserted,
                           deleted, answer>>

\* Flush of the organization row; its slug is unique.
InsertOrganization(r) ==
    /\ pc[r] = "insertOrg"
    /\ \A q \in Requests \ {r} : newOrg[q] => call[q].slug # call[r].slug
    /\ IF \E o \in Orgs : organizations[o] = call[r].slug
       THEN Rollback(r, "bad_request")
       ELSE /\ Goto(r, "insertOrg", "insert")
            /\ newOrg' = [newOrg EXCEPT ![r] = TRUE]
            /\ UNCHANGED <<organizations, members, call, loaded, inserted,
                           deleted, answer>>

\* Fault: a table without uq_organization_members_user_org.
ForeignKeyError(r) ==
    LET m == NewMember(r) IN
    m.user \notin Accounts \/ (organizations[m.org] = NoSlug /\ ~newOrg[r])

\* IntegrityError: the membership is there already, or a foreign key of the
\* row names no row.
IntegrityError(r) ==
    LET m == NewMember(r) IN
    \/ \E n \in members : SameMembership(m, n)
    \/ m.user \notin Accounts
    \/ organizations[m.org] = NoSlug /\ ~newOrg[r]

\* Flush of the membership row; (user_id, organization_id) is unique.
InsertMember(r) ==
    /\ pc[r] = "insert"
    /\ \A q \in Requests \ {r} :
         \A n \in inserted[q] : ~SameMembership(NewMember(r), n)
    /\ IF IntegrityError(r)
       THEN Rollback(r, "bad_request")
       ELSE /\ Goto(r, "insert", "commit")
            /\ inserted' = [inserted EXCEPT ![r] = {NewMember(r)}]
            /\ UNCHANGED <<organizations, members, call, loaded, newOrg,
                           deleted, answer>>

(* Removing. *)

\* member_to_remove is selected.
LoadMember(r) ==
    LET found == MembershipOf(members, call[r].target, call[r].org) IN
    /\ pc[r] = "load"
    /\ IF found # {}
       THEN /\ Goto(r, "load", "guard")
            /\ loaded' = [loaded EXCEPT ![r] = found]
            /\ UNCHANGED <<organizations, members, call, tx, answer>>
       ELSE Rollback(r, "not_found")

Owners(o) == {m \in members : m.org = o /\ m.role = "owner"}

\* _is_last_owner: the role comes from the row read before, the owners from
\* the table as it is now.
IsLastOwner(r) ==
    \E m \in loaded[r] : m.role = "owner" /\ Cardinality(Owners(m.org)) <= 1

GuardLastOwner(r) ==
    /\ pc[r] = "guard"
    /\ IF IsLastOwner(r)
       THEN Rollback(r, "conflict")
       ELSE /\ Goto(r, "guard", "delete")
            /\ UNCHANGED <<organizations, members, call, loaded, tx, answer>>

\* BaseRepository.delete: the rows the flush deletes.  AsyncSession.delete is
\* a coroutine function; called without await it marks nothing, and the flush
\* that follows finds nothing to delete.
Delete(rows) == {}

DeleteMember(r) ==
    /\ Goto(r, "delete", "commit")
    /\ deleted' = [deleted EXCEPT ![r] = Delete(loaded[r])]
    /\ UNCHANGED <<organizations, members, call, loaded, newOrg, inserted, answer>>

(* The end of the transaction. *)

\* Fault: an endpoint without its transaction, whose session is closed with
\* nothing committed.
CloseSession(r) ==
    /\ Goto(r, "commit", "respond")
    /\ newOrg' = [newOrg EXCEPT ![r] = FALSE]
    /\ inserted' = [inserted EXCEPT ![r] = {}]
    /\ deleted' = [deleted EXCEPT ![r] = {}]
    /\ UNCHANGED <<organizations, members, call, loaded, answer>>

Commit(r) ==
    /\ Goto(r, "commit", "respond")
    /\ organizations' = IF newOrg[r]
                        THEN [organizations EXCEPT ![call[r].org] = call[r].slug]
                        ELSE organizations
    /\ members' = (members \ deleted[r]) \cup inserted[r]
    /\ newOrg' = [newOrg EXCEPT ![r] = FALSE]
    /\ inserted' = [inserted EXCEPT ![r] = {}]
    /\ deleted' = [deleted EXCEPT ![r] = {}]
    /\ UNCHANGED <<call, loaded, answer>>

Respond(r) ==
    /\ Goto(r, "respond", "done")
    /\ answer' = [answer EXCEPT
                    ![r] = IF call[r].op = "remove" THEN "removed" ELSE "created"]
    /\ UNCHANGED <<organizations, members, call, loaded, tx>>

\* The worker dies or the database connection is lost: the session goes
\* without a further commit, and the client never learns how far it got.
Abort(r) ==
    /\ pc[r] \notin {"idle", "done"}
    /\ Rollback(r, "aborted")

Step(r) ==
    \/ Authorize(r)
    \/ Recheck(r)
    \/ InsertOrganization(r)
    \/ InsertMember(r)
    \/ LoadMember(r)
    \/ GuardLastOwner(r)
    \/ DeleteMember(r)
    \/ Commit(r)
    \/ Respond(r)

\* Every request has been answered: the clients are done.
Finished ==
    /\ \A r \in Requests : pc[r] = "done"
    /\ UNCHANGED vars

Next ==
    \/ \E r \in Requests : Begin(r) \/ Step(r) \/ Abort(r)
    \/ Finished

Spec == Init /\ [][Next]_vars

\* The event loop resumes every handler whose statement has come back.
FairSpec == Spec /\ \A r \in Requests : WF_vars(Step(r))

-----------------------------------------------------------------------------
(* What the component guarantees.                                          *)

(***************************************************************************)
(* A user has one role in an organization, however many invitations for    *)
(* the user run at once: the service never looks for the membership first, *)
(* it leans on the unique constraint and the rollback of the loser.        *)
(***************************************************************************)
OneRolePerMember ==
    \A m, n \in members : SameMembership(m, n) => m = n

(***************************************************************************)
(* Two organizations never share a slug, even when both are created at     *)
(* once and each finds the slug unused.                                    *)
(***************************************************************************)
SlugUnique ==
    \A o, p \in Orgs :
        organizations[o] = organizations[p] /\ organizations[o] # NoSlug => o = p

(***************************************************************************)
(* An organization is never without an owner: its row and its first        *)
(* owner's are committed together, and no combination of removals takes    *)
(* the last one away.                                                      *)
(***************************************************************************)
EveryOrgHasOwner ==
    \A o \in Orgs : organizations[o] # NoSlug => Owners(o) # {}

(***************************************************************************)
(* Whoever is a member and did not create the organization was brought in  *)
(* by someone who is an owner or an admin of that very organization.       *)
(***************************************************************************)
OnlyAdminsBringMembers ==
    \A m \in members :
        \/ call[m.id].op = "create"
        \/ /\ call[m.id].op = "invite"
           /\ \E n \in members :
                /\ n.user = call[m.id].user /\ n.org = m.org
                /\ n.role \in {"owner", "admin"}

(***************************************************************************)
(* The response tells what happened to the tables: 201 when the rows are   *)
(* there, an error response only when the request has left no row behind,  *)
(* although an organization is flushed before its owner is.                *)
(***************************************************************************)
AnswersAreTruthful ==
    \A r \in Requests :
        /\ answer[r] = "created" =>
             /\ NewMember(r) \in members
             /\ organizations[call[r].org] # NoSlug
        /\ answer[r] \in {"bad_request", "forbidden", "not_found", "conflict"} =>
             /\ \A m \in members : m.id # r
             /\ call[r].op = "create" => organizations[call[r].org] = NoSlug

(***************************************************************************)
(* Seen through the committed tables, the requests with their sessions and *)
(* rollbacks are the three atomic steps of OrgRegistry.                    *)
(***************************************************************************)
Registry == INSTANCE OrgRegistry WITH RowIds <- Requests

ImplementsRegistry == Registry!Spec

(***************************************************************************)
(* Every request that has begun is answered: waiting for another           *)
(* transaction's unique key always ends.                                   *)
(***************************************************************************)
EveryRequestAnswered ==
    \A r \in Requests : pc[r] # "idle" ~> pc[r] = "done"

(***************************************************************************)
(* What the docstring of remove_member says, "Remove a user from an        *)
(* organization": the membership of a removal answered 204 is gone.        *)
(***************************************************************************)
RemovedIsGone ==
    \A r \in Requests : answer[r] = "removed" => loaded[r] \cap members = {}
=============================================================================
