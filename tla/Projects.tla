------------------------------ MODULE Projects ------------------------------
(***************************************************************************)
(* ProjectService and its router: creating, archiving and listing projects *)
(* (src/projects/), and listing the tasks of a project, which reads in the *)
(* same way (src/tasks/).                                                  *)
(*                                                                         *)
(* Requests, sessions and row locks are those of Organizations.tla and     *)
(* TaskService.tla.  A list is two statements, the page and the total, and *)
(* each sees what has been committed when it starts.                       *)
(*                                                                         *)
(* A definition marked "Fault:" is no part of the system: it is the form   *)
(* its neighbour would take with a bug in the code, kept to show which     *)
(* property notices.                                                       *)
(***************************************************************************)
EXTENDS MemberRoles, Integers, FiniteSets

CONSTANTS
    Accounts,   \* active users
    Orgs,
    ProjectIds, \* project identifiers: uuids drawn by requests
    Tasks,      \* task identifiers
    Requests,   \* one identifier per HTTP request
    Calls,      \* the calls clients make
    Joining,    \* the memberships the organizations component may commit
    NoProject,  \* no row
    NoCall      \* nothing asked yet

\* org is the organization of the path; limit and offset are read by lists.
Call == [op : {"create", "archive", "list", "listTasks"}, user : Accounts,
         org : Orgs, project : ProjectIds, limit : Int, offset : Int]

MemberRow == [user : Accounts, org : Orgs, role : MemberRole]
ProjectRow == [org : Orgs, archived : BOOLEAN]

ASSUME CallsAreTyped == Calls \subseteq Call /\ Joining \subseteq MemberRow
ASSUME NoProjectIsNone ==
    /\ NoProject \notin ProjectIds
    /\ NoProject \notin ProjectRow

VARIABLES
    members,    \* committed: memberships
    projects,   \* committed: the row of every project, NoProject if absent
    tasks,      \* committed: the project of every task, NoProject if absent
    pc,         \* where each request stands
    call,       \* what each request was asked
    flushed,    \* the request holds an INSERT or an UPDATE not yet committed
    page,       \* the rows a list has selected
    total,      \* the rows a list has counted
    answer,     \* the response of each request
    committed,  \* history: requests that have committed a write
    before      \* history: the projects archived when each request arrived

tables == <<members, projects, tasks>>
vars == <<tables, pc, call, flushed, page, total, answer, committed, before>>

Refusals == {"already_archived", "forbidden", "not_found"}

TypeOK ==
    /\ members \subseteq MemberRow
    /\ projects \in [ProjectIds -> ProjectRow \cup {NoProject}]
    /\ tasks \in [Tasks -> ProjectIds \cup {NoProject}]
    /\ pc \in [Requests -> {"idle", "auth", "load", "check", "insert", "archive",
                            "commit", "page", "count", "respond", "done"}]
    /\ call \in [Requests -> Calls \cup {NoCall}]
    /\ flushed \in [Requests -> BOOLEAN]
    /\ page \in [Requests -> SUBSET (ProjectIds \cup Tasks)]
    /\ total \in [Requests -> Nat]
    /\ answer \in [Requests -> Refusals \cup {"none", "ok", "error", "aborted"}]
    /\ committed \subseteq Requests
    /\ before \in [Requests -> SUBSET ProjectIds]

Init ==
    /\ members = {}
    /\ projects = [p \in ProjectIds |-> NoProject]
    /\ tasks = [t \in Tasks |-> NoProject]
    /\ pc = [r \in Requests |-> "idle"]
    /\ call = [r \in Requests |-> NoCall]
    /\ flushed = [r \in Requests |-> FALSE]
    /\ page = [r \in Requests |-> {}]
    /\ total = [r \in Requests |-> 0]
    /\ answer = [r \in Requests |-> "none"]
    /\ committed = {}
    /\ before = [r \in Requests |-> {}]

-----------------------------------------------------------------------------
(* Steps of a request.                                                     *)

Goto(r, from, to) ==
    /\ pc[r] = from
    /\ pc' = [pc EXCEPT ![r] = to]

\* A statement that only reads, and lets the handler go on.
Pass(r, from, to) ==
    /\ Goto(r, from, to)
    /\ UNCHANGED <<tables, call, flushed, page, total, answer, committed, before>>

\* The handler has raised or has died: what it has flushed is rolled back
\* and the request is answered.
Rollback(r, a) ==
    /\ pc' = [pc EXCEPT ![r] = "done"]
    /\ flushed' = [flushed EXCEPT ![r] = FALSE]
    /\ answer' = [answer EXCEPT ![r] = a]
    /\ UNCHANGED <<tables, call, page, total, committed, before>>

Archived(p) == projects[p] # NoProject /\ projects[p].archived

\* uuid4: a project id is drawn once.
Fresh(p) ==
    /\ projects[p] = NoProject
    /\ \A q \in Requests :
         pc[q] # "idle" /\ call[q].op = "create" => call[q].project # p

\* A request arrives.
Begin(r) ==
    \E c \in Calls :
        /\ c.op = "create" => Fresh(c.project)
        /\ Goto(r, "idle", "auth")
        /\ call' = [call EXCEPT ![r] = c]
        /\ before' = [before EXCEPT ![r] = {p \in ProjectIds : Archived(p)}]
        /\ UNCHANGED <<tables, flushed, page, total, answer, committed>>

RequiredRole(op) == IF op \in {"create", "archive"} THEN "admin" ELSE "member"

\* The dependency of the router, require_organization_role.
Authorize(r) ==
    /\ pc[r] = "auth"
    /\ IF CheckRole(members, call[r].user, call[r].org, RequiredRole(call[r].op))
       THEN Pass(r, "auth", IF call[r].op \in {"archive", "listTasks"} THEN "load"
                                                                     ELSE "check")
       ELSE Rollback(r, "forbidden")

\* Fault: an archived project is archived again.
LoadAny(r) ==
    /\ pc[r] = "load"
    /\ IF projects[call[r].project] = NoProject
       THEN Rollback(r, "not_found")
       ELSE Pass(r, "load", "check")

\* get_project; archive_project looks at is_archived before the role.
Load(r) ==
    LET p == call[r].project IN
    /\ pc[r] = "load"
    /\ CASE projects[p] = NoProject -> Rollback(r, "not_found")
         [] call[r].op = "archive" /\ Archived(p) -> Rollback(r, "already_archived")
         [] OTHER -> Pass(r, "load", "check")

\* Fault: the organization of the path stands for the one of the project.
PathOrg(r) == call[r].org

\* The organization of a project never changes: the copy read is as good as
\* the row.
OrgOf(r) ==
    IF call[r].op \in {"create", "list"} THEN call[r].org
                                         ELSE projects[call[r].project].org

AfterCheck(op) ==
    CASE op = "create"  -> "insert"
      [] op = "archive" -> "archive"
      [] OTHER          -> "page"

\* check_role in the service.
Check(r) ==
    /\ pc[r] = "check"
    /\ IF CheckRole(members, call[r].user, OrgOf(r), RequiredRole(call[r].op))
       THEN Pass(r, "check", AfterCheck(call[r].op))
       ELSE Rollback(r, "forbidden")

(* Writing. *)

Flush(r, from) ==
    /\ Goto(r, from, "commit")
    /\ flushed' = [flushed EXCEPT ![r] = TRUE]
    /\ UNCHANGED <<tables, call, page, total, answer, committed, before>>

\* The foreign key holds: the organization has members.
InsertProject(r) == Flush(r, "insert")

\* is_archived is set on a copy that said FALSE, so the flush emits an UPDATE,
\* which waits for the row lock of another.
ArchiveProject(r) ==
    /\ pc[r] = "archive"
    /\ \A q \in Requests \ {r} : flushed[q] => call[q].project # call[r].project
    /\ Flush(r, "archive")

\* Fault: organization_id is left out, of a column that may be NULL.
WrittenWithoutOrg(r) ==
    IF call[r].op = "create"
    THEN [org |-> NoProject, archived |-> FALSE]
    ELSE [projects[call[r].project] EXCEPT !.archived = TRUE]

\* The row as the transaction leaves it.
Written(r) ==
    IF call[r].op = "create"
    THEN [org |-> call[r].org, archived |-> FALSE]
    ELSE [projects[call[r].project] EXCEPT !.archived = TRUE]

\* Fault: an endpoint without its transaction, whose session is closed with
\* nothing committed.
CloseSession(r) ==
    /\ Goto(r, "commit", "respond")
    /\ flushed' = [flushed EXCEPT ![r] = FALSE]
    /\ UNCHANGED <<tables, call, page, total, answer, committed, before>>

Commit(r) ==
    /\ Goto(r, "commit", "respond")
    /\ projects' = [projects EXCEPT ![call[r].project] = Written(r)]
    /\ flushed' = [flushed EXCEPT ![r] = FALSE]
    /\ committed' = committed \cup {r}
    /\ UNCHANGED <<members, tasks, call, page, total, answer, before>>

(* Listing. *)

\* The rows of the WHERE clause.
Listed(r) ==
    IF call[r].op = "list"
    THEN {p \in ProjectIds : projects[p] # NoProject /\ projects[p].org = call[r].org}
    ELSE {t \in Tasks : tasks[t] = call[r].project}

\* How many of n rows LIMIT and OFFSET leave.
PageSize(r, n) ==
    LET left == n - call[r].offset IN
    IF left <= 0 THEN 0
    ELSE IF left < call[r].limit THEN left ELSE call[r].limit

(* get_by_organization, get_by_project.  There is no ORDER BY: which rows a  *)
(* page has is up to the database.  PostgreSQL refuses a negative number,    *)
(* and nobody catches that.                                                  *)
SelectPage(r) ==
    /\ pc[r] = "page"
    /\ IF call[r].limit < 0 \/ call[r].offset < 0
       THEN Rollback(r, "error")
       ELSE \E rows \in SUBSET Listed(r) :
              /\ Cardinality(rows) = PageSize(r, Cardinality(Listed(r)))
              /\ Goto(r, "page", "count")
              /\ page' = [page EXCEPT ![r] = rows]
              /\ UNCHANGED <<tables, call, flushed, total, answer, committed, before>>

\* Fault: the total of the page only.
CountPage(r) ==
    /\ Goto(r, "count", "respond")
    /\ total' = [total EXCEPT ![r] = Cardinality(page[r])]
    /\ UNCHANGED <<tables, call, flushed, page, answer, committed, before>>

\* count_by_organization, count_by_project.
Count(r) ==
    /\ Goto(r, "count", "respond")
    /\ total' = [total EXCEPT ![r] = Cardinality(Listed(r))]
    /\ UNCHANGED <<tables, call, flushed, page, answer, committed, before>>

Respond(r) ==
    /\ Goto(r, "respond", "done")
    /\ answer' = [answer EXCEPT ![r] = "ok"]
    /\ UNCHANGED <<tables, call, flushed, page, total, committed, before>>

\* The worker dies or the database connection is lost.
Abort(r) ==
    /\ pc[r] \notin {"idle", "done"}
    /\ Rollback(r, "aborted")

Step(r) ==
    \/ Authorize(r)
    \/ Load(r)
    \/ Check(r)
    \/ InsertProject(r)
    \/ ArchiveProject(r)
    \/ Commit(r)
    \/ SelectPage(r)
    \/ Count(r)
    \/ Respond(r)

\* The organizations component commits a membership; a user has one at most.
Join(m) ==
    /\ MembershipOf(members, m.user, m.org) = {}
    /\ members' = members \cup {m}
    /\ UNCHANGED <<projects, tasks, pc, call, flushed, page, total, answer,
                   committed, before>>

\* The tasks component commits a task; it does not ask whether the project
\* is archived.
CreateTask(t, p) ==
    /\ tasks[t] = NoProject /\ projects[p] # NoProject
    /\ tasks' = [tasks EXCEPT ![t] = p]
    /\ UNCHANGED <<members, projects, pc, call, flushed, page, total, answer,
                   committed, before>>

\* Every request has been answered: the clients are done.
Finished ==
    /\ \A r \in Requests : pc[r] = "done"
    /\ UNCHANGED vars

Next ==
    \/ \E r \in Requests : Begin(r) \/ Step(r) \/ Abort(r)
    \/ \E m \in Joining : Join(m)
    \/ \E t \in Tasks, p \in ProjectIds : CreateTask(t, p)
    \/ Finished

Spec == Init /\ [][Next]_vars

-----------------------------------------------------------------------------
(* What the component guarantees.                                          *)

(***************************************************************************)
(* The path names an organization and a project which need not belong      *)
(* together: whoever has created or archived a project is an admin of the  *)
(* organization the project belongs to.                                    *)
(***************************************************************************)
OnlyAdminsWrite ==
    \A r \in committed :
        CheckRole(members, call[r].user, projects[call[r].project].org, "admin")

(***************************************************************************)
(* What remains of AlreadyArchived when requests race, since is_archived   *)
(* is read without a lock: a project is archived twice only by requests    *)
(* that overlap.  One that arrives when the project is archived changes    *)
(* nothing and is never told 200.                                          *)
(***************************************************************************)
NoLateArchive ==
    \A r \in Requests :
        pc[r] # "idle" /\ call[r].op = "archive" /\ call[r].project \in before[r] =>
            r \notin committed /\ answer[r] # "ok"

(***************************************************************************)
(* The response tells what happened: 200 when the write is committed and   *)
(* still in the table, 400 when ANOTHER request has archived the project,  *)
(* 403 and 404 only when this one has written nothing.                     *)
(***************************************************************************)
AnswersAreTruthful ==
    \A r \in Requests :
        /\ answer[r] = "ok" /\ call[r].op \in {"create", "archive"} =>
             /\ r \in committed
             /\ projects[call[r].project] # NoProject
             /\ call[r].op = "archive" => Archived(call[r].project)
        /\ answer[r] = "already_archived" =>
             \E q \in committed \ {r} :
                 call[q].op = "archive" /\ call[q].project = call[r].project
        /\ answer[r] \in Refusals => r \notin committed

(***************************************************************************)
(* The two statements of a list have two snapshots, but rows are never     *)
(* deleted and the total is counted last: a page never ends beyond the     *)
(* total the client is told, so that a client that pages up to the total   *)
(* asks for every position a row has been seen at.                         *)
(***************************************************************************)
PageFitsTotal ==
    \A r \in Requests :
        answer[r] = "ok" /\ page[r] # {} =>
            call[r].offset + Cardinality(page[r]) <= total[r]
=============================================================================
