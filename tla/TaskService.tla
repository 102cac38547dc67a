---------------------------- MODULE TaskService ----------------------------
(***************************************************************************)
(* TaskService and its router: creating a task, changing its status,       *)
(* assigning it (src/tasks/).                                              *)
(*                                                                         *)
(* A request is an asyncio task with a database session of its own; every  *)
(* awaited statement is one step.  The handlers read the task without a    *)
(* lock and decide on that copy; the flush emits an UPDATE of the columns  *)
(* that differ from the copy, waits for the row lock of a running          *)
(* transaction, and keeps the lock until the commit.  An assignment        *)
(* enqueues the notification of the assignee after its commit.             *)
(*                                                                         *)
(* Every endpoint asks for the role MEMBER, the lowest one, so being a     *)
(* member is all a role check asks.  Memberships appear and, as long as    *)
(* BaseRepository.delete deletes nothing, never go.                        *)
(*                                                                         *)
(* A definition marked "Fault:" is no part of the system: it is the form   *)
(* its neighbour would take with a bug in the code, kept to show which     *)
(* property notices.                                                       *)
(***************************************************************************)
EXTENDS TaskStateMachine

CONSTANTS
    Users,      \* identifiers a request may name
    Accounts,   \* those with a row in users
    Orgs,
    Projects,   \* project identifiers a request may name
    ProjectOrg, \* organization of every project, NoOrg if there is no row
    Tasks,      \* task identifiers
    Requests,   \* one identifier per HTTP request
    Calls,      \* the calls clients make
    Nobody,     \* no assignee
    NoOrg,
    NoTask,     \* no task row
    NoCall      \* nothing asked yet

\* org is the organization of the path, the one the router's dependency
\* checks; project is read when creating only, status when updating, and
\* target is the assignee of an assignment or a creation.
Call == [op : {"create", "update", "assign"}, user : Accounts, org : Orgs,
         project : Projects, task : Tasks, status : TaskStatus,
         target : Users \cup {Nobody}]

ASSUME AccountsAreUsers == Accounts \subseteq Users
ASSUME CallsAreTyped ==
    /\ Calls \subseteq Call
    /\ \A c \in Calls : c.op = "assign" => c.target # Nobody
ASSUME ProjectsHaveOrgs == ProjectOrg \in [Projects -> Orgs \cup {NoOrg}]
ASSUME NobodyIsNobody == Nobody \notin Users
ASSUME NoOrgIsNoOrg == NoOrg \notin Orgs

TaskRow == [project : Projects, assignee : Users \cup {Nobody}, status : TaskStatus]

ASSUME NoTaskIsNoTask == NoTask \notin TaskRow

VARIABLES
    members,    \* committed: the <<user, organization>> pairs
    tasks,      \* committed: the row of every task, NoTask if absent
    pc,         \* where each request stands
    call,       \* what each request was asked
    snap,       \* the copy of the task a handler works on
    flushed,    \* the request holds an INSERT or an UPDATE not yet committed
    jobs,       \* send_task_assigned_email jobs put into the queue
    answer,     \* the response of each request
    committed   \* history: requests whose transaction has committed

vars == <<members, tasks, pc, call, snap, flushed, jobs, answer, committed>>

Job == [id : Requests, user : Users, task : Tasks]

Finals == {"ok", "bad_request", "forbidden", "not_found", "error", "aborted"}

TypeOK ==
    /\ members \subseteq Accounts \X Orgs
    /\ tasks \in [Tasks -> TaskRow \cup {NoTask}]
    /\ pc \in [Requests -> {"idle", "auth", "load", "check", "checkAssignee",
                            "write", "commit", "enqueue", "respond", "done"}]
    /\ call \in [Requests -> Call \cup {NoCall}]
    /\ snap \in [Requests -> TaskRow \cup {NoTask}]
    /\ flushed \in [Requests -> BOOLEAN]
    /\ jobs \subseteq Job
    /\ answer \in [Requests -> Finals \cup {"none"}]
    /\ committed \subseteq Requests

Init ==
    /\ members = {}
    /\ tasks = [t \in Tasks |-> NoTask]
    /\ pc = [r \in Requests |-> "idle"]
    /\ call = [r \in Requests |-> NoCall]
    /\ snap = [r \in Requests |-> NoTask]
    /\ flushed = [r \in Requests |-> FALSE]
    /\ jobs = {}
    /\ answer = [r \in Requests |-> "none"]
    /\ committed = {}

-----------------------------------------------------------------------------
(* Steps of a request.                                                     *)

Goto(r, from, to) ==
    /\ pc[r] = from
    /\ pc' = [pc EXCEPT ![r] = to]

\* Fault: a handler that answers and keeps its transaction open.
LeakTransaction(r, a) ==
    /\ pc' = [pc EXCEPT ![r] = "done"]
    /\ answer' = [answer EXCEPT ![r] = a]
    /\ UNCHANGED <<members, tasks, call, snap, flushed, jobs, committed>>

\* The handler has raised or has died: what it has flushed is rolled back
\* and the request is answered.
Rollback(r, a) ==
    /\ pc' = [pc EXCEPT ![r] = "done"]
    /\ flushed' = [flushed EXCEPT ![r] = FALSE]
    /\ answer' = [answer EXCEPT ![r] = a]
    /\ UNCHANGED <<members, tasks, call, snap, jobs, committed>>

\* uuid4: a task id is drawn once.
Fresh(t) ==
    /\ tasks[t] = NoTask
    /\ \A q \in Requests :
         pc[q] # "idle" /\ call[q].op = "create" => call[q].task # t

\* A request arrives.
Begin(r) ==
    \E c \in Calls :
        /\ c.op = "create" => Fresh(c.task)
        /\ Goto(r, "idle", "auth")
        /\ call' = [call EXCEPT ![r] = c]
        /\ UNCHANGED <<members, tasks, snap, flushed, jobs, answer, committed>>

\* The dependency of the router, require_organization_role(MEMBER).
Authorize(r) ==
    /\ pc[r] = "auth"
    /\ IF <<call[r].user, call[r].org>> \in members
       THEN /\ Goto(r, "auth", "load")
            /\ UNCHANGED <<members, tasks, call, snap, flushed, jobs, answer,
                           committed>>
       ELSE Rollback(r, "forbidden")

\* The project the service looks at: the one of the path when creating,
\* else the one of the task it has read.
ProjectOf(r) ==
    IF call[r].op = "create" THEN call[r].project ELSE snap[r].project

\* task_repo.get_by_id, except when creating, and get_project.
Load(r) ==
    LET row == IF call[r].op = "create" THEN NoTask ELSE tasks[call[r].task] IN
    /\ pc[r] = "load"
    /\ IF \/ call[r].op = "create" /\ ProjectOrg[call[r].project] = NoOrg
          \/ call[r].op # "create" /\ row = NoTask
       THEN Rollback(r, "not_found")
       ELSE /\ Goto(r, "load", "check")
            /\ snap' = [snap EXCEPT ![r] = row]
            /\ UNCHANGED <<members, tasks, call, flushed, jobs, answer, committed>>

\* Fault: the organization of the path stands for the one of the project.
PathOrg(r) == call[r].org

OrgOf(r) == ProjectOrg[ProjectOf(r)]

\* check_role for the requesting user.
Check(r) ==
    /\ pc[r] = "check"
    /\ IF <<call[r].user, OrgOf(r)>> \in members
       THEN /\ Goto(r, "check", IF call[r].op = "assign" THEN "checkAssignee"
                                                         ELSE "write")
            /\ UNCHANGED <<members, tasks, call, snap, flushed, jobs, answer,
                           committed>>
       ELSE Rollback(r, "forbidden")

\* check_role for the assignee: InvalidAssignee becomes 400.
CheckAssignee(r) ==
    /\ pc[r] = "checkAssignee"
    /\ IF <<call[r].target, OrgOf(r)>> \in members
       THEN /\ Goto(r, "checkAssignee", "write")
            /\ UNCHANGED <<members, tasks, call, snap, flushed, jobs, answer,
                           committed>>
       ELSE Rollback(r, "bad_request")

(* Writing. *)

\* The row lock of an UPDATE: no other transaction holds one on the task.
Unlocked(r) ==
    \A q \in Requests \ {r} : flushed[q] => call[q].task # call[r].task

Flush(r) ==
    /\ Goto(r, "write", "commit")
    /\ flushed' = [flushed EXCEPT ![r] = TRUE]
    /\ UNCHANGED <<members, tasks, call, snap, jobs, answer, committed>>

\* INSERT: the foreign keys name a project, read before, and an account.
InsertTask(r) ==
    /\ pc[r] = "write" /\ call[r].op = "create"
    /\ IF call[r].target \in Accounts \cup {Nobody}
       THEN Flush(r)
       ELSE Rollback(r, "bad_request")

\* Fault: validate_transition is not called.
UpdateUnchecked(r) ==
    /\ pc[r] = "write" /\ call[r].op = "update"
    /\ Unlocked(r) /\ Flush(r)

\* validate_transition looks at the status of the copy.
UpdateStatus(r) ==
    /\ pc[r] = "write" /\ call[r].op = "update"
    /\ IF ValidTransition(snap[r].status, call[r].status)
       THEN Unlocked(r) /\ Flush(r)
       ELSE Rollback(r, "bad_request")

\* Fault: the job is enqueued inside the transaction.
AssignAndEnqueue(r) ==
    /\ pc[r] = "write" /\ call[r].op = "assign"
    /\ Unlocked(r)
    /\ Goto(r, "write", "commit")
    /\ flushed' = [flushed EXCEPT ![r] = TRUE]
    /\ jobs' = jobs \cup {[id |-> r, user |-> call[r].target, task |-> call[r].task]}
    /\ UNCHANGED <<members, tasks, call, snap, answer, committed>>

\* Assigning the assignee of the copy changes nothing and emits no UPDATE.
AssignTask(r) ==
    /\ pc[r] = "write" /\ call[r].op = "assign"
    /\ \/ /\ call[r].target # snap[r].assignee
          /\ Unlocked(r)
          /\ Flush(r)
       \/ /\ call[r].target = snap[r].assignee
          /\ Goto(r, "write", "commit")
          /\ UNCHANGED <<members, tasks, call, snap, flushed, jobs, answer,
                         committed>>

\* Fault: the copy is written back, every column of it.
WholeRow(r) ==
    CASE call[r].op = "create" ->
           [project |-> call[r].project, assignee |-> call[r].target,
            status |-> "backlog"]
      [] call[r].op = "update" -> [snap[r] EXCEPT !.status = call[r].status]
      [] call[r].op = "assign" -> [snap[r] EXCEPT !.assignee = call[r].target]

\* The row as the transaction leaves it: the flush has touched one column.
Written(r) ==
    CASE call[r].op = "create" ->
           [project |-> call[r].project, assignee |-> call[r].target,
            status |-> "backlog"]
      [] call[r].op = "update" ->
           [tasks[call[r].task] EXCEPT !.status = call[r].status]
      [] call[r].op = "assign" ->
           [tasks[call[r].task] EXCEPT !.assignee = call[r].target]

\* Fault: whatever has been committed is notified.
NotifyAlways(r) == "enqueue"

\* Only an assignment is notified.
AfterCommit(r) == IF call[r].op = "assign" THEN "enqueue" ELSE "respond"

Commit(r) ==
    /\ Goto(r, "commit", AfterCommit(r))
    /\ tasks' = IF flushed[r] THEN [tasks EXCEPT ![call[r].task] = Written(r)]
                              ELSE tasks
    /\ flushed' = [flushed EXCEPT ![r] = FALSE]
    /\ committed' = committed \cup {r}
    /\ UNCHANGED <<members, call, snap, jobs, answer>>

(* Notifying. *)

JobOf(r) == [id |-> r, user |-> call[r].target, task |-> call[r].task]

\* The router enqueues the job.
EnqueueJob(r) ==
    /\ Goto(r, "enqueue", "respond")
    /\ jobs' = jobs \cup {JobOf(r)}
    /\ UNCHANGED <<members, tasks, call, snap, flushed, answer, committed>>

\* Fault: the error is swallowed.
EnqueueFailureIgnored(r) ==
    /\ Goto(r, "enqueue", "done")
    /\ jobs' \in {jobs, jobs \cup {JobOf(r)}}
    /\ answer' = [answer EXCEPT ![r] = "ok"]
    /\ UNCHANGED <<members, tasks, call, snap, flushed, committed>>

\* Redis fails the call, before or after it has taken the job: the error is
\* not caught and the answer is 500.
EnqueueFails(r) ==
    /\ Goto(r, "enqueue", "done")
    /\ jobs' \in {jobs, jobs \cup {JobOf(r)}}
    /\ answer' = [answer EXCEPT ![r] = "error"]
    /\ UNCHANGED <<members, tasks, call, snap, flushed, committed>>

Respond(r) ==
    /\ Goto(r, "respond", "done")
    /\ answer' = [answer EXCEPT ![r] = "ok"]
    /\ UNCHANGED <<members, tasks, call, snap, flushed, jobs, committed>>

\* The worker dies or the database connection is lost: the session goes
\* without a further commit, and the client never learns how far it got.
Abort(r) ==
    /\ pc[r] \notin {"idle", "done"}
    /\ Rollback(r, "aborted")

Step(r) ==
    \/ Authorize(r)
    \/ Load(r)
    \/ Check(r)
    \/ CheckAssignee(r)
    \/ InsertTask(r)
    \/ UpdateStatus(r)
    \/ AssignTask(r)
    \/ Commit(r)
    \/ EnqueueJob(r)
    \/ Respond(r)

\* The organizations component commits a membership.
Join(u, o) ==
    /\ <<u, o>> \notin members
    /\ members' = members \cup {<<u, o>>}
    /\ UNCHANGED <<tasks, pc, call, snap, flushed, jobs, answer, committed>>

\* Every request has been answered: the clients are done.
Finished ==
    /\ \A r \in Requests : pc[r] = "done"
    /\ UNCHANGED vars

Next ==
    \/ \E r \in Requests : Begin(r) \/ Step(r) \/ EnqueueFails(r) \/ Abort(r)
    \/ \E u \in Accounts, o \in Orgs : Join(u, o)
    \/ Finished

Spec == Init /\ [][Next]_vars

\* The event loop resumes every handler whose statement has come back.
FairSpec == Spec /\ \A r \in Requests : WF_vars(Step(r))

-----------------------------------------------------------------------------
(* What the component guarantees.                                          *)

\* The statuses and the assignees a task has had.
CommittedOn(t, ops) ==
    {r \in committed : call[r].op \in ops /\ call[r].task = t}

Reached(t) ==
    IF tasks[t] = NoTask
    THEN {} ELSE {"backlog"} \cup {call[r].status : r \in CommittedOn(t, {"update"})}

Assigned(t) == {call[r].target : r \in CommittedOn(t, {"create", "assign"})}

(***************************************************************************)
(* What is left of the state machine when updates race: a task never has   *)
(* a status without having had one that precedes it, so that nothing is    *)
(* done that has not been in review and nothing in review that has not     *)
(* been in progress.                                                       *)
(***************************************************************************)
NoStatusOutOfTheBlue ==
    \A t \in Tasks : \A s \in Reached(t) \ {"backlog"} :
        \E former \in Reached(t) : s \in ALLOWED_TRANSITIONS[former]

(***************************************************************************)
(* Concurrent handlers do not undo each other's work: a commit changes the *)
(* status of a task only if that is what the request was for, and its      *)
(* assignee likewise, though each handler read the whole row long before.  *)
(***************************************************************************)
CommitsDoNotOverlap ==
    [][\A t \in Tasks : \A r \in Requests :
         tasks[t] # NoTask /\ pc[r] = "commit" /\ pc'[r] # "commit" =>
             /\ tasks'[t].project = tasks[t].project
             /\ call[r].op # "update" => tasks'[t].status = tasks[t].status
             /\ call[r].op # "assign" => tasks'[t].assignee = tasks[t].assignee]_vars

(***************************************************************************)
(* The path names an organization and a project, but the task decides: a   *)
(* request that has changed a task came from a member of the organization  *)
(* of its project, and assign_task assigns to one.  The assignee that      *)
(* create_task is given is not looked at, here as in the code.             *)
(***************************************************************************)
OutsidersNeverWrite ==
    \A r \in committed :
        LET org == ProjectOrg[tasks[call[r].task].project] IN
        /\ <<call[r].user, org>> \in members
        /\ call[r].op = "assign" => <<call[r].target, org>> \in members

(***************************************************************************)
(* A notification is only enqueued for an assignment that has been         *)
(* committed, and for one of the assignees the task has had.               *)
(***************************************************************************)
EmailsFollowCommits ==
    \A j \in jobs :
        /\ j.id \in committed
        /\ j.user \in Assigned(j.task)

(***************************************************************************)
(* The response tells what happened: 200 or 201 when the change has been   *)
(* committed (and the notification enqueued), an error of the 400 family   *)
(* only when nothing has.                                                  *)
(***************************************************************************)
AnswersAreTruthful ==
    \A r \in Requests :
        /\ answer[r] = "ok" =>
             /\ r \in committed
             /\ tasks[call[r].task] # NoTask
             /\ call[r].op = "assign" => JobOf(r) \in jobs
        /\ answer[r] \in {"bad_request", "forbidden", "not_found"} =>
             /\ r \notin committed
             /\ call[r].op = "create" => tasks[call[r].task] = NoTask
             /\ \A j \in jobs : j.id # r

(***************************************************************************)
(* Seen through the committed tables and the queue, the requests are the   *)
(* atomic steps of TaskBoard.                                              *)
(***************************************************************************)
Board == INSTANCE TaskBoard WITH
           JobIds <- Requests,
           reached <- [t \in Tasks |-> Reached(t)],
           assigned <- [t \in Tasks |-> Assigned(t)]

ImplementsBoard == Board!Spec

(***************************************************************************)
(* Every request that has begun is answered: waiting for the row lock of   *)
(* another transaction always ends.  A request is made once, so that comes *)
(* to saying that again and again there is a moment with none under way.   *)
(***************************************************************************)
EveryRequestAnswered ==
    []<>\A r \in Requests : pc[r] \in {"idle", "done"}

(***************************************************************************)
(* What the docstring of validate_transition says, "Ensure the task status *)
(* transition is allowed", and what InvalidTransitionError is for: the     *)
(* status of a task only changes along ALLOWED_TRANSITIONS.                *)
(***************************************************************************)
OnlyAllowedTransitions ==
    [][\A t \in Tasks :
         tasks[t] # NoTask /\ tasks'[t].status # tasks[t].status =>
             tasks'[t].status \in ALLOWED_TRANSITIONS[tasks[t].status]]_vars
=============================================================================
