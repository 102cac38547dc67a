# CollabTask in TLA+

A formal model of CollabTask, the multi-tenant task management API under
`src/`: what its components promise each other, how their handlers interleave
at every `await`, and which of the promises survive that. TLC checks the
models on small instances; the TLA+ proof system proves all their safety
properties, and the refinements of the two abstract specifications, for every
size.

Paths below are relative to the application package, `src/src/`, unless they
start with `src/`.

## 1. Inventory

CollabTask is a FastAPI application run by four gunicorn worker processes, with
PostgreSQL for data, Redis for a job queue and one arq worker for emails. Every
request is an asyncio task with a database session of its own. A handler runs
alone between two `await`s; at each awaited SQL statement, Redis call or
websocket send any other handler may run, and handlers of other processes run
anyway. Services never lock rows and never retry; the endpoints wrap the
service call in `transaction(session)`, which commits or rolls back.

| Component | State | Operations | Talks to | What is hard |
| --- | --- | --- | --- | --- |
| organizations (`organizations/`) | tables organizations, organization_members | create, invite, remove | everyone asks it for roles | concurrent inserts of one unique key, rollback of a half done creation, the last owner |
| tasks (`tasks/`) | table tasks | create, update status, assign, list | organizations (roles), projects, the queue | decisions on stale copies, lost updates, notification after the commit |
| websocket rooms (`shared/connection_manager.py`, `projects/ws_router.py`) | a dictionary of rooms per process | connect, receive, broadcast, disconnect | organizations, projects at the handshake | every send is a point where rooms change; clients vanish |
| projects (`projects/`) | table projects | create, archive, list, get | tasks, rooms | check and write of `is_archived` without a lock; a page and its total with two snapshots |
| accounts (`users/`, `shared/dependencies.py`) | table users, tokens held by clients | register, login, refresh, use | every endpoint | unique email and username, expiry, inactive accounts |
| email worker (`workers/`) | the Redis queue, one SMTP connection | `send_task_assigned_email` | tasks | retries, a shared backend, swallowed errors |
| sessions (`database/engine.py`, `shared/repository.py`) | a connection pool | session, transaction, dispose | all of the above | pool limits |
| lifespan (`app.py`) | engine, rooms, queue in `app.state` | start, shutdown | rooms, sessions, queue | the order of the shutdown |
| rate limiter (`shared/limiter.py`) | counters per process | limit | accounts | one per process |
| health, settings, logging, middleware | none to speak of | | | |

What makes each correct, in short: *organizations*: one role per member, one
organization per slug, never without an owner, members brought in by admins
only, true answers. *Tasks*: the state machine is respected, concurrent
requests do not undo each other's work, only members write, notifications
belong to committed assignments. *Rooms*: who is connected is in the room and
who is gone is not, messages stay in the project and reach all of it,
broadcasts end. *Projects*: only admins of the project's own organization write,
no request archives what was archived before it came, a page fits its total.
*Accounts*: one account per email and username, a login ends at last, inactive
accounts are not served. *Email worker*: whoever is told of an assignment has a
job that is worked on to its end, mails tell of committed assignments, a
second mail takes a stop of the worker, and a lost one an error of the SMTP server
or two jobs at once at the backend they share.

`PROJECT.json` lists the hazards of the code with their lines, and which
properties cover which.

## 2. Modules

| Module | Models | Used by |
| --- | --- | --- |
| `MemberRoles` | roles, their order, `check_role` | `Organizations`, `OrgRegistry`, `Projects` |
| `OrgRegistry` | *abstract*: the registry of organizations and members | refined by `Organizations`, `OrgRegistryProofs` |
| `Organizations` | `organizations/service.py`, `router.py`, the role dependency, `transaction` | `MCOrganizations`, `OrganizationsProofs` |
| `TaskStateMachine` | `tasks/state_machine.py` | `TaskService`, `TaskBoard` |
| `TaskBoard` | *abstract*: a board of tasks and a queue of notifications | refined by `TaskService`, `TaskBoardProofs` |
| `TaskService` | `tasks/service.py`, `router.py`, but for the listing | `MCTaskService`, `TaskServiceProofs`, `AssignmentNotifications` |
| `EmailWorker` | `workers/tasks.py`, `arq_app.py`, and what arq does with a job | `AssignmentNotifications` |
| `AssignmentNotifications` | *composition*: the handlers of `TaskService`, the queue and the worker | `MCAssignmentNotifications`, `NotificationsProofs` |
| `Projects` | `projects/service.py`, `router.py`, `repository.py`; listing projects and tasks | `MCProjects`, `ProjectsProofs` |
| `Accounts` | `users/service.py`, `router.py`, `tokens.py`; `get_current_user`, `get_active_user` | `MCAccounts`, `AccountsProofs` |
| `ConnectionManager` | `shared/connection_manager.py`, `projects/ws_router.py` | `MCConnectionManager`, `ConnectionManagerProofs` |
| `MC…` | the instances TLC checks | the `.cfg` files |
| `…Proofs` | theorems and their proofs | |

Definitions whose comment begins with *Fault:* are not part of the system. Each
is the form that the definition next to it would take with a plausible bug
(a check dropped, a row written back whole, an error swallowed); put in its
place, it makes the property it is meant for fail, which shows that the
property is about the code.

### Organizations

A request is an identifier in `Requests` with a program counter `pc`. Each
awaited statement is one action:

| Action | Code |
| --- | --- |
| `Begin` | the request arrives with one of `Calls` |
| `Authorize` | `require_organization_role` in the router |
| `Recheck` | the service selects the membership of the requesting user again |
| `InsertOrganization`, `InsertMember` | `BaseRepository.create`: `add`, `flush` |
| `LoadMember`, `GuardLastOwner`, `DeleteMember` | `remove_member` |
| `Commit`, `Respond` | the end of `transaction` and the response, two steps: a worker may die in between |
| `Abort` | the worker or its database connection dies |

`organizations` and `members` are the committed tables; `newOrg`, `inserted`
and `deleted` are what a request has flushed. PostgreSQL runs at READ
COMMITTED, SQLAlchemy's and the server's default: a statement sees what has
been committed when it starts; an INSERT waits for another transaction that
has flushed the same unique key (the guard of the action) and fails when the
key is committed. `Rollback` is the whole error path of `transaction`.
`BaseRepository.delete` calls the coroutine `AsyncSession.delete` without
`await`: it marks nothing, and `Delete` is the empty set.

`Accounts` are the active users; a call may name others in the body (a foreign
key that fails), not as the requesting user, whom the token check would refuse.
Identifiers of organizations are `uuid4` and drawn once (`Fresh`).

### Tasks

The handlers select the task, then its project, then the memberships, and
decide on that copy (`snap`). The ORM's flush emits an UPDATE of the columns
that differ from the copy; it waits for the row lock of another running
transaction (`Unlocked`) and keeps its own until the commit. `Written`
therefore sets one column of the row as it is at that time. Assigning the user
who is the assignee of the copy flushes nothing and is still notified.
`EnqueueJob` comes after the commit; `EnqueueFails` is Redis failing before or
after it has taken the job, which nobody catches: a 500.

Every task endpoint asks for the lowest role, so a role check is membership.
Memberships appear at any time (`Join`), one by one, and no other way does the
table of memberships change: that is the theorem `PairsJoin` of `OrgRegistryProofs`,
about the code as it is, whose delete deletes nothing. If the delete is repaired, `Join` has to get a counterpart and
`OutsidersNeverWrite` has to be looked at again: it relies on memberships
checked some statements earlier still being there. Projects are constants: the
tasks component reads nothing but their organization, which no code changes
(theorem `TablesOnlyGrow` of `ProjectsProofs`).
`committed` is a history variable; the assignees and statuses a task has had,
which `TaskBoard` keeps, are derived from it.

### Websocket rooms

One handler per socket: `Accept`, `Authenticate` (token and role), `Connect`
(the project belongs to the organization of the path; the socket is put into
the room), then a loop of `Receive`, sends, `FinishBroadcast`, and at the end
`Leave` with its `finally`. connect and disconnect are `async` but never suspend,
and are single steps. In a broadcast only a send that is really made suspends: the
first send is looked at in the same breath as the list is copied, and a send that
raises RuntimeError, which Starlette does before it awaits anything, is followed by
the next. `running` holds the handler that has not suspended since, and while there
is one no other handler moves (`Resumable`) and no departure is noticed.

- `connections[k]` is the list of a room of a worker, as a set (a socket is
  registered once), or `NoRoom` if the dictionary has no entry. A broadcast
  serves the rest of its copy, `pending`, in any order: more behaviours than
  the list has, none fewer.
- `stale[s]`: the list the broadcast of `s` holds is no longer the one in the
  dictionary, because the room was dropped in between. It is empty, and a
  `remove` on it raises.
- `link[q]` says what the server knows of a client: `open`; `gone`, it has
  left and a send either vanishes or raises WebSocketDisconnect; `failed`, a
  send has failed, and later sends raise RuntimeError, as do sends to a handler
  that has ended. This part is external (Starlette, uvicorn), taken from how
  the code's `except` clauses use it.
- A message the schema refuses is logged and changes nothing; text that is no
  JSON ends the handler, like any exception (`StopReceiving` at any time).

### Projects

Requests are those of `Organizations` and `TaskService`. `Load` is `get_project`
with the look at `is_archived`, which comes before the role is checked; nothing
locks the row until `ArchiveProject` flushes its UPDATE, and the commit sets
`is_archived` whatever another has set it to meanwhile. `SelectPage` and `Count`
are the two statements of a list. There is no ORDER BY: a page is *any* set of
rows of the size that LIMIT and OFFSET leave. A negative number is PostgreSQL's
error and a 500. The same four actions serve the list of projects of an
organization and the list of tasks of a project, whose code differs in the table.

`Join` and `CreateTask` are the commits of the other components; `CreateTask`
does not look at `is_archived`, because the code does not. `before`, the projects
archived when a request arrived, and `committed` are history.

### Accounts

A token is a record of what its signature protects: subject, type and expiry, and
`login`, history: when the password was shown that it goes back to. `tokens` holds
every token ever given to a client, and a call may show any of them, expired or
not, of either kind. `use` is any endpoint behind `get_active_user`.

| Action | Code |
| --- | --- |
| `InsertUser` | `register_new_user`: no look before, the flush waits for a running INSERT with the same key |
| `DecodeToken` | `decode_token` and the check of `type`, against the clock of that moment |
| `SelectUser` | `get_by_email` and the password, or `get_by_id`; for a use, `is_active` |
| `IssueTokens` | `create_access_token`, `create_refresh_token`; a refresh returns the token it was shown |
| `Deactivate` | external: no code does, `is_active` is set in the database |
| `Tick` | the clock |

`Tick` lets a request be overtaken by the clock once: it is over within the tick
after the one it arrived in. `login` and `refresh` do not look at `is_active`, so an
inactive account goes on getting tokens; `InactiveAreLockedOut` says that they are
of no use. An account registered in the model has the id of its request.

### The email worker and its composition with the handlers

`EmailWorker` has the queue `jobs` and, for each job, a `stage` and the `tries` arq
has counted. `LookUp`, `Enter`, `Send` and `Exit` are the code of the job, the last
three its `async with`; `Start`, `Fail` and `Stop` are arq: a job that raises or runs
into `job_timeout` is given up, a job whose worker is shut down or dies is still in
the queue and is started again, up to `MaxTries` times.

`startup` makes one SMTP backend for all jobs, and each closes it when it leaves
`async with`, or is cancelled in it. `connected` are the jobs about to send under
which nobody has done so. A job that is not connected when it sends may find its
mail refused (`FindsItClosed`) or sent over another connection: what the library does
is external, and both are left open. Whatever is raised is swallowed and the job is
`done`; `disturbed`, history, says which jobs had an error of the server or another
job's exit to blame, and `LossesHaveACause` that without either no mail is lost.
That two jobs at once can lose one is thereby part of the model and not excluded:
no document of the repository promises otherwise.

`AssignmentNotifications` extends `TaskService` and instantiates `EmailWorker` over
the same `jobs`: a step of the whole is a step of the handlers or of the worker.
They share the queue and the database and nothing else.

## 3. Runs

| Run | Instance | Shows |
| --- | --- | --- |
| `orgs` | 4 interchangeable requests, 10 kinds of calls, 2 organizations, 2 slugs, 4 users of whom one has no account | the safety properties of organizations, and that it implements `OrgRegistry` |
| `orgs_live` | 3 requests, 4 kinds of calls | every request is answered |
| `orgs_removal` | the same instance | **violated**: a removal answered 204 removes nothing |
| `tasks` | 3 requests on one task, 9 kinds of calls, 2 organizations, a missing project and account | the safety properties of tasks, what remains of the state machine; implements `TaskBoard`; every request is answered |
| `tasks_race` | 3 requests on one task | **violated**: the status takes a transition that is not allowed |
| `rooms` | 3 members' websockets (two of one user) and an intruder, one message each | rooms hold exactly who should be in them, messages stay in the project |
| `rooms_live` | 2 websockets and a refused one, two messages each | broadcasts end, handlers of departed clients end |
| `rooms_sender` | 2 websockets | **violated**: a broadcast ends the handler of its healthy sender, and leaves the rest of the room unserved |
| `rooms_leak` | 2 websockets | **violated**: an empty room stays in the dictionary |
| `projects` | 3 interchangeable requests, 9 kinds of calls, 2 organizations with a project each, 2 tasks | who may write, the race on `is_archived`, true answers, pages and totals |
| `accounts` | 3 interchangeable requests, 7 kinds of calls, an account that has just logged in, a clock of 4 ticks with tokens of 1 and 2 | identities, true answers, the end of a login, inactive accounts |
| `notifications` | 3 requests: a creation and two assignments, to a member or to somebody without an account; 2 tries a job | the way from the request to the mail, with a failing queue, SMTP server, database and worker, and two jobs at one backend |

Deadlock is checked in all of them; when all requests are answered or all
handlers have ended, the model stutters on purpose (`Finished`).

*Why these bounds are enough to be interesting.* A conflict in organizations
takes a founder and two requests that race; four requests also cover an
invited owner, and a removal by or of that owner. Three requests on a task are
a creation and two that race, each of which may hold a copy that the other has
made stale. Three sockets in a room are a
sender, one who fails and one who is served after; a room dropped and created
again needs two. One message each suffices for safety, since a broadcast by
each of three handlers may be under way at once; two let a handler meet a
socket again that failed it before. Every request makes one call and ends; a
fifth concurrent request adds no new kind of conflict to properties that speak
of pairs, and the theorems below do not depend on any of these numbers.
In projects, three requests are a creation and two archives that race, or a write
and a list. In accounts the first login is part of the initial state, so that three
requests are a refresh, another with what it gave, and a use of what that gave: it
is the chain a refresh token that renews itself needs to outlive its login. Two
tries are the fewest with a retry, and two assignments the fewest whose jobs run
at once when the worker is stopped.

*Symmetry* is declared over requests, which no definition distinguishes, and
over the two sockets of one user, and over the tasks that are only counted; never in
a liveness run.

*Fairness.* `FairSpec` says that a handler which can go on eventually does: the
event loop is FIFO and each awaited statement returns. In `TaskService` and
`Organizations` that is weak fairness of `Step` per request, and the only
waiting, for a key or a row lock, ends when the holder commits, rolls back or
aborts. Nobody has to send a request, leave, die or make Redis fail. In
`ConnectionManager` it is strong fairness of `Handler` per socket: a send
returns or raises, since uvicorn closes a connection that does not answer its
pings; a handler that could go on has to wait whenever another runs, and the queue
of the event loop gives it its turn; receiving is only fair for a client that has
left. In
`AssignmentNotifications` it is weak fairness of `Step` per request and of the
worker's `Step` per job: a stopped worker is started again and takes what is in the
queue, which is an assumption about whoever operates it, since `docker-compose.yml`
sets no restart policy. Nothing keeps it from being stopped again: that this
can not go on for ever with one job is what `MaxTries` is for.

### What the violated properties say about the code

1. `orgs_removal`: `shared/repository.py:38` lacks an `await`; memberships
   can not be removed, though the endpoint answers 204. Whoever adds the `await`
   should check `EveryOrgHasOwner` again: nothing locks the owners that the guard
   of the last owner counts.
2. `tasks_race`: `update_status` reads the task without a lock. Two requests
   that both saw `backlog` can move the task to `cancelled` and then back to
   `in_progress`.
3. `rooms_sender`: `broadcast` catches `RuntimeError` only,
   and `room.remove` may itself raise.
4. `rooms_leak`: `room.remove` in `disconnect` raises when a broadcast has
   been there first, so the room is not popped.

Two more can be read off the models. There is no outbox: between the
commit of an assignment and `enqueue_job` a notification can be lost for good,
though the README of the repository says that assigning triggers one; `TaskService`
has the two steps and the `Abort` and `EnqueueFails` between them, and
`AnswersAreTruthful` says what is left, that a client told 200 has a job. And rooms
are per process, of which there are four: members of a project who are served by
different workers do not hear each other.

## 4. Proofs

`tlapm` checks every leaf (SMT, Zenon and, for temporal steps, LS4). Each
component has an inductive invariant `IndInv`; a lemma per action shows that
it is preserved, `NextIndInv` collects them and `Invariance` concludes
`Spec => []IndInv`. The theorems hold for every value of the constants under
the named assumptions of the modules: types of the constants, `No…` values
that are none of the proper ones, in `Accounts` that the accounts and tokens of
the initial state are such as the code could have made, and in
`AssignmentNotifications` that a job is tried at least once. TLC evaluates all
of them in the runs.

| Module | Proved of | What |
| --- | --- | --- |
| `OrganizationsProofs` | `Organizations` | `TypeCorrect`, `OneRole`, `SlugsAreUnique`, `NeverWithoutOwner`, `AdminsBringMembers`, `TruthfulAnswers` |
| `OrgRegistryProofs` | `Organizations`, `OrgRegistry` | `Refinement`, `Joins`, `PairsJoin` |
| `TaskServiceProofs` | `TaskService` | `TypeCorrect`, `StatusesFollow`, `OnlyMembersWrite`, `NotificationsFollow`, `NoLostUpdate`, `TruthfulAnswers` |
| `TaskBoardProofs` | `TaskService`, `TaskBoard` | `Refinement` |
| `ConnectionManagerProofs` | `ConnectionManager` | `TypeCorrect`, `NoSocketLeft`, `NoClientDeaf`, `MessagesStayInProject` |
| `ProjectsProofs` | `Projects` | `TypeCorrect`, `AdminsWrite`, `LateArchivesFail`, `TruthfulAnswers`, `PagesFit`, `TablesOnlyGrow` |
| `AccountsProofs` | `Accounts` | `TypeCorrect`, `UniqueIdentities`, `TruthfulAnswers`, `LoginsDoExpire`, `InactiveStayOut` |
| `NotificationsProofs` | `AssignmentNotifications`, `EmailWorker` | `HandlersInvariance`, `MailsAreOfAssignments`, `OneMailUnlessStopped`, `LossesAreExplained`, `NoMoreMailsThanTries` |

*Organizations.* That the tables are consistent is not inductive: it holds
because of what requests in flight have flushed. `Progress` ties the program
counter to the call and to what has been flushed, `OrgsApart` says that an
organization being created is nobody else's, `SlugsApart` and `RowsApart` that a
flushed key is neither committed nor flushed elsewhere.

What is said of single requests needs a second invariant, `Accounted`, proved on
top of the first: `Invited` carries the role check of an invitation to its
commit, `Brought` ties every committed row to the request whose id it has, and
`AnswerOf` says what each answer rests on. The delicate case is the other
request: an answer of one may only be falsified by a commit of another, and
`TablesKeep` says what a commit can do to the tables, whoever makes it.

*The registry.* A commit is the only step the registry sees; `FoundationStep`
and `InvitationStep` show the guards of its actions from `InFlight` and
`Accounted`, `RemovalStep` that a removal is a stuttering step. `RemoveMember` of
the registry is there for the removal the code intends, and never taken. `Joins`
and `PairsJoin` say that the table of memberships changes as the actions `Join`
of `Projects` and `TaskService` suppose, and so justify that these components are
modelled without this one; `TablesOnlyGrow` of `ProjectsProofs` does the same for
the organization of a project, a constant in `TaskService` and
`ConnectionManager`.

*Tasks.* The copy a handler works on need not be current. `Copies` says what is
true of it when it is used: the task is there, its project is the task's, its
status is one the task has *had*. `Permissions` carries the role checks to the
commit; it is about requesting users and the assignees of `assign_task`, and
`OnlyMembersWrite` says no more: `create_task` takes any account as an assignee. `Answers` is the second invariant, of answers, as above.

*The board.* `SetStatusStep` needs no more than `Copies`. `AssignStep` does: an
assignment whose copy has that assignee already emits no UPDATE, so the board must
not move, although the history gets one more assignment. `Assignees` says that the
assignee of a copy is one the task has had; `EnqueuedOnce`, that a job is not in the
queue before its request gets there, is what `Notify` asks for.

*Rooms.* `Handshakes` says who gets past the checks, `RoomsAreOfHandlers` that
rooms hold running handlers only, each in its own room, `CopiesAreOfRooms` that a
broadcast, however stale its copy, only ever serves admitted sockets of the
sender's room.

*Projects.* No handler here takes a lock before it decides. What saves it is that
the tables only grow: what a request has read is still true when it acts. `Fate`
says, request by request, what that is: its position (`Progress`), the row it
writes (`Row`), the role it was found to have (`Role`), that a late archiving gets no
further than the load (`Late`), who is to blame for a 400 (`Blame`), and that the page
lies within the rows that are there to be counted (`Position`). The lemmas about steps
(`StepIndInv`, `FateStays`) say this once for all actions. Pages need the tables to be
finite: `FinitelyManyRows` is part of the invariant, not an assumption.

*Accounts.* Two arguments. `Reservations` keeps what has been flushed apart from
what is committed, although nobody looks before inserting. `TokensInTerm` bounds the
expiry of every token by the login it goes back to: a refresh is itself bound by
the expiry of the token shown, and hands out access tokens only. `Timing` adds that
a request lasts a tick at most, and `Lockout` that an account found active was not
inactive when the request arrived.

*Notifications.* The worker never writes what the handlers read, so `IndInv` of
`TaskServiceProofs` survives it as it stands (`HandlersStep`), and makes every job in
the queue one of a committed assignment to a member with an account: `LookUp` never
ends at `unknown`. `WorkerInv` adds `Starts`, that a second start takes a stop and
that `MaxTries` are the limit, `Sent`, that every mail is from a try that has been
started and the present try has sent none before it gets there, and `Served`, that a
job about to send has its connection or has been disturbed, and one past it has sent
or has been disturbed.
`NoMoreMailsThanTries` counts the mails of a job by an injection into `1 .. MaxTries`.

*Only model-checked, for good.* The liveness properties (`EveryRequestAnswered` of two
modules, `EveryBroadcastEnds`, `GoneHandlersEnd`, `EveryNotificationConcludes`):
reasoning about ENABLED and fairness is out of this prover's reach. And the four
violated properties, which are false.

*Only proved.* `Joins`, `PairsJoin`, `TablesOnlyGrow` and `NoMoreMailsThanTries` have no
run: they are about what components owe each other, or follow from invariants that have.

## 5. Plan

Done: the components whose behaviour is concurrent in itself, in the order
organizations, tasks, rooms, projects, accounts, the email worker, and the
composition of the last with the tasks; the proofs of all their safety properties
and of both refinements. What is left:

1. Theorems of the abstract specifications on their own, that is, what a client may
   conclude from `OrgRegistry` and `TaskBoard` without looking at the components.
2. More of what the components owe each other: that an account stays, which
   `Organizations` and `TaskService` take for granted of `Accounts`.
3. For the rooms, which members a broadcast reaches at the least.

## 6. Not modelled, and why

- *Lifespan and `dispose_cm`.* Start and shutdown are straight lines of calls. The
  shutdown begins when the server has let its handlers end; `FinishedAreGone` says
  that no room holds a socket then, so the loop of `dispose_cm` closes nothing. What
  remains is the disposal of objects of libraries.
- *The connection pool.* Its queue, its limit and its timeout are SQLAlchemy's, with
  the defaults. A request waiting for a connection is, to the models, a statement
  that has not come back yet, and one that gets none is an `Abort`.
- *The rate limiter.* Counters, clock and refusal are slowapi's; the repository
  says ten a minute. A refused call runs none of its code. That each process counts
  for itself is listed among the hazards.
- *Health endpoint, settings, logging, request ids, bodies of responses*: no state a
  property could be about.
- *Migrations and deployment* run before the application starts; the constraints
  and the number of workers they fix are in the models that need them.
- *Names, descriptions, priorities and timestamps* are carried along by the code and
  decide nothing.
- *Cryptography* of tokens and passwords is external.
- `get_by_slug` and `get_all` are called by no endpoint.
